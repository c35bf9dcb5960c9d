------------------------- MODULE RtosFixturesProofs -------------------------
(***************************************************************************)
(* That two of the images of RtosFixtures are never wrong in saying OK,    *)
(* for any lengths of their loops and sleeps, however many ticks are lost  *)
(* and wherever the timer interrupts them.                                 *)
(***************************************************************************)
EXTENDS RtosFixtures, SequenceTheorems, FiniteSetTheorems, WellFoundedInduction, TLAPS

-----------------------------------------------------------------------------
(***************************************************************************)
(* The scheduler                                                           *)
(***************************************************************************)
LEMMA Smallest ==
  ASSUME NEW T, T \subseteq Nat, T # {}
  PROVE  \E x \in T : \A y \in T : x <= y
<1>1. PICK x \in T : \A y \in T : ~ (<<y, x>> \in OpToRel(<, Nat))
  BY NatLessThanWellFounded, WFMin
<1>2. \A y \in T : ~ (y < x)
  BY <1>1 DEF OpToRel
<1>3. QED
  BY <1>2

\* A queue that is not empty has a first task among those of the best priority.
LEMMA BestExists ==
  ASSUME NEW S, NEW q \in Seq(S), q # <<>>, NEW prio, \A t \in S : prio[t] \in Nat
  PROVE  \E i \in DOMAIN q : \A j \in DOMAIN q :
           prio[q[i]] < prio[q[j]] \/ (prio[q[i]] = prio[q[j]] /\ i <= j)
<1>1. 1 \in DOMAIN q /\ DOMAIN q \subseteq Nat /\ \A j \in DOMAIN q : q[j] \in S
  BY LenProperties, EmptySeq
<1>2. PICK i \in DOMAIN q : \A j \in DOMAIN q : prio[q[i]] <= prio[q[j]]
  <2> DEFINE T == {prio[q[j]] : j \in DOMAIN q}
  <2>1. T \subseteq Nat /\ T # {}
    BY <1>1
  <2>2. \E x \in T : \A y \in T : x <= y
    BY <2>1, Smallest
  <2>3. QED
    BY <2>2
<1>3. PICK k \in DOMAIN q : /\ prio[q[k]] = prio[q[i]]
                            /\ \A j \in DOMAIN q : prio[q[j]] = prio[q[i]] => k <= j
  <2> DEFINE T == {j \in DOMAIN q : prio[q[j]] = prio[q[i]]}
  <2>1. T \subseteq Nat /\ T # {}
    BY <1>1
  <2>2. \E x \in T : \A y \in T : x <= y
    BY <2>1, Smallest
  <2>3. QED
    BY <2>2
<1>4. \A j \in DOMAIN q : prio[q[i]] \in Nat /\ prio[q[j]] \in Nat
  BY <1>1
<1>5. ASSUME NEW j \in DOMAIN q
      PROVE  prio[q[k]] < prio[q[j]] \/ (prio[q[k]] = prio[q[j]] /\ k <= j)
  <2>1. prio[q[k]] <= prio[q[j]] /\ prio[q[k]] \in Nat /\ prio[q[j]] \in Nat
    BY <1>2, <1>3, <1>4, <1>5
  <2>2. CASE prio[q[j]] = prio[q[k]]
    BY <1>3, <1>5, <2>2
  <2>3. CASE prio[q[j]] # prio[q[k]]
    BY <2>1, <2>3
  <2>4. QED
    BY <2>2, <2>3
<1>6. QED
  BY <1>5

\* A queue without one of its places.
Without(q, i) == SubSeq(q, 1, i - 1) \o SubSeq(q, i + 1, Len(q))

LEMMA WithoutPlace ==
  ASSUME NEW S, NEW q \in Seq(S), NEW i \in DOMAIN q
  PROVE  /\ Without(q, i) \in Seq(S)
         /\ \A k \in DOMAIN Without(q, i) :
              \E j \in DOMAIN q : j # i /\ Without(q, i)[k] = q[j]
         /\ \A j \in DOMAIN q :
              j # i => \E k \in DOMAIN Without(q, i) : Without(q, i)[k] = q[j]
<1> PICK r : r = Without(q, i)
  OBVIOUS
<1>1. i \in Nat /\ 1 <= i /\ i <= Len(q) /\ Len(q) \in Nat /\ DOMAIN q = 1 .. Len(q)
  BY LenProperties
<1>2. PICK a : a = SubSeq(q, 1, i - 1)
  OBVIOUS
<1>3. PICK b : b = SubSeq(q, i + 1, Len(q))
  OBVIOUS
<1>4. /\ a \in Seq(S) /\ Len(a) = i - 1
      /\ \A k \in 1 .. i - 1 : a[k] = q[k]
  BY <1>1, <1>2, SubSeqProperties
<1>5. /\ b \in Seq(S) /\ Len(b) = Len(q) - i
      /\ \A k \in 1 .. Len(q) - i : b[k] = q[i + k]
  BY <1>1, <1>3, SubSeqProperties
<1>6. /\ a \o b \in Seq(S) /\ Len(a \o b) = Len(a) + Len(b)
      /\ \A k \in 1 .. Len(a) + Len(b) :
           (a \o b)[k] = IF k <= Len(a) THEN a[k] ELSE b[k - Len(a)]
  BY <1>4, <1>5, ConcatProperties
<1>7. /\ r \in Seq(S) /\ Len(r) = Len(q) - 1
      /\ \A k \in 1 .. Len(q) - 1 : r[k] = IF k <= i - 1 THEN a[k] ELSE b[k - (i - 1)]
  <2>1. r = a \o b
    BY <1>2, <1>3 DEF Without
  <2>2. Len(a) + Len(b) = Len(q) - 1
    BY <1>1, <1>4, <1>5
  <2>3. QED
    BY <1>4, <1>6, <2>1, <2>2
<1>8. DOMAIN r = 1 .. Len(q) - 1
  BY <1>7, LenProperties
<1>9. \A k \in 1 .. i - 1 : k \in DOMAIN r /\ k \in DOMAIN q /\ r[k] = q[k]
  <2> SUFFICES ASSUME NEW k \in 1 .. i - 1 PROVE k \in DOMAIN r /\ k \in DOMAIN q /\ r[k] = q[k]
    OBVIOUS
  <2>1. k \in 1 .. Len(q) - 1 /\ k <= i - 1 /\ k \in DOMAIN q
    BY <1>1
  <2>2. QED
    BY <1>4, <1>7, <1>8, <2>1
<1>10. \A k \in i .. Len(q) - 1 : k \in DOMAIN r /\ k + 1 \in DOMAIN q /\ r[k] = q[k + 1]
  <2> SUFFICES ASSUME NEW k \in i .. Len(q) - 1
               PROVE  k \in DOMAIN r /\ k + 1 \in DOMAIN q /\ r[k] = q[k + 1]
    OBVIOUS
  <2>1. /\ k \in 1 .. Len(q) - 1 /\ ~ (k <= i - 1) /\ k + 1 \in DOMAIN q
        /\ k - (i - 1) \in 1 .. Len(q) - i /\ i + (k - (i - 1)) = k + 1
    <3>1. k \in Nat /\ i <= k /\ k <= Len(q) - 1
      BY <1>1
    <3>2. k - (i - 1) >= 1 /\ k - (i - 1) <= Len(q) - i
      BY <1>1, <3>1
    <3>3. QED
      BY <1>1, <3>1, <3>2
  <2>2. r[k] = b[k - (i - 1)]
    BY <1>7, <2>1
  <2>3. b[k - (i - 1)] = q[i + (k - (i - 1))]
    BY <1>5, <2>1
  <2>4. QED
    BY <1>8, <2>1, <2>2, <2>3
<1>11. ASSUME NEW k \in DOMAIN r PROVE \E j \in DOMAIN q : j # i /\ r[k] = q[j]
  <2>1. k \in 1 .. i - 1 \/ k \in i .. Len(q) - 1
    BY <1>1, <1>8, <1>11
  <2>2. (k \in 1 .. i - 1 => k # i) /\ (k \in i .. Len(q) - 1 => k + 1 # i)
    BY <1>1
  <2>3. QED
    BY <1>9, <1>10, <2>1, <2>2
<1>12. ASSUME NEW j \in DOMAIN q, j # i PROVE \E k \in DOMAIN r : r[k] = q[j]
  <2>1. CASE j \in 1 .. i - 1
    BY <1>9, <2>1
  <2>2. CASE j \in i + 1 .. Len(q)
    <3>1. j - 1 \in i .. Len(q) - 1 /\ (j - 1) + 1 = j
      BY <1>1, <2>2
    <3>2. QED
      BY <1>10, <3>1
  <2>3. j \in 1 .. i - 1 \/ j \in i + 1 .. Len(q)
    BY <1>1, <1>12
  <2>4. QED
    BY <2>1, <2>2, <2>3
<1>13. QED
  BY <1>7, <1>11, <1>12

\* The tasks of a set in some order, as SetToSeq of the community modules chooses.
LEMMA SameCardinality ==
  ASSUME NEW S
  PROVE  /\ Preemption!IsFiniteSet(S) <=> IsFiniteSet(S)
         /\ Preemption!Cardinality(S) = Cardinality(S)
BY DEF Preemption!IsFiniteSet, IsFiniteSet, Preemption!Cardinality, Cardinality

LEMMA SetInSequence ==
  ASSUME NEW S, NEW D \in SUBSET S, IsFiniteSet(S)
  PROVE  Preemption!SetToSeq(D) \in Seq(S) /\ Range(Preemption!SetToSeq(D)) \subseteq D
<1>1. IsFiniteSet(D)
  BY FS_Subset
<1>2. Cardinality(D) \in Nat /\ ExistsBijection(1 .. Cardinality(D), D)
  BY <1>1, FS_CardinalityType
<1>3. \E f \in [1 .. Cardinality(D) -> D] : IsInjective(f)
  BY <1>2 DEF ExistsBijection, Bijection, Injection
<1>4. Preemption!SetToSeq(D) \in [1 .. Cardinality(D) -> D]
  <2>1. PICK c : c = Preemption!Cardinality(D)
    OBVIOUS
  <2>2. c = Cardinality(D)
    BY <2>1, SameCardinality
  <2>3. Preemption!SetToSeq(D) = CHOOSE f \in [1 .. c -> D] : Preemption!IsInjective(f)
    BY <2>1 DEF Preemption!SetToSeq
  <2>4. \E f \in [1 .. c -> D] : Preemption!IsInjective(f)
    BY <1>3, <2>2 DEF Preemption!IsInjective, IsInjective
  <2>5. QED
    BY <2>2, <2>3, <2>4
<1>5. PICK n \in Nat : n = Cardinality(D)
  BY <1>2
<1>6. PICK f : f = Preemption!SetToSeq(D)
  OBVIOUS
<1>7. f \in [1 .. n -> S] /\ f \in [1 .. n -> D]
  BY <1>4, <1>5, <1>6
<1>8. f \in Seq(S)
  BY <1>7, SeqDef
<1>9. Range(f) \subseteq D
  BY <1>7 DEF Range
<1>10. QED
  BY <1>6, <1>8, <1>9

-----------------------------------------------------------------------------
(***************************************************************************)
(* What the calls of the scheduler do                                      *)
(***************************************************************************)
LEMMA FixtureTasks ==
  /\ IsFiniteSet(Tasks) /\ "main" \in Tasks /\ Idle \notin Tasks
  /\ {"worker0", "worker1", "low", "medium", "high"} \subseteq Tasks
  /\ LoopTicks \in Nat \ {0} /\ MaxCount \in Nat \ {0}
<1>1. Preemption!IsFiniteSet(Tasks) /\ "main" \in Tasks /\ Idle \notin Tasks
  <2>1. Inheritance!IsFiniteSet(Tasks) /\ "main" \in Tasks /\ Idle \notin Tasks
    BY FixturesAssumption DEF Inheritance!KernelAssumption
  <2>2. Inheritance!IsFiniteSet(Tasks) <=> IsFiniteSet(Tasks)
    BY DEF Inheritance!IsFiniteSet, IsFiniteSet
  <2>3. QED
    BY <2>1, <2>2, SameCardinality
<1>2. QED
  BY <1>1, SameCardinality, FixturesAssumption
     DEF Preemption!PreemptionAssumption, Inheritance!InheritanceAssumption

\* Types of the scheduler's state.
Scheduled ==
  /\ ready \in Seq(Tasks) /\ current \in Tasks \cup {Idle}
  /\ priority \in [Tasks -> Nat]

\* The CPU went to the best of queue q, the rest of which is the queue now.
Dispatched(q, prio) ==
  \/ q = <<>> /\ current' = Idle /\ ready' = <<>>
  \/ \E i \in DOMAIN q :
       /\ current' = q[i]
       /\ \A j \in DOMAIN q : prio[q[i]] <= prio[q[j]]
       /\ \A k \in DOMAIN ready' : \E j \in DOMAIN q : j # i /\ ready'[k] = q[j]
       /\ \A j \in DOMAIN q : j # i => \E k \in DOMAIN ready' : ready'[k] = q[j]

LEMMA Dispatching ==
  ASSUME NEW q \in Seq(Tasks), NEW prio \in [Tasks -> Nat], Preemption!Dispatch(q, prio)
  PROVE  /\ ready' \in Seq(Tasks) /\ current' \in Tasks \cup {Idle}
         /\ Dispatched(q, prio)
<1>1. CASE q = <<>>
  BY <1>1, EmptySeq DEF Preemption!Dispatch, Dispatched
<1>2. CASE q # <<>>
  <2>1. \E i \in DOMAIN q : \A j \in DOMAIN q :
          prio[q[i]] < prio[q[j]] \/ (prio[q[i]] = prio[q[j]] /\ i <= j)
    <3>1. \A t \in Tasks : prio[t] \in Nat
      OBVIOUS
    <3>2. QED
      BY <1>2, <3>1, BestExists
  <2>2. PICK i : i = Preemption!Best(q, prio)
    OBVIOUS
  <2>3. /\ i \in DOMAIN q
        /\ \A j \in DOMAIN q :
             prio[q[i]] < prio[q[j]] \/ (prio[q[i]] = prio[q[j]] /\ i <= j)
    BY <2>1, <2>2 DEF Preemption!Best
  <2>4. current' = q[i] /\ ready' = Without(q, i)
    BY <1>2, <2>2 DEF Preemption!Dispatch, Preemption!RemoveAt, Without
  <2>5. PICK r : r = Without(q, i)
    OBVIOUS
  <2>6. /\ r \in Seq(Tasks)
        /\ \A k \in DOMAIN r : \E j \in DOMAIN q : j # i /\ r[k] = q[j]
        /\ \A j \in DOMAIN q : j # i => \E k \in DOMAIN r : r[k] = q[j]
    <3>1. i \in DOMAIN q
      BY <2>3
    <3>2. QED
      BY <3>1, <2>5, WithoutPlace
  <2>7. \A j \in DOMAIN q : q[j] \in Tasks /\ prio[q[j]] \in Nat
    BY LenProperties
  <2>8. \A j \in DOMAIN q : prio[q[i]] <= prio[q[j]]
    BY <2>3, <2>7
  <2>9. current' \in Tasks /\ ready' = r
    BY <2>3, <2>4, <2>5, <2>7
  <2>10. /\ \A k \in DOMAIN ready' : \E j \in DOMAIN q : j # i /\ ready'[k] = q[j]
         /\ \A j \in DOMAIN q : j # i => \E k \in DOMAIN ready' : ready'[k] = q[j]
    BY <2>6, <2>9
  <2>11. i \in DOMAIN q /\ current' = q[i]
    BY <2>3, <2>4
  <2>12. Dispatched(q, prio)
    BY <2>8, <2>10, <2>11 DEF Dispatched
  <2>13. QED
    BY <2>6, <2>9, <2>12
<1>3. QED
  BY <1>1, <1>2

\* The calls are the same in the two images.
LEMMA SameCalls ==
  /\ \A q, prio : Inheritance!Dispatch(q, prio) <=> Preemption!Dispatch(q, prio)
  /\ \A p, r : Inheritance!Tick(p, r) <=> Preemption!Tick(p, r)
<1>1. \A q, prio : Inheritance!Best(q, prio) = Preemption!Best(q, prio)
  BY DEF Inheritance!Best, Preemption!Best
<1>2. \A q, prio : Inheritance!Dispatch(q, prio) <=> Preemption!Dispatch(q, prio)
  BY <1>1 DEF Inheritance!Dispatch, Preemption!Dispatch, Inheritance!RemoveAt, Preemption!RemoveAt
<1>3. \A S : Inheritance!SetToSeq(S) = Preemption!SetToSeq(S)
  BY DEF Inheritance!SetToSeq, Preemption!SetToSeq, Inheritance!Cardinality,
     Preemption!Cardinality, Inheritance!IsInjective, Preemption!IsInjective
<1>4. \A q, p, r : Inheritance!InterruptExit(q, p, r) <=> Preemption!InterruptExit(q, p, r)
  BY <1>2 DEF Inheritance!InterruptExit, Preemption!InterruptExit,
     Inheritance!Range, Preemption!Range
<1>5. Inheritance!Due = Preemption!Due
  BY DEF Inheritance!Due, Preemption!Due
<1>6. \A p, r : Inheritance!Tick(p, r) <=> Preemption!Tick(p, r)
  BY <1>3, <1>4, <1>5 DEF Inheritance!Tick, Preemption!Tick
<1>7. QED
  BY <1>2, <1>6

\* A task is at most once in a queue.
Once(t, q) == \A i, j \in DOMAIN q : q[i] = t /\ q[j] = t => i = j

LEMMA OnceAppended ==
  ASSUME NEW S, NEW r \in Seq(S), NEW e \in S, NEW t,
         \/ t # e /\ Once(t, r)
         \/ t \notin Range(r)
  PROVE  Once(t, Append(r, e))
<1>1. /\ Append(r, e) \in Seq(S) /\ Len(Append(r, e)) = Len(r) + 1
      /\ \A i \in 1 .. Len(r) : Append(r, e)[i] = r[i]
      /\ Append(r, e)[Len(r) + 1] = e
  BY AppendProperties
<1>2. /\ DOMAIN Append(r, e) = 1 .. Len(r) + 1 /\ DOMAIN r = 1 .. Len(r) /\ Len(r) \in Nat
      /\ \A i \in DOMAIN Append(r, e) : i \in DOMAIN r \/ i = Len(r) + 1
  BY <1>1, LenProperties
<1>3. \A i \in DOMAIN r : r[i] \in Range(r)
  BY DEF Range
<1>4. QED
  BY <1>1, <1>2, <1>3 DEF Once

LEMMA OnceConcatenated ==
  ASSUME NEW S, NEW r \in Seq(S), NEW s \in Seq(S), NEW t, t \notin Range(s), Once(t, r)
  PROVE  Once(t, r \o s)
<1>1. /\ r \o s \in Seq(S) /\ Len(r \o s) = Len(r) + Len(s)
      /\ \A i \in 1 .. Len(r) + Len(s) :
           (r \o s)[i] = IF i <= Len(r) THEN r[i] ELSE s[i - Len(r)]
  BY ConcatProperties
<1>2. /\ DOMAIN (r \o s) = 1 .. Len(r) + Len(s) /\ DOMAIN r = 1 .. Len(r)
      /\ DOMAIN s = 1 .. Len(s) /\ Len(r) \in Nat /\ Len(s) \in Nat
  BY <1>1, LenProperties
<1>3. \A i \in DOMAIN (r \o s) :
        \/ i \in DOMAIN r /\ (r \o s)[i] = r[i]
        \/ i - Len(r) \in DOMAIN s /\ (r \o s)[i] = s[i - Len(r)]
  BY <1>1, <1>2
<1>4. \A j \in DOMAIN s : s[j] # t
  BY DEF Range
<1>5. \A i \in DOMAIN (r \o s) : (r \o s)[i] = t => i \in DOMAIN r /\ r[i] = t
  BY <1>3, <1>4
<1>6. QED
  BY <1>5 DEF Once

\* What interrupt_exit makes of the queue q.
Interrupted(q, preemptible, rotate) ==
  \/ current' = current /\ ready' = q /\ current # Idle
  \/ current = Idle /\ Dispatched(q, priority)
  \/ /\ preemptible /\ current # Idle
     /\ \E t \in Range(q) : priority[t] < priority[current] + (IF rotate THEN 1 ELSE 0)
     /\ Dispatched(Append(q, current), priority)

\* A tick makes the tasks that are due ready, and may end in a switch.
LEMMA Ticking ==
  ASSUME Scheduled, NEW preemptible \in BOOLEAN, NEW rotate \in BOOLEAN,
         Preemption!Tick(preemptible, rotate)
  PROVE  /\ Scheduled' /\ priority' = priority
         /\ timer' = [t \in Tasks |-> IF timer[t] > 0 THEN timer[t] - 1 ELSE 0]
         /\ \E q \in Seq(Tasks) :
              /\ Range(ready) \subseteq Range(q)
              /\ Range(q) \subseteq Range(ready) \cup {t \in Tasks : timer[t] = 1}
              /\ \A t \in Tasks : timer[t] # 1 /\ Once(t, ready) => Once(t, q)
              /\ Interrupted(q, preemptible, rotate)
<1> DEFINE due == {t \in Tasks : timer[t] = 1}
<1>1. PICK woken : woken = Preemption!SetToSeq(due)
  OBVIOUS
<1>2. woken \in Seq(Tasks) /\ Range(woken) \subseteq due
  BY <1>1, FixtureTasks, SetInSequence
<1>3. PICK q : q = ready \o woken
  OBVIOUS
<1>4. q \in Seq(Tasks) /\ Range(q) = Range(ready) \cup Range(woken)
  BY <1>2, <1>3, RangeConcatenation, ConcatProperties DEF Scheduled
<1>5. /\ Preemption!InterruptExit(q, preemptible, rotate) /\ priority' = priority
      /\ timer' = [t \in Tasks |-> IF timer[t] > 0 THEN timer[t] - 1 ELSE 0]
  BY <1>1, <1>3 DEF Preemption!Tick, Preemption!Due
<1>6. priority \in [Tasks -> Nat] /\ current \in Tasks \cup {Idle}
  BY DEF Scheduled
<1>7. /\ ready' \in Seq(Tasks) /\ current' \in Tasks \cup {Idle}
      /\ Interrupted(q, preemptible, rotate)
  <2>1. CASE current = Idle
    <3>1. Preemption!Dispatch(q, priority)
      BY <1>5, <2>1 DEF Preemption!InterruptExit
    <3>2. QED
      BY <1>4, <1>6, <2>1, <3>1, Dispatching DEF Interrupted
  <2>2. CASE /\ current # Idle /\ preemptible
             /\ \E t \in Range(q) :
                  priority[t] < priority[current] + (IF rotate THEN 1 ELSE 0)
    <3>1. Preemption!Dispatch(Append(q, current), priority)
      BY <1>5, <2>2 DEF Preemption!InterruptExit, Preemption!Range, Range
    <3>2. Append(q, current) \in Seq(Tasks)
      BY <1>4, <1>6, <2>2, AppendProperties
    <3>3. QED
      BY <1>6, <2>2, <3>1, <3>2, Dispatching DEF Interrupted
  <2>3. CASE /\ current # Idle
             /\ ~ (/\ preemptible
                   /\ \E t \in Range(q) :
                        priority[t] < priority[current] + (IF rotate THEN 1 ELSE 0))
    <3>1. ready' = q /\ current' = current
      BY <1>5, <2>3 DEF Preemption!InterruptExit, Preemption!Range, Range
    <3>2. QED
      BY <1>4, <1>6, <2>3, <3>1 DEF Interrupted
  <2>4. QED
    BY <2>1, <2>2, <2>3
<1>8. \A t \in Tasks : timer[t] # 1 /\ Once(t, ready) => Once(t, q)
  <2>1. \A t \in Tasks : timer[t] # 1 => t \notin Range(woken)
    BY <1>2
  <2>2. QED
    BY <1>2, <1>3, <2>1, OnceConcatenated DEF Scheduled
<1>9. QED
  BY <1>2, <1>4, <1>5, <1>6, <1>7, <1>8 DEF Scheduled

-----------------------------------------------------------------------------
(***************************************************************************)
(* The image rtos_preemption                                               *)
(***************************************************************************)
SliceWorkers == {"worker0", "worker1"}
SliceSteps ==
  {"start", "looping", "compared", "counting", "woken", "spawned one", "spawned both",
   "slept", "read loops", "read failures", "reported"}

SliceTypes ==
  /\ Scheduled /\ \A t \in Tasks : priority[t] = 31
  /\ sliceStep \in [SliceWorkers \cup {"main"} -> SliceSteps]
  /\ left \in [SliceWorkers -> Int] /\ spoilt \in [SliceWorkers -> BOOLEAN]
  /\ loops \in [SliceWorkers -> Nat] /\ failures \in Nat /\ preemptions \in Nat
  /\ seenLoops \in [SliceWorkers -> Nat] /\ seenFailures \in Nat
  /\ slices \in BOOLEAN /\ corrupted \in BOOLEAN

\* A worker counts its failure before its loop.
FailureFirst ==
  /\ \A w \in SliceWorkers : sliceStep[w] = "counting" /\ spoilt[w] => failures # 0
  /\ corrupted => failures # 0

\* Without the trap frame every loop ends with a foreign value: a tick passes in
\* it, and nobody gives the value back.
ValueLost ==
  "ft0" \notin saved => \A w \in SliceWorkers :
    /\ sliceStep[w] = "looping" /\ left[w] < LoopTicks => ft0 # w
    /\ sliceStep[w] \in {"compared", "counting"} => spoilt[w]
    /\ loops[w] # 0 => failures # 0

\* Without the end of slices no worker takes the CPU from the other.
NoTurns == ~slices => preemptions = 0

\* Once main looks at the counters it keeps the CPU, and they stand still.
MainLooks ==
  /\ sliceStep["main"] \in {"read loops", "read failures", "reported"} =>
       /\ current = "main"
       /\ \A w \in SliceWorkers : seenLoops[w] # 0 => loops[w] # 0
  /\ sliceStep["main"] \in {"read failures", "reported"} => seenFailures = failures
  /\ verdict = "ok" =>
       /\ sliceStep["main"] = "reported"
       /\ \A w \in SliceWorkers : seenLoops[w] # 0
       /\ preemptions # 0 /\ seenFailures = 0

SliceInv == SliceTypes /\ FailureFirst /\ ValueLost /\ NoTurns /\ MainLooks

LEMMA SliceStarts ==
  ASSUME Init, image = "preemption"
  PROVE  SliceInv
<1>1. Preemption!Init
  BY DEF Init
<1>2. Scheduled /\ \A t \in Tasks : priority[t] = 31
  BY <1>1, FixtureTasks, EmptySeq
     DEF Preemption!Init, Preemption!KernelInit, Preemption!MainPriority, Scheduled
<1>3. SliceTypes
  <2>1. /\ sliceStep = [t \in SliceWorkers \cup {"main"} |-> "start"]
        /\ left = [w \in SliceWorkers |-> 0] /\ spoilt = [w \in SliceWorkers |-> FALSE]
        /\ loops = [w \in SliceWorkers |-> 0] /\ seenLoops = [w \in SliceWorkers |-> 0]
    BY <1>1 DEF Preemption!Init, Preemption!Workers, SliceWorkers
  <2>2. /\ failures \in Nat /\ preemptions \in Nat /\ seenFailures \in Nat
        /\ slices \in BOOLEAN /\ corrupted \in BOOLEAN
    BY <1>1 DEF Preemption!Init
  <2>3. QED
    BY <1>2, <2>1, <2>2 DEF SliceTypes, SliceSteps
<1>4. FailureFirst /\ ValueLost /\ NoTurns /\ MainLooks
  BY <1>1 DEF Preemption!Init, Preemption!Workers, SliceWorkers,
     FailureFirst, ValueLost, NoTurns, MainLooks
<1>5. QED
  BY <1>3, <1>4 DEF SliceInv

LEMMA CountNotZero ==
  \A n \in Nat : Preemption!Count(n) \in Nat /\ Preemption!Count(n) # 0
BY FixtureTasks DEF Preemption!Count

LEMMA LoopTakesTime ==
  /\ LoopTicks \in Int /\ ~ (LoopTicks < LoopTicks)
  /\ \A n \in Int : n <= 0 => n < LoopTicks
<1>1. LoopTicks \in Nat \ {0}
  BY FixtureTasks
<1>2. QED
  BY <1>1

LEMMA WorkerKeeps ==
  ASSUME SliceInv, NEW w \in SliceWorkers, Preemption!Worker(w)
  PROVE  SliceInv'
<1> USE DEF SliceInv, SliceTypes, SliceSteps, Scheduled
<1> LoopTicks \in Int
  BY LoopTakesTime
<1>1. /\ current = w /\ w # "main"
      /\ sliceStep["main"] \notin {"read loops", "read failures", "reported"}
  BY DEF Preemption!Worker, Preemption!Loads, Preemption!Reads, Preemption!CountsFailure,
     Preemption!CountsLoop, Preemption!At, SliceWorkers, MainLooks
<1>2. verdict # "ok"
  BY <1>1 DEF MainLooks
<1>3. CASE Preemption!Loads(w)
  <2> USE <1>3 DEF Preemption!Loads, Preemption!At, Preemption!Goto, Preemption!kernelVars,
          Preemption!counters, Preemption!report
  <2>1. SliceTypes'
    OBVIOUS
  <2>2. FailureFirst' /\ NoTurns' /\ MainLooks'
    BY <1>1, <1>2 DEF FailureFirst, NoTurns, MainLooks
  <2>3. ValueLost'
    <3> SUFFICES ASSUME "ft0" \notin saved, NEW v \in SliceWorkers
                 PROVE  /\ sliceStep'[v] = "looping" /\ left'[v] < LoopTicks => ft0' # v
                        /\ sliceStep'[v] \in {"compared", "counting"} => spoilt'[v]
                        /\ loops'[v] # 0 => failures' # 0
      BY DEF ValueLost
    <3>1. CASE v = w
      <4>1. left'[w] = LoopTicks
        OBVIOUS
      <4>2. ~ (left'[w] < LoopTicks)
        BY <4>1, LoopTakesTime
      <4>3. loops'[w] # 0 => failures' # 0
        BY DEF ValueLost
      <4>4. QED
        BY <3>1, <4>2, <4>3
    <3>2. CASE v # w
      BY <3>2 DEF ValueLost
    <3>3. QED
      BY <3>1, <3>2
  <2>4. QED
    BY <2>1, <2>2, <2>3
<1>4. CASE Preemption!Reads(w)
  <2> USE <1>4 DEF Preemption!Reads, Preemption!At, Preemption!Goto, Preemption!kernelVars,
          Preemption!counters, Preemption!report
  <2>1. SliceTypes'
    OBVIOUS
  <2>2. FailureFirst' /\ NoTurns' /\ MainLooks'
    BY <1>1, <1>2 DEF FailureFirst, NoTurns, MainLooks
  <2>3. ValueLost'
    <3> SUFFICES ASSUME "ft0" \notin saved, NEW v \in SliceWorkers
                 PROVE  /\ sliceStep'[v] = "looping" /\ left'[v] < LoopTicks => ft0' # v
                        /\ sliceStep'[v] \in {"compared", "counting"} => spoilt'[v]
                        /\ loops'[v] # 0 => failures' # 0
      BY DEF ValueLost
    <3>1. CASE v = w
      <4>1. left[w] < LoopTicks
        <5>1. left[w] \in Int
          OBVIOUS
        <5>2. left[w] <= 0
          OBVIOUS
        <5>3. QED
          BY <5>1, <5>2, LoopTakesTime
      <4>2. ft0 # w
        BY <4>1 DEF ValueLost
      <4>3. QED
        BY <3>1, <4>2 DEF ValueLost
    <3>2. CASE v # w
      BY <3>2 DEF ValueLost
    <3>3. QED
      BY <3>1, <3>2
  <2>4. QED
    BY <2>1, <2>2, <2>3
<1>5. CASE Preemption!CountsFailure(w)
  <2> USE <1>5 DEF Preemption!CountsFailure, Preemption!At, Preemption!Goto,
          Preemption!kernelVars, Preemption!report
  <2>1. failures' \in Nat /\ (failures # 0 \/ spoilt[w] => failures' # 0)
    BY CountNotZero
  <2>2. SliceTypes'
    BY <2>1
  <2>3. FailureFirst' /\ NoTurns' /\ MainLooks'
    BY <1>1, <1>2, <2>1 DEF FailureFirst, NoTurns, MainLooks
  <2>4. ValueLost'
    BY <2>1 DEF ValueLost
  <2>5. QED
    BY <2>2, <2>3, <2>4
<1>6. CASE Preemption!CountsLoop(w)
  <2> USE <1>6 DEF Preemption!CountsLoop, Preemption!At, Preemption!Goto,
          Preemption!kernelVars, Preemption!report
  <2>1. /\ loops' \in [SliceWorkers -> Nat]
        /\ \A v \in SliceWorkers : v # w => loops'[v] = loops[v]
    BY CountNotZero
  <2>2. SliceTypes'
    BY <2>1
  <2>3. FailureFirst' /\ NoTurns' /\ MainLooks'
    BY <1>1, <1>2 DEF FailureFirst, NoTurns, MainLooks
  <2>4. ValueLost'
    BY <2>1 DEF ValueLost, FailureFirst
  <2>5. QED
    BY <2>2, <2>3, <2>4
<1>7. QED
  BY <1>3, <1>4, <1>5, <1>6 DEF Preemption!Worker

LEMMA SleepSchedules ==
  ASSUME Scheduled, NEW ticks, Preemption!Sleep(ticks)
  PROVE  Scheduled' /\ priority' = priority
BY Dispatching DEF Preemption!Sleep, Scheduled

LEMMA SpawnSchedules ==
  ASSUME Scheduled, \A t \in Tasks : priority[t] = 31, NEW w \in SliceWorkers,
         Preemption!Spawn(w, Preemption!MainPriority)
  PROVE  Scheduled' /\ priority' = priority /\ current' = current
<1>1. w \in Tasks
  BY FixtureTasks DEF SliceWorkers
<1>2. ready' \in Seq(Tasks)
  BY <1>1, AppendProperties DEF Preemption!Spawn, Scheduled
<1>3. priority' = priority
  BY <1>1 DEF Preemption!Spawn, Preemption!MainPriority, Scheduled
<1>4. QED
  BY <1>2, <1>3 DEF Preemption!Spawn, Scheduled

\* What main does before it looks leaves the rest of the image alone.
LEMMA MainPrepares ==
  ASSUME SliceInv, NEW from, NEW to \in {"woken", "spawned one", "spawned both", "slept"},
         Preemption!At("main", from),
         from \in {"start", "woken", "spawned one", "spawned both"},
         Scheduled', priority' = priority,
         Preemption!Goto("main", to),
         UNCHANGED <<saved, slices, ft0, frame, left, spoilt, Preemption!counters,
                     Preemption!report, corrupted>>
  PROVE  SliceInv'
<1> USE DEF SliceInv, Preemption!At, Preemption!Goto, Preemption!counters, Preemption!report
<1>1. /\ sliceStep' \in [SliceWorkers \cup {"main"} -> SliceSteps]
      /\ sliceStep["main"] = from /\ sliceStep'["main"] = to
      /\ \A w \in SliceWorkers : sliceStep'[w] = sliceStep[w]
  BY DEF SliceTypes, SliceSteps, SliceWorkers
<1>2. SliceTypes'
  BY <1>1 DEF SliceTypes
<1>3. FailureFirst' /\ NoTurns'
  BY <1>1 DEF FailureFirst, NoTurns
<1>4. ValueLost'
  BY <1>1 DEF ValueLost
<1>5. MainLooks'
  BY <1>1 DEF MainLooks
<1>6. QED
  BY <1>2, <1>3, <1>4, <1>5

LEMMA MainKeeps ==
  ASSUME SliceInv, Preemption!Main
  PROVE  SliceInv'
<1> USE DEF SliceInv
<1>1. Scheduled /\ \A t \in Tasks : priority[t] = 31
  BY DEF SliceTypes
<1>2. ASSUME NEW from, NEW ticks, NEW to, Preemption!MainSleeps(from, ticks, to),
             from \in {"start", "spawned both"}, to \in {"woken", "slept"}
      PROVE  SliceInv'
  <2>1. Scheduled' /\ priority' = priority
    BY <1>1, <1>2, SleepSchedules DEF Preemption!MainSleeps
  <2>2. QED
    BY <1>2, <2>1, MainPrepares DEF Preemption!MainSleeps
<1>3. ASSUME NEW from, NEW w \in SliceWorkers, NEW to, Preemption!MainSpawns(from, w, to),
             from \in {"woken", "spawned one"}, to \in {"spawned one", "spawned both"}
      PROVE  SliceInv'
  <2>1. Scheduled' /\ priority' = priority
    BY <1>1, <1>3, SpawnSchedules DEF Preemption!MainSpawns
  <2>2. QED
    BY <1>3, <2>1, MainPrepares DEF Preemption!MainSpawns
<1>4. CASE Preemption!MainReadsLoops
  <2> USE <1>4 DEF Preemption!MainReadsLoops, Preemption!At, Preemption!Goto,
          Preemption!kernelVars, Preemption!counters
  <2>1. /\ sliceStep' \in [SliceWorkers \cup {"main"} -> SliceSteps]
        /\ sliceStep["main"] = "slept" /\ sliceStep'["main"] = "read loops"
        /\ \A w \in SliceWorkers : sliceStep'[w] = sliceStep[w]
    BY DEF SliceTypes, SliceSteps, SliceWorkers
  <2>2. SliceTypes'
    BY <2>1 DEF SliceTypes, Scheduled
  <2>3. FailureFirst' /\ NoTurns'
    BY <2>1 DEF FailureFirst, NoTurns
  <2>4. ValueLost'
    BY <2>1 DEF ValueLost
  <2>5. MainLooks'
    BY <2>1 DEF MainLooks
  <2>6. QED
    BY <2>2, <2>3, <2>4, <2>5
<1>5. CASE Preemption!MainReadsFailures
  <2> USE <1>5 DEF Preemption!MainReadsFailures, Preemption!At, Preemption!Goto,
          Preemption!kernelVars, Preemption!counters
  <2>1. /\ sliceStep' \in [SliceWorkers \cup {"main"} -> SliceSteps]
        /\ sliceStep["main"] = "read loops" /\ sliceStep'["main"] = "read failures"
        /\ \A w \in SliceWorkers : sliceStep'[w] = sliceStep[w]
    BY DEF SliceTypes, SliceSteps, SliceWorkers
  <2>2. SliceTypes'
    BY <2>1 DEF SliceTypes, Scheduled
  <2>3. FailureFirst' /\ NoTurns'
    BY <2>1 DEF FailureFirst, NoTurns
  <2>4. ValueLost'
    BY <2>1 DEF ValueLost
  <2>5. MainLooks'
    BY <2>1 DEF MainLooks
  <2>6. QED
    BY <2>2, <2>3, <2>4, <2>5
<1>6. CASE Preemption!MainReports
  <2> USE <1>6 DEF Preemption!MainReports, Preemption!At, Preemption!Goto,
          Preemption!kernelVars, Preemption!counters
  <2>1. /\ sliceStep' \in [SliceWorkers \cup {"main"} -> SliceSteps]
        /\ sliceStep["main"] = "read failures" /\ sliceStep'["main"] = "reported"
        /\ \A w \in SliceWorkers : sliceStep'[w] = sliceStep[w]
    BY DEF SliceTypes, SliceSteps, SliceWorkers
  <2>2. SliceTypes'
    BY <2>1 DEF SliceTypes, Scheduled
  <2>3. FailureFirst' /\ NoTurns'
    BY <2>1 DEF FailureFirst, NoTurns
  <2>4. ValueLost'
    BY <2>1 DEF ValueLost
  <2>5. verdict' = "ok" => /\ \A w \in SliceWorkers : seenLoops[w] # 0
                           /\ preemptions # 0 /\ seenFailures = 0
    BY DEF Preemption!Workers, SliceWorkers
  <2>6. MainLooks'
    BY <2>1, <2>5 DEF MainLooks
  <2>7. QED
    BY <2>2, <2>3, <2>4, <2>6
<1>7. \/ Preemption!MainSleeps("start", FirstSleep, "woken")
      \/ Preemption!MainSpawns("woken", "worker0", "spawned one")
      \/ Preemption!MainSpawns("spawned one", "worker1", "spawned both")
      \/ Preemption!MainSleeps("spawned both", MainSleep, "slept")
      \/ Preemption!MainReadsLoops \/ Preemption!MainReadsFailures \/ Preemption!MainReports
  BY DEF Preemption!Main
<1>8. "worker0" \in SliceWorkers /\ "worker1" \in SliceWorkers
  BY DEF SliceWorkers
<1>9. QED
  BY <1>2, <1>3, <1>4, <1>5, <1>6, <1>7, <1>8

LEMMA TimeKeeps ==
  ASSUME SliceInv, Preemption!TimePasses
  PROVE  SliceInv'
<1> USE DEF SliceInv
<1>1. /\ "main" \in Tasks /\ Idle \notin Tasks
      /\ "worker0" \in Tasks /\ "worker1" \in Tasks
  BY FixtureTasks
<1>2. /\ verdict = "none" /\ verdict' = verdict
      /\ current = Idle \/ current \in SliceWorkers
      /\ Preemption!Tick(current # "main", slices)
      /\ UNCHANGED <<saved, slices, sliceStep, spoilt, loops, failures, seenLoops,
                     seenFailures, corrupted>>
  BY DEF Preemption!TimePasses, Preemption!TIMER_INT0, Preemption!Workers,
     Preemption!report, SliceWorkers
<1>3. current # "main" /\ sliceStep["main"] \notin {"read loops", "read failures", "reported"}
  BY <1>1, <1>2 DEF SliceWorkers, MainLooks
<1>4. /\ Scheduled' /\ priority' = priority
      /\ \E q \in Seq(Tasks) : Interrupted(q, current # "main", slices)
  <2>1. Scheduled /\ (current # "main") \in BOOLEAN /\ slices \in BOOLEAN
    BY DEF SliceTypes
  <2>2. QED
    BY <1>2, <2>1, Ticking
<1>5. left' \in [SliceWorkers -> Int]
  BY DEF Preemption!TimePasses, Preemption!Workers, SliceWorkers, SliceTypes
<1>6. preemptions' \in Nat
  BY CountNotZero DEF Preemption!TimePasses, SliceTypes
<1>7. SliceTypes'
  BY <1>2, <1>4, <1>5, <1>6 DEF SliceTypes
<1>8. FailureFirst'
  BY <1>2 DEF FailureFirst
<1>9. ValueLost'
  <2>1. "ft0" \notin saved => \A w \in SliceWorkers : ft0' # w
    BY DEF Preemption!TimePasses, Preemption!TIMER_INT0, SliceWorkers
  <2>2. QED
    BY <1>2, <2>1 DEF ValueLost
<1>10. NoTurns'
  <2> SUFFICES ASSUME ~ slices PROVE preemptions' = preemptions
    BY <1>2 DEF NoTurns
  <2>1. PICK q \in Seq(Tasks) : Interrupted(q, current # "main", slices)
    BY <1>4
  <2>2. current' = current \/ current = Idle
    <3>1. \A t \in Range(q) : t \in Tasks
      BY LenProperties DEF Range
    <3>2. ASSUME current # Idle, NEW t \in Range(q)
          PROVE  ~ (priority[t] < priority[current] + (IF slices THEN 1 ELSE 0))
      <4>1. t \in Tasks /\ current \in Tasks
        BY <3>1, <3>2 DEF SliceTypes, Scheduled
      <4>2. priority[t] = 31 /\ priority[current] = 31
        BY <4>1 DEF SliceTypes
      <4>3. QED
        BY <4>2
    <3>3. QED
      BY <2>1, <3>2 DEF Interrupted
  <2>3. {current, current'} # Preemption!Workers
    <3>1. CASE current' = current
      <4>1. "worker0" # "worker1"
        OBVIOUS
      <4>2. \A a, b, x : a # b => {x, x} # {a, b}
        OBVIOUS
      <4>3. QED
        BY <3>1, <4>1, <4>2 DEF Preemption!Workers
    <3>2. CASE current = Idle
      <4>1. current \notin Preemption!Workers /\ current \in {current, current'}
        BY <1>1, <3>2 DEF Preemption!Workers
      <4>2. QED
        BY <4>1
    <3>3. QED
      BY <2>2, <3>1, <3>2
  <2>4. QED
    BY <2>3 DEF Preemption!TimePasses
<1>11. MainLooks'
  BY <1>2, <1>3 DEF MainLooks
<1>12. QED
  BY <1>7, <1>8, <1>9, <1>10, <1>11

LEMMA PreemptionStep ==
  ASSUME image = "preemption", [Next]_vars
  PROVE  /\ image' = image
         /\ Preemption!Next \/ UNCHANGED <<shared, preemptionOwn>>
BY DEF Next, vars, InheritanceRuns, PreemptionRuns, BudgetRuns, StressRuns

LEMMA SliceStep ==
  ASSUME SliceInv, image = "preemption", [Next]_vars
  PROVE  SliceInv'
<1>1. CASE Preemption!Next
  <2>1. Preemption!Workers = SliceWorkers
    BY DEF Preemption!Workers, SliceWorkers
  <2>2. QED
    BY <1>1, <2>1, MainKeeps, TimeKeeps, WorkerKeeps DEF Preemption!Next
<1>2. CASE UNCHANGED <<shared, preemptionOwn>>
  <2> USE <1>2 DEF shared, preemptionOwn, SliceInv
  <2>1. SliceTypes'
    BY DEF SliceTypes, Scheduled
  <2>2. FailureFirst' /\ NoTurns' /\ MainLooks'
    BY DEF FailureFirst, NoTurns, MainLooks
  <2>3. ValueLost'
    BY DEF ValueLost
  <2>4. QED
    BY <2>1, <2>2, <2>3
<1>3. QED
  BY <1>1, <1>2, PreemptionStep

LEMMA SliceEarned ==
  ASSUME SliceInv
  PROVE  Preemption!OkEarned
<1> SUFFICES ASSUME verdict = "ok" PROVE Preemption!Conforming /\ ~ corrupted
  BY DEF Preemption!OkEarned
<1>1. /\ preemptions # 0 /\ failures = 0
      /\ \A w \in SliceWorkers : loops[w] # 0
  BY DEF SliceInv, MainLooks
<1>2. slices
  BY <1>1 DEF SliceInv, NoTurns
<1>3. "ft0" \in saved
  BY <1>1 DEF SliceInv, ValueLost, SliceWorkers
<1>4. ~ corrupted
  BY <1>1 DEF SliceInv, FailureFirst
<1>5. QED
  BY <1>2, <1>3, <1>4 DEF Preemption!Conforming

\* The image rtos_preemption prints OK only on a kernel that ends slices and
\* keeps ft0, and never after it counted a loop that ended with a foreign value
\* (rtos_preemption/src/main.rs:62-101, 226-256): the safety half of PreemptionVerdict,
\* for a loop of any length, sleeps of any length and any range of the counters.
THEOREM PreemptionNeverWrong ==
  Spec => (image = "preemption" => []Preemption!OkEarned)
<1> DEFINE I == image = "preemption" => SliceInv
<1> DEFINE Q == image = "preemption" => Preemption!OkEarned
<1>1. Init => I
  BY SliceStarts
<1>2. I /\ [Next]_vars => I'
  <2> SUFFICES ASSUME I, [Next]_vars, (image = "preemption")' PROVE SliceInv'
    OBVIOUS
  <2>1. image = "preemption"
    BY DEF Next, vars, InheritanceRuns, PreemptionRuns, BudgetRuns, StressRuns
  <2>2. QED
    BY <2>1, SliceStep
<1>3. I => Q
  BY SliceEarned
<1>4. Spec => []Q
  BY <1>1, <1>2, <1>3, PTL DEF Spec
<1>5. image = "preemption" /\ [Next]_vars => (image = "preemption")'
  BY PreemptionStep
<1>6. Spec => (image = "preemption" => [](image = "preemption"))
  BY <1>5, PTL DEF Spec
<1>7. QED
  BY <1>4, <1>6, PTL

-----------------------------------------------------------------------------
(***************************************************************************)
(* The image rtos_priority_inheritance                                     *)
(***************************************************************************)
LEMMA RangeAppended ==
  ASSUME NEW S, NEW r \in Seq(S), NEW e \in S
  PROVE  Append(r, e) \in Seq(S) /\ Range(Append(r, e)) = Range(r) \cup {e}
<1>1. /\ Append(r, e) \in Seq(S) /\ Len(Append(r, e)) = Len(r) + 1
      /\ \A i \in 1 .. Len(r) : Append(r, e)[i] = r[i]
      /\ Append(r, e)[Len(r) + 1] = e
  BY AppendProperties
<1>2. /\ DOMAIN Append(r, e) = 1 .. Len(r) + 1 /\ DOMAIN r = 1 .. Len(r) /\ Len(r) \in Nat
      /\ \A i \in DOMAIN Append(r, e) : i \in DOMAIN r \/ i = Len(r) + 1
  BY <1>1, LenProperties
<1>3. \A i \in DOMAIN r : i \in DOMAIN Append(r, e) /\ Append(r, e)[i] = r[i]
  BY <1>1, <1>2
<1>4. Len(r) + 1 \in DOMAIN Append(r, e) /\ Append(r, e)[Len(r) + 1] = e
  BY <1>1, <1>2
<1>5. \A i \in DOMAIN Append(r, e) : Append(r, e)[i] \in Range(r) \cup {e}
  BY <1>1, <1>2, <1>3 DEF Range
<1>6. Range(r) \cup {e} \subseteq Range(Append(r, e))
  BY <1>3, <1>4 DEF Range
<1>7. QED
  BY <1>1, <1>5, <1>6 DEF Range

\* The CPU goes to the one task that is better than all others of a queue.
LEMMA BestDispatched ==
  ASSUME NEW q \in Seq(Tasks), NEW prio \in [Tasks -> Nat], Inheritance!Dispatch(q, prio),
         NEW b \in Range(q), \A t \in Range(q) : t = b \/ prio[b] < prio[t]
  PROVE  /\ ready' \in Seq(Tasks) /\ current' = b
         /\ Range(ready') \subseteq Range(q) /\ Range(q) \ {b} \subseteq Range(ready')
         /\ Once(b, q) => b \notin Range(ready')
<1>1. ready' \in Seq(Tasks) /\ Dispatched(q, prio)
  BY SameCalls, Dispatching
<1>2. q # <<>>
  BY EmptySeq DEF Range
<1>3. PICK i \in DOMAIN q :
        /\ current' = q[i]
        /\ \A j \in DOMAIN q : prio[q[i]] <= prio[q[j]]
        /\ \A k \in DOMAIN ready' : \E j \in DOMAIN q : j # i /\ ready'[k] = q[j]
        /\ \A j \in DOMAIN q : j # i => \E k \in DOMAIN ready' : ready'[k] = q[j]
  BY <1>1, <1>2 DEF Dispatched
<1>4. PICK j \in DOMAIN q : q[j] = b
  BY DEF Range
<1>5. q[i] = b
  <2>1. q[i] \in Range(q) /\ prio[q[i]] <= prio[b]
    BY <1>3, <1>4 DEF Range
  <2>2. \A t \in Range(q) : t \in Tasks /\ prio[t] \in Nat
    BY LenProperties DEF Range
  <2>3. QED
    BY <2>1, <2>2
<1>6. Range(ready') \subseteq Range(q) /\ Range(q) \ {b} \subseteq Range(ready')
  <2>1. ASSUME NEW k \in DOMAIN ready' PROVE ready'[k] \in Range(q)
    BY <1>3, <2>1 DEF Range
  <2>2. ASSUME NEW m \in DOMAIN q, q[m] # b PROVE q[m] \in Range(ready')
    <3>1. m # i
      BY <1>5, <2>2
    <3>2. QED
      BY <1>3, <2>2, <3>1 DEF Range
  <2>3. QED
    BY <2>1, <2>2 DEF Range
<1>7. Once(b, q) => b \notin Range(ready')
  <2> SUFFICES ASSUME Once(b, q), NEW k \in DOMAIN ready', ready'[k] = b PROVE FALSE
    BY DEF Range
  <2>1. PICK m \in DOMAIN q : m # i /\ ready'[k] = q[m]
    BY <1>3
  <2>2. QED
    BY <1>5, <2>1 DEF Once
<1>8. QED
  BY <1>1, <1>3, <1>5, <1>6, <1>7

LEMMA SpawnQueues ==
  ASSUME Scheduled, NEW t \in Tasks, NEW prio \in Nat, Inheritance!Spawn(t, prio)
  PROVE  /\ Scheduled' /\ current' = current /\ timer' = timer
         /\ Range(ready') = Range(ready) \cup {t}
         /\ t \notin Range(ready) => Once(t, ready')
         /\ priority'[t] = prio /\ \A u \in Tasks \ {t} : priority'[u] = priority[u]
<1>1. /\ ready' = Append(ready, t) /\ current' = current /\ timer' = timer
      /\ priority' = [priority EXCEPT ![t] = prio]
  BY DEF Inheritance!Spawn
<1>2. ready' \in Seq(Tasks) /\ Range(ready') = Range(ready) \cup {t}
  BY <1>1, RangeAppended DEF Scheduled
<1>3. t \notin Range(ready) => Once(t, ready')
  BY <1>1, OnceAppended DEF Scheduled
<1>4. /\ priority' \in [Tasks -> Nat] /\ priority'[t] = prio
      /\ \A u \in Tasks \ {t} : priority'[u] = priority[u]
  BY <1>1 DEF Scheduled
<1>5. QED
  BY <1>1, <1>2, <1>3, <1>4 DEF Scheduled

\* A tick of a task that nobody due is better than.
LEMMA TickQueues ==
  ASSUME Scheduled, timer \in [Tasks -> Nat], current # Idle, NEW preemptible \in BOOLEAN,
         Inheritance!Tick(preemptible, FALSE),
         preemptible => \A t \in Range(ready) \cup {u \in Tasks : timer[u] = 1} :
                          ~ (priority[t] < priority[current])
  PROVE  /\ Scheduled' /\ current' = current /\ priority' = priority
         /\ timer' \in [Tasks -> Nat] /\ \A t \in Tasks : timer[t] = 0 => timer'[t] = 0
         /\ Range(ready) \subseteq Range(ready')
         /\ Range(ready') \subseteq Range(ready) \cup {t \in Tasks : timer[t] = 1}
         /\ \A t \in Tasks : timer[t] # 1 /\ Once(t, ready) => Once(t, ready')
<1>1. Preemption!Tick(preemptible, FALSE)
  BY SameCalls
<1>2. /\ Scheduled' /\ priority' = priority
      /\ timer' = [t \in Tasks |-> IF timer[t] > 0 THEN timer[t] - 1 ELSE 0]
      /\ \E q \in Seq(Tasks) :
           /\ Range(ready) \subseteq Range(q)
           /\ Range(q) \subseteq Range(ready) \cup {t \in Tasks : timer[t] = 1}
           /\ \A t \in Tasks : timer[t] # 1 /\ Once(t, ready) => Once(t, q)
           /\ Interrupted(q, preemptible, FALSE)
  BY <1>1, Ticking
<1>3. PICK q \in Seq(Tasks) :
        /\ Range(ready) \subseteq Range(q)
        /\ Range(q) \subseteq Range(ready) \cup {t \in Tasks : timer[t] = 1}
        /\ \A t \in Tasks : timer[t] # 1 /\ Once(t, ready) => Once(t, q)
        /\ Interrupted(q, preemptible, FALSE)
  BY <1>2
<1>4. preemptible => \A t \in Range(q) : ~ (priority[t] < priority[current] + 0)
  <2> SUFFICES ASSUME preemptible, NEW t \in Range(q)
               PROVE  ~ (priority[t] < priority[current] + 0)
    OBVIOUS
  <2>1. t \in Tasks /\ current \in Tasks
    BY LenProperties DEF Range, Scheduled
  <2>2. priority[t] \in Nat /\ priority[current] \in Nat
    BY <2>1 DEF Scheduled
  <2>3. ~ (priority[t] < priority[current])
    BY <1>3
  <2>4. QED
    BY <2>2, <2>3
<1>5. current' = current /\ ready' = q
  BY <1>3, <1>4 DEF Interrupted
<1>6. timer' \in [Tasks -> Nat] /\ \A t \in Tasks : timer[t] = 0 => timer'[t] = 0
  BY <1>2
<1>7. QED
  BY <1>2, <1>3, <1>5, <1>6

MutexTasks == {"main", "low", "medium", "high"}
MutexSteps ==
  {"start", "spawned low", "yielded", "asserted", "panicked", "spawned medium",
   "spawned both", "slept", "reported", "locked", "unlocked", "returned", "acquired"}

MutexTypes ==
  /\ Scheduled /\ timer \in [Tasks -> Nat]
  /\ mutexStep \in [MutexTasks -> MutexSteps]

\* A kernel that counts an inheritance but raises nobody, from the reset to the
\* sleep of main: the low task takes the mutex and sleeps, main spawns the
\* others, the high one waits, and the medium one keeps the CPU.
LowStarts ==
  /\ timer["low"] = 0 /\ timer["main"] = 0
  /\ \/ mutexStep["low"] = "start" /\ owner = Idle
     \/ mutexStep["low"] = "locked" /\ owner = "low" /\ current = "low"

Held == current = "main" /\ owner = "low" /\ mutexStep["low"] = "slept"

BeforeSpawn ==
  mutexStep["main"] = "start" /\ current = "main" /\ Range(ready) = {} /\ LowStarts

LowSpawned ==
  /\ mutexStep["main"] = "spawned low" /\ current = "main" /\ LowStarts
  /\ Range(ready) = {"low"} /\ Once("low", ready)

LowRuns ==
  mutexStep["main"] = "yielded" /\ current = "low" /\ Range(ready) = {"main"} /\ LowStarts

LowSleeping ==
  /\ mutexStep["main"] \in {"yielded", "asserted", "panicked"} /\ Held
  /\ Range(ready) \subseteq {"low", "main"}

MediumSpawned ==
  /\ mutexStep["main"] = "spawned medium" /\ Held
  /\ "medium" \in Range(ready) /\ Range(ready) \subseteq {"low", "main", "medium"}

BothSpawned ==
  /\ mutexStep["main"] = "spawned both" /\ Held
  /\ {"medium", "high"} \subseteq Range(ready) /\ Once("high", ready)
  /\ Range(ready) \subseteq {"low", "main", "medium", "high"}

LowStarves ==
  /\ mutexStep["main"] = "slept" /\ owner = "low"
  /\ Range(ready) \subseteq {"low", "main", "medium"}
  /\ \/ current = "high" /\ mutexStep["high"] = "start" /\ "medium" \in Range(ready)
     \/ current = "medium"

Course ==
  \/ BeforeSpawn \/ LowSpawned \/ LowRuns \/ LowSleeping \/ MediumSpawned \/ BothSpawned
  \/ LowStarves

Starved ==
  /\ MutexTypes /\ Course
  /\ \A t \in Tasks \ {"low", "main"} : timer[t] = 0
  /\ priority["main"] = 31
  /\ mutexStep["main"] # "start" => priority["low"] = 20
  /\ mutexStep["main"] \in {"spawned medium", "spawned both", "slept"} =>
       priority["medium"] = 10
  /\ mutexStep["main"] \in {"spawned both", "slept"} => priority["high"] = 2
  /\ mutexStep["main"] # "slept" => mutexStep["high"] = "start"
  /\ ~ highAcquired /\ verdict # "ok"

LEMMA StarvedStarts ==
  ASSUME Init
  PROVE  Starved
<1>1. Inheritance!Init
  BY DEF Init
<1>2. /\ "main" \in Tasks /\ {"low", "medium", "high"} \subseteq Tasks
  BY FixtureTasks
<1>3. /\ Scheduled /\ timer \in [Tasks -> Nat] /\ \A t \in Tasks : timer[t] = 0
      /\ priority["main"] = 31 /\ current = "main" /\ Range(ready) = {}
  BY <1>1, <1>2, EmptySeq
     DEF Inheritance!Init, Inheritance!KernelInit, Inheritance!MainPriority, Scheduled, Range
<1>4. /\ mutexStep \in [MutexTasks -> MutexSteps]
      /\ \A t \in MutexTasks : mutexStep[t] = "start"
  BY <1>1 DEF Inheritance!Init, MutexTasks, MutexSteps
<1>5. owner = Idle /\ ~ highAcquired /\ verdict # "ok"
  BY <1>1 DEF Inheritance!Init
<1>6. mutexStep["main"] = "start" /\ mutexStep["low"] = "start" /\ mutexStep["high"] = "start"
  BY <1>4 DEF MutexTasks
<1>7. BeforeSpawn
  BY <1>2, <1>3, <1>5, <1>6 DEF BeforeSpawn, LowStarts
<1>8. QED
  BY <1>3, <1>4, <1>5, <1>6, <1>7 DEF Starved, MutexTypes, Course

LEMMA Goes ==
  ASSUME mutexStep \in [MutexTasks -> MutexSteps], NEW t \in MutexTasks, NEW s \in MutexSteps,
         Inheritance!Goto(t, s)
  PROVE  /\ mutexStep' \in [MutexTasks -> MutexSteps] /\ mutexStep'[t] = s
         /\ \A u \in MutexTasks \ {t} : mutexStep'[u] = mutexStep[u]
BY DEF Inheritance!Goto

\* Time passes without a switch, and changes nothing that counts.
LEMMA TickStarves ==
  ASSUME Starved, NEW p \in BOOLEAN, p = (current # "main"), Inheritance!Tick(p, FALSE),
         UNCHANGED <<mutexStep, owner, highAcquired, verdict>>
  PROVE  Starved'
<1>0. /\ MutexTypes /\ Scheduled /\ timer \in [Tasks -> Nat] /\ Course
      /\ \A t \in Tasks \ {"low", "main"} : timer[t] = 0
  BY DEF Starved, MutexTypes
<1>1. /\ "main" \in Tasks /\ {"low", "medium", "high"} \subseteq Tasks /\ Idle \notin Tasks
  BY FixtureTasks
<1>2. current \in {"main", "low", "medium", "high"} /\ current # Idle
  BY <1>0, <1>1 DEF Course, BeforeSpawn, LowSpawned, LowRuns, LowSleeping, MediumSpawned,
     BothSpawned, LowStarves, Held
<1>3. {t \in Tasks : timer[t] = 1} \subseteq {"low", "main"} /\ timer["high"] # 1
  BY <1>0, <1>1
<1>4. ASSUME p, NEW t \in Range(ready) \cup {u \in Tasks : timer[u] = 1}
      PROVE  ~ (priority[t] < priority[current])
  <2>1. CASE LowRuns
    <3>1. timer["low"] = 0 /\ timer["main"] = 0
      BY <2>1 DEF LowRuns, LowStarts
    <3>2. t = "main" /\ current = "low"
      BY <1>3, <1>4, <2>1, <3>1 DEF LowRuns
    <3>3. priority[t] = 31 /\ priority[current] = 20
      BY <2>1, <3>2 DEF LowRuns, Starved
    <3>4. QED
      BY <3>3
  <2>2. CASE LowStarves
    <3>1. /\ t \in {"low", "main", "medium"}
          /\ current \in {"high", "medium"}
      BY <1>3, <1>4, <2>2 DEF LowStarves
    <3>2. /\ priority["main"] = 31 /\ priority["low"] = 20
          /\ priority["medium"] = 10 /\ priority["high"] = 2
      BY <2>2 DEF LowStarves, Starved
    <3>3. priority[t] \in {10, 20, 31} /\ priority[current] \in {2, 10}
      BY <3>1, <3>2
    <3>4. QED
      BY <3>3
  <2>3. LowRuns \/ LowStarves
    BY <1>0, <1>4 DEF Course, BeforeSpawn, LowSpawned, LowSleeping, MediumSpawned, BothSpawned, Held
  <2>4. QED
    BY <2>1, <2>2, <2>3
<1>5. /\ Scheduled' /\ current' = current /\ priority' = priority
      /\ timer' \in [Tasks -> Nat] /\ \A t \in Tasks : timer[t] = 0 => timer'[t] = 0
      /\ Range(ready) \subseteq Range(ready')
      /\ Range(ready') \subseteq Range(ready) \cup {t \in Tasks : timer[t] = 1}
      /\ \A t \in Tasks : timer[t] # 1 /\ Once(t, ready) => Once(t, ready')
  BY <1>0, <1>2, <1>4, TickQueues
<1>6. LowStarts => /\ LowStarts' /\ Range(ready') = Range(ready)
                   /\ Once("low", ready) => Once("low", ready')
  <2> SUFFICES ASSUME LowStarts
               PROVE  /\ LowStarts' /\ Range(ready') = Range(ready)
                      /\ Once("low", ready) => Once("low", ready')
    OBVIOUS
  <2>1. timer["low"] = 0 /\ timer["main"] = 0 /\ timer'["low"] = 0 /\ timer'["main"] = 0
    BY <1>1, <1>5 DEF LowStarts
  <2>2. {t \in Tasks : timer[t] = 1} = {}
    BY <1>3, <2>1
  <2>3. LowStarts'
    BY <1>5, <2>1 DEF LowStarts
  <2>4. QED
    BY <1>1, <1>5, <2>1, <2>2, <2>3
<1>7. Once("high", ready) => Once("high", ready')
  BY <1>1, <1>3, <1>5
<1>8. Course'
  <2>1. CASE BeforeSpawn
    BY <1>5, <1>6, <2>1 DEF BeforeSpawn, Course
  <2>2. CASE LowSpawned
    BY <1>5, <1>6, <2>2 DEF LowSpawned, Course
  <2>3. CASE LowRuns
    BY <1>5, <1>6, <2>3 DEF LowRuns, Course
  <2>4. CASE LowSleeping
    BY <1>3, <1>5, <2>4 DEF LowSleeping, Held, Course
  <2>5. CASE MediumSpawned
    BY <1>3, <1>5, <2>5 DEF MediumSpawned, Held, Course
  <2>6. CASE BothSpawned
    BY <1>3, <1>5, <1>7, <2>6 DEF BothSpawned, Held, Course
  <2>7. CASE LowStarves
    BY <1>3, <1>5, <2>7 DEF LowStarves, Course
  <2>8. QED
    BY <1>0, <2>1, <2>2, <2>3, <2>4, <2>5, <2>6, <2>7 DEF Course
<1>9. \A t \in Tasks \ {"low", "main"} : timer'[t] = 0
  BY <1>0, <1>5
<1>10. QED
  BY <1>0, <1>1, <1>5, <1>8, <1>9 DEF Starved, MutexTypes

\* The phase in which a task has the CPU.
LEMMA WhoRuns ==
  ASSUME Starved
  PROVE  /\ current = "main" => \/ BeforeSpawn \/ LowSpawned \/ LowSleeping
                                \/ MediumSpawned \/ BothSpawned
         /\ current = "low" => LowRuns
         /\ current = "medium" => LowStarves
         /\ current = "high" => LowStarves /\ mutexStep["high"] = "start"
BY DEF Starved, Course, BeforeSpawn, LowSpawned, LowRuns, LowSleeping, MediumSpawned,
   BothSpawned, LowStarves, Held

LEMMA FixedPriorities ==
  /\ Inheritance!InheritancePriority["low"] = 20
  /\ Inheritance!InheritancePriority["medium"] = 10
  /\ Inheritance!InheritancePriority["high"] = 2
BY DEF Inheritance!InheritancePriority

LEMMA MainStarves ==
  ASSUME Starved, Inheritance!Main
  PROVE  Starved'
<1>0. /\ MutexTypes /\ Scheduled /\ mutexStep \in [MutexTasks -> MutexSteps]
      /\ timer \in [Tasks -> Nat] /\ priority \in [Tasks -> Nat]
      /\ ~ highAcquired /\ verdict # "ok"
  BY DEF Starved, MutexTypes, Scheduled
<1>1. /\ "main" \in Tasks /\ "low" \in Tasks /\ "medium" \in Tasks /\ "high" \in Tasks
      /\ "main" \in MutexTasks /\ "low" \in MutexTasks /\ "high" \in MutexTasks
      /\ {"spawned low", "yielded", "asserted", "panicked", "spawned medium",
          "spawned both", "slept"} \subseteq MutexSteps
  BY FixtureTasks DEF MutexTasks, MutexSteps
<1>2. CASE Inheritance!MainSpawns("start", "low", "spawned low")
  <2>1. /\ current = "main" /\ mutexStep["main"] = "start"
        /\ Inheritance!Spawn("low", 20) /\ Inheritance!Goto("main", "spawned low")
        /\ UNCHANGED <<owner, highAcquired, verdict>>
    BY <1>2, FixedPriorities DEF Inheritance!MainSpawns, Inheritance!At, Inheritance!lockVars,
       Inheritance!flags
  <2>2. BeforeSpawn
    BY <2>1, WhoRuns DEF LowSpawned, LowSleeping, MediumSpawned, BothSpawned
  <2>3. /\ Scheduled' /\ current' = current /\ timer' = timer
        /\ Range(ready') = Range(ready) \cup {"low"}
        /\ "low" \notin Range(ready) => Once("low", ready')
        /\ priority'["low"] = 20 /\ \A u \in Tasks \ {"low"} : priority'[u] = priority[u]
    BY <1>0, <1>1, <2>1, SpawnQueues
  <2>4. /\ mutexStep' \in [MutexTasks -> MutexSteps] /\ mutexStep'["main"] = "spawned low"
        /\ mutexStep'["low"] = mutexStep["low"] /\ mutexStep'["high"] = mutexStep["high"]
    BY <1>0, <1>1, <2>1, Goes
  <2>5. LowSpawned'
    BY <2>1, <2>2, <2>3, <2>4 DEF BeforeSpawn, LowSpawned, LowStarts
  <2>6. QED
    BY <1>0, <1>1, <2>1, <2>3, <2>4, <2>5 DEF Starved, MutexTypes, Course
<1>3. CASE Inheritance!MainYields
  <2>1. /\ current = "main" /\ mutexStep["main"] = "spawned low"
        /\ Inheritance!Dispatch(Append(ready, current), priority)
        /\ Inheritance!Goto("main", "yielded")
        /\ UNCHANGED <<priority, timer, owner, highAcquired, verdict>>
    BY <1>3 DEF Inheritance!MainYields, Inheritance!YieldNow, Inheritance!At,
       Inheritance!lockVars, Inheritance!flags
  <2>2. LowSpawned
    BY <2>1, WhoRuns DEF BeforeSpawn, LowSleeping, MediumSpawned, BothSpawned
  <2>3. PICK q : q = Append(ready, "main")
    OBVIOUS
  <2>4. /\ q \in Seq(Tasks) /\ Range(q) = {"low", "main"} /\ Once("low", q)
    <3>1. ready \in Seq(Tasks) /\ Range(ready) = {"low"} /\ Once("low", ready)
      BY <1>0, <2>2 DEF Scheduled, LowSpawned
    <3>2. "low" # "main"
      OBVIOUS
    <3>3. ready \in Seq(Tasks) /\ "main" \in Tasks
      BY <1>1, <3>1
    <3>4. Append(ready, "main") \in Seq(Tasks)
          /\ Range(Append(ready, "main")) = Range(ready) \cup {"main"}
      BY <3>3, RangeAppended
    <3>5. Once("low", Append(ready, "main"))
      BY <3>1, <3>2, <3>3, OnceAppended
    <3>6. QED
      BY <2>3, <3>1, <3>4, <3>5
  <2>5. priority["low"] = 20 /\ priority["main"] = 31
    BY <2>1 DEF Starved
  <2>6. Inheritance!Dispatch(q, priority)
    BY <2>1, <2>3
  <2>7. /\ ready' \in Seq(Tasks) /\ current' = "low"
        /\ Range(ready') \subseteq Range(q) /\ Range(q) \ {"low"} \subseteq Range(ready')
        /\ Once("low", q) => "low" \notin Range(ready')
    <3>1. "low" \in Range(q) /\ \A t \in Range(q) : t = "low" \/ priority["low"] < priority[t]
      BY <2>4, <2>5
    <3>2. QED
      BY <1>0, <2>4, <2>6, <3>1, BestDispatched
  <2>8. /\ mutexStep' \in [MutexTasks -> MutexSteps] /\ mutexStep'["main"] = "yielded"
        /\ mutexStep'["low"] = mutexStep["low"] /\ mutexStep'["high"] = mutexStep["high"]
    BY <1>0, <1>1, <2>1, Goes
  <2>9. Range(ready') = {"main"}
    BY <2>4, <2>7
  <2>10. LowRuns'
    BY <2>1, <2>2, <2>7, <2>8, <2>9 DEF LowSpawned, LowRuns, LowStarts
  <2>11. Scheduled'
    BY <1>0, <1>1, <2>1, <2>7 DEF Scheduled
  <2>12. QED
    BY <1>0, <2>1, <2>8, <2>10, <2>11 DEF Starved, MutexTypes, Course
<1>4. CASE Inheritance!MainAsserts
  <2>1. /\ current = "main" /\ mutexStep["main"] = "yielded"
        /\ UNCHANGED <<current, ready, priority, timer, owner, highAcquired, verdict>>
        /\ \E s \in {"asserted", "panicked"} : Inheritance!Goto("main", s)
    BY <1>4 DEF Inheritance!MainAsserts, Inheritance!At, Inheritance!kernelVars,
       Inheritance!lockVars, Inheritance!flags
  <2>2. LowSleeping
    BY <2>1, WhoRuns DEF BeforeSpawn, LowSpawned, MediumSpawned, BothSpawned
  <2>3. PICK s \in {"asserted", "panicked"} : Inheritance!Goto("main", s)
    BY <2>1
  <2>4. /\ mutexStep' \in [MutexTasks -> MutexSteps] /\ mutexStep'["main"] = s
        /\ mutexStep'["low"] = mutexStep["low"] /\ mutexStep'["high"] = mutexStep["high"]
    BY <1>0, <1>1, <2>3, Goes
  <2>5. LowSleeping' /\ Scheduled'
    BY <1>0, <2>1, <2>2, <2>4 DEF LowSleeping, Held, Scheduled
  <2>6. QED
    BY <1>0, <2>1, <2>4, <2>5 DEF Starved, MutexTypes, Course
<1>5. CASE Inheritance!MainSpawns("asserted", "medium", "spawned medium")
  <2>1. /\ current = "main" /\ mutexStep["main"] = "asserted"
        /\ Inheritance!Spawn("medium", 10) /\ Inheritance!Goto("main", "spawned medium")
        /\ UNCHANGED <<owner, highAcquired, verdict>>
    BY <1>5, FixedPriorities DEF Inheritance!MainSpawns, Inheritance!At, Inheritance!lockVars,
       Inheritance!flags
  <2>2. LowSleeping
    BY <2>1, WhoRuns DEF BeforeSpawn, LowSpawned, MediumSpawned, BothSpawned
  <2>3. /\ Scheduled' /\ current' = current /\ timer' = timer
        /\ Range(ready') = Range(ready) \cup {"medium"}
        /\ priority'["medium"] = 10
        /\ \A u \in Tasks \ {"medium"} : priority'[u] = priority[u]
    BY <1>0, <1>1, <2>1, SpawnQueues
  <2>4. /\ mutexStep' \in [MutexTasks -> MutexSteps] /\ mutexStep'["main"] = "spawned medium"
        /\ mutexStep'["low"] = mutexStep["low"] /\ mutexStep'["high"] = mutexStep["high"]
    BY <1>0, <1>1, <2>1, Goes
  <2>5. MediumSpawned'
    BY <2>1, <2>2, <2>3, <2>4 DEF LowSleeping, MediumSpawned, Held
  <2>6. QED
    BY <1>0, <1>1, <2>1, <2>3, <2>4, <2>5 DEF Starved, MutexTypes, Course
<1>6. CASE Inheritance!MainSpawns("spawned medium", "high", "spawned both")
  <2>1. /\ current = "main" /\ mutexStep["main"] = "spawned medium"
        /\ Inheritance!Spawn("high", 2) /\ Inheritance!Goto("main", "spawned both")
        /\ UNCHANGED <<owner, highAcquired, verdict>>
    BY <1>6, FixedPriorities DEF Inheritance!MainSpawns, Inheritance!At, Inheritance!lockVars,
       Inheritance!flags
  <2>2. MediumSpawned
    BY <2>1, WhoRuns DEF BeforeSpawn, LowSpawned, LowSleeping, BothSpawned
  <2>3. /\ Scheduled' /\ current' = current /\ timer' = timer
        /\ Range(ready') = Range(ready) \cup {"high"}
        /\ "high" \notin Range(ready) => Once("high", ready')
        /\ priority'["high"] = 2
        /\ \A u \in Tasks \ {"high"} : priority'[u] = priority[u]
    BY <1>0, <1>1, <2>1, SpawnQueues
  <2>4. /\ mutexStep' \in [MutexTasks -> MutexSteps] /\ mutexStep'["main"] = "spawned both"
        /\ mutexStep'["low"] = mutexStep["low"] /\ mutexStep'["high"] = mutexStep["high"]
    BY <1>0, <1>1, <2>1, Goes
  <2>5. BothSpawned'
    BY <2>1, <2>2, <2>3, <2>4 DEF MediumSpawned, BothSpawned, Held
  <2>6. QED
    BY <1>0, <1>1, <2>1, <2>3, <2>4, <2>5 DEF Starved, MutexTypes, Course
<1>7. CASE Inheritance!MainSleeps
  <2>1. /\ current = "main" /\ mutexStep["main"] = "spawned both"
        /\ timer' = [timer EXCEPT !["main"] = 20]
        /\ Inheritance!Dispatch(ready, priority) /\ Inheritance!Goto("main", "slept")
        /\ UNCHANGED <<priority, owner, highAcquired, verdict>>
    BY <1>7 DEF Inheritance!MainSleeps, Inheritance!Sleep, Inheritance!At,
       Inheritance!lockVars, Inheritance!flags
  <2>2. BothSpawned
    BY <2>1, WhoRuns DEF BeforeSpawn, LowSpawned, LowSleeping, MediumSpawned
  <2>3. /\ priority["low"] = 20 /\ priority["main"] = 31
        /\ priority["medium"] = 10 /\ priority["high"] = 2 /\ mutexStep["high"] = "start"
    BY <2>1 DEF Starved
  <2>4. /\ ready' \in Seq(Tasks) /\ current' = "high"
        /\ Range(ready') \subseteq Range(ready) /\ Range(ready) \ {"high"} \subseteq Range(ready')
        /\ Once("high", ready) => "high" \notin Range(ready')
    <3>1. ready \in Seq(Tasks) /\ "high" \in Range(ready)
      BY <1>0, <2>2 DEF BothSpawned, Scheduled
    <3>2. \A t \in {"low", "main", "medium"} : priority["high"] < priority[t]
      BY <2>3
    <3>3. \A t \in Range(ready) : t = "high" \/ t \in {"low", "main", "medium"}
      BY <2>2 DEF BothSpawned
    <3>4. \A t \in Range(ready) : t = "high" \/ priority["high"] < priority[t]
      BY <3>2, <3>3
    <3>5. priority \in [Tasks -> Nat] /\ Inheritance!Dispatch(ready, priority)
      BY <1>0, <2>1
    <3>6. QED
      BY <3>1, <3>4, <3>5, BestDispatched
  <2>5. /\ mutexStep' \in [MutexTasks -> MutexSteps] /\ mutexStep'["main"] = "slept"
        /\ mutexStep'["low"] = mutexStep["low"] /\ mutexStep'["high"] = mutexStep["high"]
    BY <1>0, <1>1, <2>1, Goes
  <2>6. /\ timer' \in [Tasks -> Nat]
        /\ \A t \in Tasks \ {"low", "main"} : timer'[t] = timer[t]
    BY <1>0, <2>1
  <2>7. LowStarves'
    BY <2>1, <2>2, <2>3, <2>4, <2>5 DEF BothSpawned, LowStarves, Held
  <2>8. Scheduled'
    BY <1>0, <1>1, <2>1, <2>4 DEF Scheduled
  <2>9. QED
    BY <1>0, <2>1, <2>3, <2>5, <2>6, <2>7, <2>8 DEF Starved, MutexTypes, Course
<1>8. CASE Inheritance!MainReports
  BY <1>8, WhoRuns DEF Inheritance!MainReports, Inheritance!At, BeforeSpawn, LowSpawned,
     LowSleeping, MediumSpawned, BothSpawned
<1>9. QED
  BY <1>2, <1>3, <1>4, <1>5, <1>6, <1>7, <1>8 DEF Inheritance!Main

LEMMA LowMediumStarve ==
  ASSUME Starved, Inheritance!Low \/ Inheritance!Medium
  PROVE  Starved'
<1>0. /\ MutexTypes /\ Scheduled /\ mutexStep \in [MutexTasks -> MutexSteps]
      /\ timer \in [Tasks -> Nat] /\ priority \in [Tasks -> Nat]
      /\ ~ highAcquired /\ verdict # "ok"
  BY DEF Starved, MutexTypes, Scheduled
<1>1. /\ "main" \in Tasks /\ "low" \in Tasks /\ Idle \notin Tasks
      /\ "main" \in MutexTasks /\ "low" \in MutexTasks /\ "high" \in MutexTasks
      /\ {"locked", "slept"} \subseteq MutexSteps
  BY FixtureTasks DEF MutexTasks, MutexSteps
<1>2. CASE Inheritance!LowLocks
  <2>1. current = "low" /\ mutexStep["low"] = "start" /\ LowRuns
    BY <1>2, WhoRuns DEF Inheritance!LowLocks, Inheritance!At
  <2>2. owner = Idle
    BY <2>1 DEF LowRuns, LowStarts
  <2>3. /\ owner' = "low" /\ Inheritance!Goto("low", "locked")
        /\ UNCHANGED <<current, ready, priority, timer, highAcquired, verdict>>
    BY <1>2, <2>2 DEF Inheritance!LowLocks, Inheritance!Lock, Inheritance!kernelVars,
       Inheritance!flags
  <2>4. /\ mutexStep' \in [MutexTasks -> MutexSteps] /\ mutexStep'["low"] = "locked"
        /\ mutexStep'["main"] = mutexStep["main"] /\ mutexStep'["high"] = mutexStep["high"]
    BY <1>0, <1>1, <2>3, Goes
  <2>5. LowRuns' /\ Scheduled'
    BY <1>0, <2>1, <2>3, <2>4 DEF LowRuns, LowStarts, Scheduled
  <2>6. QED
    BY <1>0, <2>3, <2>4, <2>5 DEF Starved, MutexTypes, Course
<1>3. CASE Inheritance!LowSleeps
  <2>1. /\ current = "low" /\ mutexStep["low"] = "locked" /\ LowRuns
        /\ timer' = [timer EXCEPT !["low"] = 2] /\ Inheritance!Dispatch(ready, priority)
        /\ Inheritance!Goto("low", "slept")
        /\ UNCHANGED <<priority, owner, highAcquired, verdict>>
    BY <1>3, WhoRuns DEF Inheritance!LowSleeps, Inheritance!Sleep, Inheritance!At,
       Inheritance!lockVars
  <2>2. /\ ready' \in Seq(Tasks) /\ current' = "main" /\ Range(ready') \subseteq {"main"}
    <3>1. ready \in Seq(Tasks) /\ Range(ready) = {"main"}
      BY <1>0, <2>1 DEF Scheduled, LowRuns
    <3>2. "main" \in Range(ready)
          /\ \A t \in Range(ready) : t = "main" \/ priority["main"] < priority[t]
      BY <3>1
    <3>3. priority \in [Tasks -> Nat] /\ Inheritance!Dispatch(ready, priority)
      BY <1>0, <2>1
    <3>4. /\ ready' \in Seq(Tasks) /\ current' = "main"
          /\ Range(ready') \subseteq Range(ready)
      BY <3>1, <3>2, <3>3, BestDispatched
    <3>5. QED
      BY <3>1, <3>4
  <2>3. /\ mutexStep' \in [MutexTasks -> MutexSteps] /\ mutexStep'["low"] = "slept"
        /\ mutexStep'["main"] = mutexStep["main"] /\ mutexStep'["high"] = mutexStep["high"]
    BY <1>0, <1>1, <2>1, Goes
  <2>4. /\ timer' \in [Tasks -> Nat]
        /\ \A t \in Tasks \ {"low", "main"} : timer'[t] = timer[t]
    BY <1>0, <2>1
  <2>5. mutexStep["main"] = "yielded" /\ owner = "low"
    BY <2>1 DEF LowRuns, LowStarts
  <2>6. LowSleeping'
    BY <2>1, <2>2, <2>3, <2>5 DEF LowSleeping, Held
  <2>7. Scheduled'
    BY <1>0, <1>1, <2>1, <2>2 DEF Scheduled
  <2>8. QED
    BY <1>0, <2>1, <2>3, <2>4, <2>5, <2>6, <2>7 DEF Starved, MutexTypes, Course
<1>4. CASE Inheritance!LowUnlocks \/ Inheritance!LowReturns
  <2>1. current = "low" /\ mutexStep["low"] \in {"slept", "unlocked"}
    BY <1>4 DEF Inheritance!LowUnlocks, Inheritance!LowReturns, Inheritance!At
  <2>2. QED
    BY <2>1, WhoRuns DEF LowRuns, LowStarts
<1>5. CASE Inheritance!MediumLoops
  <2>1. /\ TRUE = (current # "main") /\ Inheritance!Tick(TRUE, FALSE)
        /\ UNCHANGED <<mutexStep, owner, highAcquired, verdict>>
    BY <1>5 DEF Inheritance!MediumLoops, Inheritance!At, Inheritance!lockVars
  <2>2. QED
    BY <2>1, TickStarves
<1>6. CASE Inheritance!MediumEnds
  BY <1>0, <1>6 DEF Inheritance!MediumEnds, Inheritance!MediumReturns
<1>7. QED
  BY <1>2, <1>3, <1>4, <1>5, <1>6 DEF Inheritance!Low, Inheritance!Medium

LEMMA HighStarves ==
  ASSUME Starved, mutexKernel = "counts only", Inheritance!High
  PROVE  Starved'
<1>0. /\ MutexTypes /\ Scheduled /\ mutexStep \in [MutexTasks -> MutexSteps]
      /\ timer \in [Tasks -> Nat] /\ priority \in [Tasks -> Nat]
      /\ ~ highAcquired /\ verdict # "ok"
  BY DEF Starved, MutexTypes, Scheduled
<1>1. /\ "low" \in Tasks /\ "medium" \in Tasks /\ Idle \notin Tasks
      /\ "main" \in MutexTasks /\ "high" \in MutexTasks /\ "locked" \in MutexSteps
  BY FixtureTasks DEF MutexTasks, MutexSteps
<1>2. /\ current = "high" /\ LowStarves /\ mutexStep["high"] = "start"
  BY WhoRuns DEF Inheritance!High, Inheritance!HighLocks, Inheritance!HighAcquires,
     Inheritance!HighUnlocks, Inheritance!HighReturns, Inheritance!At
<1>3. Inheritance!HighLocks
  BY <1>2 DEF Inheritance!High, Inheritance!HighAcquires, Inheritance!HighUnlocks,
     Inheritance!HighReturns, Inheritance!At
<1>4. owner # Idle /\ mutexStep["main"] = "slept" /\ owner = "low"
  BY <1>1, <1>2 DEF LowStarves
<1>5. /\ Inheritance!Dispatch(ready, priority') /\ priority' = priority
      /\ UNCHANGED <<owner, timer, highAcquired, verdict>> /\ Inheritance!Goto("high", "locked")
  BY <1>3, <1>4 DEF Inheritance!HighLocks, Inheritance!Lock, Inheritance!Inherit,
     Inheritance!flags
<1>6. /\ priority["low"] = 20 /\ priority["main"] = 31 /\ priority["medium"] = 10
  BY <1>4 DEF Starved
<1>7. ready' \in Seq(Tasks) /\ current' = "medium" /\ Range(ready') \subseteq Range(ready)
  <2>1. ready \in Seq(Tasks) /\ "medium" \in Range(ready)
    BY <1>0, <1>2 DEF LowStarves, Scheduled
  <2>2. priority["medium"] < priority["low"] /\ priority["medium"] < priority["main"]
    BY ONLY <1>6
  <2>3. \A t \in Range(ready) : t = "medium" \/ t \in {"low", "main"}
    BY <1>2 DEF LowStarves
  <2>4. \A t \in Range(ready) : t = "medium" \/ priority["medium"] < priority[t]
    BY ONLY <2>2, <2>3
  <2>5. priority \in [Tasks -> Nat] /\ Inheritance!Dispatch(ready, priority)
    BY <1>0, <1>5
  <2>6. /\ ready' \in Seq(Tasks) /\ current' = "medium"
        /\ Range(ready') \subseteq Range(ready)
    BY ONLY <2>1, <2>4, <2>5, BestDispatched
  <2>7. QED
    BY ONLY <2>6
<1>8. /\ mutexStep' \in [MutexTasks -> MutexSteps]
      /\ mutexStep'["main"] = mutexStep["main"]
  BY <1>0, <1>1, <1>5, Goes
<1>9. LowStarves'
  BY <1>2, <1>4, <1>5, <1>7, <1>8 DEF LowStarves
<1>10. Scheduled'
  BY <1>0, <1>1, <1>5, <1>7 DEF Scheduled
<1>11. QED
  BY <1>0, <1>4, <1>5, <1>8, <1>9, <1>10 DEF Starved, MutexTypes, Course

LEMMA StarvedStep ==
  ASSUME Starved, mutexKernel = "counts only", Inheritance!Next
  PROVE  Starved'
<1>1. CASE Inheritance!TimePasses
  <2>1. PICK p \in BOOLEAN : p = (current # "main")
    OBVIOUS
  <2>2. /\ Inheritance!Tick(p, FALSE)
        /\ UNCHANGED <<mutexStep, owner, highAcquired, verdict>>
    BY <1>1, <2>1 DEF Inheritance!TimePasses, Inheritance!lockVars, Inheritance!flags
  <2>3. QED
    BY <2>1, <2>2, TickStarves
<1>2. QED
  BY <1>1, MainStarves, LowMediumStarve, HighStarves DEF Inheritance!Next

\* A kernel that raises the owner but counts nothing never shows an inheritance.
Uncounted == inheritances = 0 /\ verdict # "ok"

LEMMA UncountedStep ==
  ASSUME Uncounted, mutexKernel = "raises only", Inheritance!Next
  PROVE  Uncounted'
<1> USE DEF Uncounted
<1>1. CASE Inheritance!Main
  <2>1. inheritances' = inheritances
    BY <1>1 DEF Inheritance!Main, Inheritance!MainSpawns, Inheritance!MainYields,
       Inheritance!MainAsserts, Inheritance!MainSleeps, Inheritance!MainReports,
       Inheritance!lockVars
  <2>2. verdict' # "ok"
    BY <1>1 DEF Inheritance!Main, Inheritance!MainSpawns, Inheritance!MainYields,
       Inheritance!MainAsserts, Inheritance!MainSleeps, Inheritance!MainReports,
       Inheritance!flags
  <2>3. QED
    BY <2>1, <2>2
<1>2. ASSUME NEW t, Inheritance!Lock(t) \/ Inheritance!Unlock(t)
      PROVE  inheritances' = 0
  <2>1. CASE Inheritance!Inherit(t)
    <3>1. inheritances' = inheritances + 0
      BY <2>1 DEF Inheritance!Inherit
    <3>2. inheritances = 0
      OBVIOUS
    <3>3. QED
      BY ONLY <3>1, <3>2
  <2>2. CASE inheritances' = inheritances
    BY <2>2
  <2>3. Inheritance!Inherit(t) \/ inheritances' = inheritances
    BY <1>2 DEF Inheritance!Lock, Inheritance!Unlock
  <2>4. QED
    BY <2>1, <2>2, <2>3
<1>3. CASE Inheritance!Low
  BY <1>2, <1>3 DEF Inheritance!Low, Inheritance!LowLocks, Inheritance!LowSleeps,
     Inheritance!LowUnlocks, Inheritance!LowReturns, Inheritance!lockVars, Inheritance!flags
<1>4. CASE Inheritance!Medium
  BY <1>4 DEF Inheritance!Medium, Inheritance!MediumLoops, Inheritance!MediumEnds,
     Inheritance!lockVars, Inheritance!flags
<1>5. CASE Inheritance!High
  BY <1>2, <1>5 DEF Inheritance!High, Inheritance!HighLocks, Inheritance!HighAcquires,
     Inheritance!HighUnlocks, Inheritance!HighReturns, Inheritance!lockVars, Inheritance!flags
<1>6. CASE Inheritance!TimePasses
  BY <1>6 DEF Inheritance!TimePasses, Inheritance!lockVars, Inheritance!flags
<1>7. QED
  BY <1>1, <1>3, <1>4, <1>5, <1>6 DEF Inheritance!Next

MutexInv ==
  /\ mutexKernel \in Inheritance!Kernels
  /\ mutexKernel = "counts only" => Starved
  /\ mutexKernel = "raises only" => Uncounted

LEMMA InheritanceStep ==
  ASSUME image = "inheritance", [Next]_vars
  PROVE  /\ image' = image
         /\ Inheritance!Next \/ UNCHANGED <<shared, inheritanceOwn>>
BY DEF Next, vars, InheritanceRuns, PreemptionRuns, BudgetRuns, StressRuns

LEMMA KernelStays ==
  ASSUME Inheritance!Next
  PROVE  mutexKernel' = mutexKernel
BY DEF Inheritance!Next, Inheritance!Low, Inheritance!LowLocks, Inheritance!LowSleeps,
   Inheritance!LowUnlocks, Inheritance!LowReturns, Inheritance!Medium, Inheritance!MediumLoops,
   Inheritance!MediumEnds, Inheritance!High, Inheritance!HighLocks, Inheritance!HighAcquires,
   Inheritance!HighUnlocks, Inheritance!HighReturns, Inheritance!Main, Inheritance!MainSpawns,
   Inheritance!MainYields, Inheritance!MainAsserts, Inheritance!MainSleeps,
   Inheritance!MainReports, Inheritance!TimePasses

LEMMA MutexStep ==
  ASSUME MutexInv, image = "inheritance", [Next]_vars
  PROVE  MutexInv'
<1>1. CASE Inheritance!Next
  <2>1. mutexKernel' = mutexKernel /\ Inheritance!Kernels' = Inheritance!Kernels
    BY <1>1, KernelStays DEF Inheritance!Kernels
  <2>2. QED
    BY <1>1, <2>1, StarvedStep, UncountedStep DEF MutexInv
<1>2. CASE UNCHANGED <<shared, inheritanceOwn>>
  <2> USE <1>2 DEF shared, inheritanceOwn
  <2>1. Course => Course'
    BY DEF Course, BeforeSpawn, LowSpawned, LowRuns, LowSleeping, MediumSpawned,
       BothSpawned, LowStarves, LowStarts, Held
  <2>2. Starved => Starved'
    BY <2>1 DEF Starved, MutexTypes, Scheduled
  <2>3. QED
    BY <2>2 DEF MutexInv, Uncounted, Inheritance!Kernels
<1>3. QED
  BY <1>1, <1>2, InheritanceStep

\* The image rtos_priority_inheritance prints OK only on a kernel that raises the
\* mutex's owner and counts it (rtos_priority_inheritance/src/main.rs:56-92, 178-189): the
\* safety half of InheritanceVerdict, however many ticks are lost in its steps.
THEOREM InheritanceNeverWrong ==
  Spec => (image = "inheritance" => []Inheritance!OkEarned)
<1> DEFINE I == image = "inheritance" => MutexInv
<1> DEFINE Q == image = "inheritance" => Inheritance!OkEarned
<1>1. Init => I
  <2> SUFFICES ASSUME Init PROVE MutexInv
    OBVIOUS
  <2>1. Starved
    BY StarvedStarts
  <2>2. QED
    BY <2>1 DEF Init, Inheritance!Init, MutexInv, Uncounted
<1>2. I /\ [Next]_vars => I'
  <2> SUFFICES ASSUME I, [Next]_vars, (image = "inheritance")' PROVE MutexInv'
    OBVIOUS
  <2>1. image = "inheritance"
    BY DEF Next, vars, InheritanceRuns, PreemptionRuns, BudgetRuns, StressRuns
  <2>2. QED
    BY <2>1, MutexStep
<1>3. I => Q
  BY DEF MutexInv, Starved, Uncounted, Inheritance!OkEarned, Inheritance!Conforming,
     Inheritance!Kernels
<1>4. Spec => []Q
  BY <1>1, <1>2, <1>3, PTL DEF Spec
<1>5. image = "inheritance" /\ [Next]_vars => (image = "inheritance")'
  BY InheritanceStep
<1>6. Spec => (image = "inheritance" => [](image = "inheritance"))
  BY <1>5, PTL DEF Spec
<1>7. QED
  BY <1>4, <1>6, PTL
=============================================================================
