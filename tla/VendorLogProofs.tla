-------------------------- MODULE VendorLogProofs --------------------------
(***************************************************************************)
(* Theorems about VendorLog, for a ring of any capacity, calls of any      *)
(* length and any number of tasks.                                         *)
(***************************************************************************)
EXTENDS VendorLog, SequenceTheorems, TLAPS

\* The constants, as numbers.
LEMMA LogNumbers ==
  /\ Capacity \in Nat /\ Capacity > 0
  /\ ChunkSize \in Nat /\ ChunkSize > 0
  /\ MaxAppend \in Nat /\ MaxAppend > 0
  /\ MaxCalls \in Nat /\ Producers \in Nat
BY LogAssumption

\* A position of the ring wraps at most once.
LEMMA Wrap ==
  \A a \in Nat :
    a < 2 * Capacity => a % Capacity = IF a < Capacity THEN a ELSE a - Capacity
<1>1. \A a, c \in Nat : c > 0 /\ a < c => a % c = a
  OBVIOUS
<1>2. \A a, c \in Nat : c > 0 /\ c <= a /\ a < 2 * c => a % c = a - c
  OBVIOUS
<1>3. QED
  BY <1>1, <1>2, LogNumbers

\* Ring(b, s, l, d): the l bytes from slot s on are those from position d on.
Ring(b, s, l, d) == \A i \in 0 .. l - 1 : b[(s + i) % Capacity] = d + i

\* Storing bytes that continue the ring's leaves a ring of the newest bytes.
LEMMA StoreKeepsRing ==
  ASSUME bytes \in [Slots -> Nat],
         NEW s \in Slots, NEW l \in 0 .. Capacity, NEW d \in Nat,
         NEW count \in 0 .. Capacity,
         Ring(bytes, s, l, d), Store(d + l, count, s, l, d)
  PROVE  /\ bytes' \in [Slots -> Nat] /\ start' \in Slots /\ len' \in 0 .. Capacity
         /\ len' = Least(l + count, Capacity)
         /\ dropped' \in Nat /\ dropped' + len' = d + l + count
         /\ Ring(bytes', start', len', dropped')
<1> DEFINE overflow == SaturatingSub(l + count, Capacity)
           rotated == (s + overflow) % Capacity
           rest == l - overflow
           end == (rotated + rest) % Capacity
           first == Least(count, Capacity - end)
<1>1. /\ Capacity \in Nat /\ Capacity > 0 /\ s \in Nat /\ s < Capacity
      /\ l \in Nat /\ l <= Capacity /\ count \in Nat /\ count <= Capacity
  BY LogNumbers DEF Slots
<1>2. /\ overflow \in Nat /\ overflow <= l /\ rest \in Nat /\ rest + count <= Capacity
      /\ rest + count = Least(l + count, Capacity)
  BY <1>1 DEF SaturatingSub, Least
<1>2a. rest = l - overflow
  OBVIOUS
<1> HIDE DEF overflow, rotated, rest, end, first
<1>3. rotated = IF s + overflow < Capacity THEN s + overflow ELSE s + overflow - Capacity
  <2>1. s + overflow \in Nat /\ s + overflow < 2 * Capacity
    BY <1>1, <1>2
  <2>2. QED
    BY <1>1, <1>2, <2>1, Wrap DEF rotated
<1>4. rotated \in Nat /\ rotated < Capacity
  BY <1>1, <1>2, <1>3
<1>5. end = IF rotated + rest < Capacity THEN rotated + rest ELSE rotated + rest - Capacity
  <2>1. rotated + rest \in Nat /\ rotated + rest < 2 * Capacity
    BY <1>1, <1>2, <1>4
  <2>2. QED
    BY <1>1, <1>2, <1>4, <2>1, Wrap DEF end
<1>6. end \in Nat /\ end < Capacity
  BY <1>1, <1>2, <1>4, <1>5
<1>7. first \in Nat /\ first <= count /\ first <= Capacity - end
      /\ (first = count \/ end + first = Capacity)
  BY <1>1, <1>6 DEF Least, first
<1>8. /\ start' = rotated /\ len' = rest + count /\ dropped' = d + overflow
      /\ bytes' = [i \in Slots |->
                     IF end <= i /\ i < end + first THEN d + l + (i - end)
                     ELSE IF i < count - first THEN d + l + first + i
                     ELSE bytes[i]]
  BY <1>1, <1>2, <1>2a DEF Store, Copied, overflow, rotated, rest, end, first
<1>10. bytes' \in [Slots -> Nat]
  <2>1. \A i \in Slots : i \in Nat /\ bytes[i] \in Nat
    BY DEF Slots
  <2>2. \A i \in Slots : (IF end <= i /\ i < end + first THEN d + l + (i - end)
                          ELSE IF i < count - first THEN d + l + first + i
                          ELSE bytes[i]) \in Nat
    BY <1>1, <1>6, <1>7, <2>1
  <2>3. QED
    BY <1>8, <2>2
<1>11. ASSUME NEW i \in 0 .. len' - 1
       PROVE  bytes'[(start' + i) % Capacity] = dropped' + i
  <2> DEFINE slot == (start' + i) % Capacity
  <2>1. i \in Nat /\ i < rest + count
    BY <1>2, <1>8, <1>11, <1>1
  <2>2. slot = IF rotated + i < Capacity THEN rotated + i ELSE rotated + i - Capacity
    <3>1. rotated + i \in Nat /\ rotated + i < 2 * Capacity
      BY <1>1, <1>2, <1>4, <2>1
    <3>2. QED
      BY <1>1, <1>4, <1>8, <2>1, <3>1, Wrap DEF slot
  <2> HIDE DEF slot
  <2>3. slot \in Slots
    BY <1>1, <1>4, <2>1, <2>2, <1>2 DEF Slots
  <2>4. bytes'[slot] = IF end <= slot /\ slot < end + first THEN d + l + (slot - end)
                       ELSE IF slot < count - first THEN d + l + first + slot
                       ELSE bytes[slot]
    BY <1>8, <2>3
  <2>5. CASE i < rest
    <3>1. /\ ~(end <= slot /\ slot < end + first)
          /\ ~(slot < count - first)
      BY <1>1, <1>2, <1>4, <1>5, <1>7, <2>1, <2>2, <2>5
    <3>2. (s + (overflow + i)) % Capacity = slot
      <4>1. s + (overflow + i) \in Nat /\ s + (overflow + i) < 2 * Capacity
        BY <1>1, <1>2, <1>2a, <2>1, <2>5
      <4>2. (s + (overflow + i)) % Capacity
              = IF s + (overflow + i) < Capacity
                THEN s + (overflow + i) ELSE s + (overflow + i) - Capacity
        BY <1>1, <1>2, <2>1, <4>1, Wrap
      <4>3. QED
        BY <1>1, <1>2, <1>3, <1>2a, <2>1, <2>2, <2>5, <4>2
    <3>3. overflow + i \in 0 .. l - 1
      BY <1>1, <1>2, <1>2a, <2>1, <2>5
    <3>4. bytes[slot] = d + (overflow + i)
      BY <3>2, <3>3 DEF Ring
    <3>5. QED
      BY <1>1, <1>2, <1>8, <2>1, <2>4, <3>1, <3>4 DEF slot
  <2>6. CASE i >= rest
    <3>1. /\ end <= slot /\ slot < end + first => slot - end = i - rest
          /\ ~(end <= slot /\ slot < end + first)
               => slot < count - first /\ first + slot = i - rest
      BY <1>1, <1>2, <1>4, <1>5, <1>7, <2>1, <2>2, <2>6
    <3>2. bytes'[slot] = d + l + (i - rest)
      <4>1. /\ slot \in Int /\ end \in Int /\ first \in Int /\ rest \in Int /\ i \in Int
            /\ d \in Int /\ l \in Int
        BY <1>1, <1>2, <1>6, <1>7, <2>1, <2>3 DEF Slots
      <4>2. CASE end <= slot /\ slot < end + first
        <5>1. bytes'[slot] = d + l + (slot - end) /\ slot - end = i - rest
          BY <2>4, <3>1, <4>2
        <5>2. QED
          BY <5>1
      <4>3. CASE ~(end <= slot /\ slot < end + first)
        <5>1. bytes'[slot] = d + l + first + slot /\ first + slot = i - rest
          BY <2>4, <3>1, <4>3
        <5>2. QED
          BY <4>1, <5>1
      <4>4. QED
        BY <4>2, <4>3
    <3>3. QED
      BY <1>1, <1>2, <1>8, <1>2a, <2>1, <3>2 DEF slot
  <2>7. QED
    BY <1>2, <2>1, <2>5, <2>6
<1>12. start' \in Slots
  BY <1>1, <1>4, <1>8 DEF Slots
<1>13. len' \in 0 .. Capacity /\ len' = Least(l + count, Capacity)
  BY <1>1, <1>2, <1>8
<1>14. dropped' \in Nat /\ dropped' + len' = d + l + count
  BY <1>1, <1>2, <1>2a, <1>8
<1>15. Ring(bytes', start', len', dropped')
  BY <1>11 DEF Ring
<1>16. QED
  BY <1>10, <1>12, <1>13, <1>14, <1>15

-----------------------------------------------------------------------------
(***************************************************************************)
(* The inductive invariant                                                 *)
(***************************************************************************)
RingInv ==
  /\ bytes \in [Slots -> Nat] /\ start \in Slots /\ len \in 0 .. Capacity
  /\ dropped \in Nat /\ total \in Nat
  /\ RingIsTail

\* `push` of any number of bytes, oversized or not, keeps the ring the tail, adds
\* what there is room for, and so never makes it shorter.
LEMMA PushKeepsTail ==
  ASSUME RingInv, NEW n \in Nat, Push(n), total' = total + n
  PROVE  RingInv' /\ len' >= len /\ len' = Least(len + n, Capacity)
<1> USE DEF RingInv
<1>1. /\ Capacity \in Nat /\ Capacity > 0 /\ len \in Nat /\ len <= Capacity
      /\ total = dropped + len
  BY LogNumbers DEF RingIsTail
<1>2. CASE n >= Capacity
  <2> DEFINE d == dropped + len + n - Capacity
  <2>1. Store(d + 0, Capacity, 0, 0, d)
    <3>1. d + 0 = total + n - Capacity
      BY <1>1
    <3>2. QED
      BY <1>2, <3>1 DEF Push
  <2>2. /\ d \in Nat /\ 0 \in Slots /\ 0 \in 0 .. Capacity /\ Capacity \in 0 .. Capacity
        /\ d + 0 + Capacity = total + n
    BY <1>1, <1>2 DEF Slots
  <2>3. Ring(bytes, 0, 0, d)
    BY DEF Ring
  <2> HIDE DEF d
  <2>4. /\ bytes' \in [Slots -> Nat] /\ start' \in Slots /\ len' \in 0 .. Capacity
        /\ len' = Least(0 + Capacity, Capacity)
        /\ dropped' \in Nat /\ dropped' + len' = total + n
        /\ Ring(bytes', start', len', dropped')
    BY <2>1, <2>2, <2>3, StoreKeepsRing
  <2>5. len' = Capacity /\ len' >= len /\ len' = Least(len + n, Capacity)
    BY <1>1, <1>2, <2>4 DEF Least
  <2>6. total' \in Nat /\ total' = dropped' + len'
    BY <2>4
  <2>7. RingIsTail'
    BY <2>4, <2>6 DEF Ring, RingIsTail
  <2>8. QED
    BY <2>4, <2>5, <2>6, <2>7
<1>3. CASE ~(n >= Capacity)
  <2>1. Store(dropped + len, n, start, len, dropped)
    BY <1>1, <1>3 DEF Push
  <2>2. n \in 0 .. Capacity
    BY <1>1, <1>3
  <2>3. Ring(bytes, start, len, dropped)
    BY DEF Ring, RingIsTail
  <2>4. /\ bytes' \in [Slots -> Nat] /\ start' \in Slots /\ len' \in 0 .. Capacity
        /\ len' = Least(len + n, Capacity)
        /\ dropped' \in Nat /\ dropped' + len' = dropped + len + n
        /\ Ring(bytes', start', len', dropped')
    BY <2>1, <2>2, <2>3, StoreKeepsRing
  <2>5. len' >= len
    BY <1>1, <2>4 DEF Least
  <2>6. QED
    BY <1>1, <2>4, <2>5 DEF Ring, RingIsTail
<1>4. QED
  BY <1>2, <1>3

\* Only LogBuffered writes the ring; the flush reads it.
LEMMA StepRing == RingInv /\ [Next]_vars => RingInv'
<1> SUFFICES ASSUME RingInv, [Next]_vars PROVE RingInv'
  OBVIOUS
<1>1. CASE LogBuffered
  <2>1. PICK n \in 1 .. MaxAppend : Push(n) /\ total' = total + n
    BY <1>1 DEF LogBuffered
  <2>2. n \in Nat
    BY LogNumbers
  <2>3. QED
    BY <2>1, <2>2, PushKeepsTail
<1>2. CASE UNCHANGED <<ringVars, total>>
  BY <1>2 DEF RingInv, RingIsTail, ringVars
<1>3. QED
  BY <1>1, <1>2 DEF Next, FetchSink, FlushBegins, FlushChunk, FlushEnds, Ended, vars

\* The ring holds exactly the newest bytes logged, in order, for every capacity
\* and every sequence of calls of whatever length.
THEOREM RingHoldsTail == Spec => []RingIsTail
<1>1. Init => RingInv
  <2> SUFFICES ASSUME Init PROVE RingInv
    OBVIOUS
  <2>1. 0 \in Slots /\ 0 \in 0 .. Capacity /\ 0 .. 0 - 1 = {}
    BY LogNumbers DEF Slots
  <2>2. QED
    BY <2>1 DEF Init, RingInv, RingIsTail
<1>2. RingInv => RingIsTail
  BY DEF RingInv
<1>3. QED
  BY <1>1, <1>2, StepRing, PTL DEF Spec

-----------------------------------------------------------------------------
(***************************************************************************)
(* The flush                                                               *)
(***************************************************************************)
\* What copy_from copies: as many bytes as the chunk takes of those from `from`
\* on, in order, and nothing only at the end of the ring.
LEMMA CopyIsTail ==
  ASSUME RingInv, NEW from \in 0 .. len
  PROVE  \E count \in 0 .. len - from :
           /\ CopyFrom(from) = [k \in 1 .. count |-> dropped + from + k - 1]
           /\ count = 0 => from = len
<1> DEFINE count == Least(len - from, ChunkSize)
           source == (start + from) % Capacity
           first == Least(count, Capacity - source)
<1>1. /\ Capacity \in Nat /\ Capacity > 0 /\ start \in Nat /\ start < Capacity
      /\ len \in Nat /\ len <= Capacity /\ from \in Nat /\ from <= len
      /\ dropped \in Nat /\ ChunkSize \in Nat /\ ChunkSize > 0
  BY LogNumbers DEF RingInv, Slots
<1>2. count \in Nat /\ count <= len - from /\ (count = 0 => from = len)
  BY <1>1 DEF Least
<1>3. CopyFrom(from)
        = [k \in 1 .. count |->
             IF k <= first THEN bytes[source + k - 1] ELSE bytes[k - first - 1]]
  BY DEF CopyFrom
<1> HIDE DEF count
<1>4. /\ source \in Nat /\ source < Capacity
      /\ source = IF start + from < Capacity THEN start + from
                  ELSE start + from - Capacity
  <2>1. start + from \in Nat /\ start + from < 2 * Capacity
    BY <1>1
  <2>2. source = IF start + from < Capacity THEN start + from
                 ELSE start + from - Capacity
    BY <1>1, <2>1, Wrap DEF source
  <2>3. QED
    BY <1>1, <2>2
<1> HIDE DEF source
<1>5. /\ first \in Nat /\ first <= count
      /\ first = IF count < Capacity - source THEN count ELSE Capacity - source
  BY <1>1, <1>2, <1>4 DEF Least
<1> HIDE DEF first
<1>6. ASSUME NEW k \in 1 .. count
      PROVE  (IF k <= first THEN bytes[source + k - 1] ELSE bytes[k - first - 1])
               = dropped + from + k - 1
  <2> DEFINE slot == (start + (from + k - 1)) % Capacity
  <2>1. /\ k \in Nat /\ 1 <= k /\ k <= count
        /\ from + k - 1 \in Nat /\ from + k - 1 < len
    BY <1>1, <1>2, <1>6
  <2>2. slot = IF start + (from + k - 1) < Capacity THEN start + (from + k - 1)
               ELSE start + (from + k - 1) - Capacity
    <3>1. start + (from + k - 1) \in Nat /\ start + (from + k - 1) < 2 * Capacity
      BY <1>1, <2>1
    <3>2. QED
      BY <1>1, <2>1, <3>1, Wrap DEF slot
  <2>3. bytes[slot] = dropped + (from + k - 1)
    <3>1. from + k - 1 \in 0 .. len - 1
      BY <1>1, <2>1
    <3>2. QED
      BY <3>1 DEF RingInv, RingIsTail
  <2> HIDE DEF slot
  <2>4. /\ k <= first => source + k - 1 = slot
        /\ ~(k <= first) => k - first - 1 = slot
    BY <1>1, <1>2, <1>4, <1>5, <2>1, <2>2
  <2>5. dropped + (from + k - 1) = dropped + from + k - 1
    BY <1>1, <2>1
  <2>6. QED
    BY <2>3, <2>4, <2>5
<1>7. CopyFrom(from) = [k \in 1 .. count |-> dropped + from + k - 1]
  BY <1>3, <1>6
<1>8. count \in 0 .. len - from
  BY <1>1, <1>2
<1>9. QED
  BY <1>2, <1>7, <1>8

\* What was written is in order and lies before what the flush has still to read,
\* however far late pushes moved the ring on; without them it is the ring's head.
WrittenInv ==
  /\ Len(written) = offset
  /\ \A k \in 1 .. offset : written[k] < dropped + offset
  /\ \A j, k \in 1 .. offset : j < k => written[j] < written[k]
  /\ late = FALSE => \A k \in 1 .. offset : written[k] = dropped + k - 1

\* The callback is replaced as long as the flush has begun, and only then can a
\* task be late.
FlushInv ==
  /\ sink = "drop" <=> flush # "idle"
  /\ late = TRUE => sink = "drop"
  /\ flush = "idle" => offset = 0

LogInv == TypeOK /\ RingIsTail /\ WrittenInv /\ FlushInv

LEMMA InitLog == Init => LogInv
<1> SUFFICES ASSUME Init PROVE LogInv
  OBVIOUS
<1>1. /\ 0 \in Slots /\ 0 \in 0 .. Capacity /\ 0 .. 0 - 1 = {} /\ 1 .. 0 = {}
      /\ 0 \in 0 .. MaxCalls /\ 0 \in 0 .. Producers
  BY LogNumbers DEF Slots
<1>2. TypeOK
  BY <1>1 DEF Init, TypeOK
<1>3. RingIsTail
  BY <1>1 DEF Init, RingIsTail
<1>4. WrittenInv /\ FlushInv
  BY <1>1 DEF Init, WrittenInv, FlushInv
<1>5. QED
  BY <1>2, <1>3, <1>4 DEF LogInv

\* A push moves the ring on under the flush: what was written stays behind it.
LEMMA PushKeepsWritten ==
  ASSUME LogInv, LogBuffered
  PROVE  LogInv'
<1>1. PICK n \in 1 .. MaxAppend : Push(n) /\ total' = total + n
  BY DEF LogBuffered
<1>2. n \in Nat
  BY LogNumbers
<1>3. RingInv
  BY DEF LogInv, TypeOK, RingInv
<1>4. RingInv' /\ len' >= len
  BY <1>1, <1>2, <1>3, PushKeepsTail
<1>5. /\ inFlight > 0 /\ inFlight' = inFlight - 1
      /\ late' = (late \/ sink = "drop")
      /\ UNCHANGED <<sink, calls, flush, offset, written, reported>>
  BY DEF LogBuffered, flushVars
<1>6. dropped' >= dropped
  <2>1. /\ total' = total + n /\ total = dropped + len /\ total' = dropped' + len'
        /\ len' = Least(len + n, Capacity)
    BY <1>1, <1>2, <1>3, <1>4, PushKeepsTail DEF RingInv, RingIsTail
  <2>2. /\ dropped \in Nat /\ dropped' \in Nat /\ total \in Nat
        /\ len \in Nat /\ len' \in Nat /\ Capacity \in Nat
    BY <1>3, <1>4, LogNumbers DEF RingInv
  <2>3. len' <= len + n
    BY <1>2, <2>1, <2>2 DEF Least
  <2>4. QED
    BY <1>2, <2>1, <2>2, <2>3
<1>7. /\ offset \in Nat /\ offset <= len /\ len \in Nat /\ dropped \in Nat
      /\ written \in Seq(Nat) /\ inFlight \in 0 .. Producers
  BY DEF LogInv, TypeOK
<1>8. TypeOK'
  <2>1. late' \in BOOLEAN
    BY <1>5 DEF LogInv, TypeOK
  <2>2. inFlight' \in 0 .. Producers
    BY <1>5, <1>7, LogNumbers
  <2>3. offset' \in 0 .. len'
    BY <1>4, <1>5, <1>7 DEF RingInv
  <2>4. QED
    BY <1>4, <1>5, <2>1, <2>2, <2>3 DEF LogInv, TypeOK, RingInv
<1>9. WrittenInv'
  <2>1. \A k \in 1 .. offset : written[k] < dropped' + offset
    <3>1. \A k \in 1 .. offset : written[k] \in Nat /\ written[k] < dropped + offset
      BY <1>7 DEF LogInv, WrittenInv
    <3>2. dropped' \in Nat
      BY <1>4 DEF RingInv
    <3>3. QED
      BY <1>6, <1>7, <3>1, <3>2
  <2>2. late' = FALSE => 1 .. offset = {}
    <3>1. late' = FALSE => flush = "idle"
      BY <1>5 DEF LogInv, FlushInv, TypeOK
    <3>2. flush = "idle" => 1 .. offset = {}
      BY DEF LogInv, FlushInv
    <3>3. QED
      BY <3>1, <3>2
  <2>3. QED
    BY <1>5, <2>1, <2>2 DEF LogInv, WrittenInv
<1>10. FlushInv'
  BY <1>5 DEF LogInv, FlushInv, TypeOK
<1>11. QED
  BY <1>4, <1>8, <1>9, <1>10 DEF LogInv, RingInv

\* A chunk continues what was written: its bytes are those the ring has after.
LEMMA ChunkKeepsOrder ==
  ASSUME LogInv, FlushChunk
  PROVE  LogInv'
<1>1. RingInv /\ offset \in 0 .. len
  BY DEF LogInv, TypeOK, RingInv
<1>2. PICK count \in 0 .. len - offset :
        CopyFrom(offset) = [k \in 1 .. count |-> dropped + offset + k - 1]
  BY <1>1, CopyIsTail
<1>3. /\ len \in Nat /\ offset \in Nat /\ offset <= len /\ dropped \in Nat
      /\ count \in Nat /\ count <= len - offset
      /\ written \in Seq(Nat) /\ Len(written) = offset
  BY <1>1, <1>2 DEF LogInv, TypeOK, WrittenInv
<1> DEFINE chunk == [k \in 1 .. count |-> dropped + offset + k - 1]
<1>4. chunk \in Seq(Nat) /\ Len(chunk) = count
  BY <1>3
<1>5. \A k \in 1 .. count : chunk[k] = dropped + offset + k - 1
  OBVIOUS
<1>6. /\ written' = written \o chunk /\ offset' = offset + count
      /\ UNCHANGED <<bytes, start, len, dropped, sink, calls, inFlight, total, late,
                     flush, reported>>
      /\ flush = "reading"
  BY <1>2, <1>4 DEF FlushChunk, Advance, ringVars
<1> HIDE DEF chunk
<1>7. written' \in Seq(Nat) /\ Len(written') = offset' /\ offset' \in 0 .. len'
  <2>1. /\ written \o chunk \in Seq(Nat)
        /\ Len(written \o chunk) = Len(written) + Len(chunk)
    BY <1>3, <1>4
  <2>2. offset + count \in 0 .. len
    BY <1>3
  <2>3. QED
    BY <1>3, <1>4, <1>6, <2>1, <2>2
<1>8. ASSUME NEW k \in 1 .. offset'
      PROVE  /\ k <= offset => k \in 1 .. offset /\ written'[k] = written[k]
             /\ k > offset => written'[k] = dropped + k - 1
  <2>1. /\ k \in Nat /\ 1 <= k /\ k <= offset + count
    BY <1>3, <1>6, <1>8
  <2>2. written'[k] = IF k <= offset THEN written[k] ELSE chunk[k - offset]
    <3>1. k \in 1 .. Len(written) + Len(chunk)
      BY <1>3, <1>4, <2>1
    <3>2. (written \o chunk)[k]
            = IF k <= Len(written) THEN written[k] ELSE chunk[k - Len(written)]
      BY <1>3, <1>4, <3>1
    <3>3. QED
      BY <1>3, <1>6, <3>2, Zenon
  <2>3. k > offset => k - offset \in 1 .. count
    BY <1>3, <2>1
  <2>4. k > offset => dropped + offset + (k - offset) - 1 = dropped + k - 1
    BY <1>3, <2>1
  <2>5. k <= offset => k \in 1 .. offset
    BY <1>3, <2>1
  <2>6. k > offset => ~(k <= offset)
    BY <1>3, <2>1
  <2>7. QED
    BY <1>5, <2>2, <2>3, <2>4, <2>5, <2>6
<1>9. \A k \in 1 .. offset : written[k] \in Nat /\ written[k] < dropped + offset
  BY <1>3 DEF LogInv, WrittenInv
<1>10. WrittenInv'
  <2>1. \A k \in 1 .. offset' : written'[k] < dropped + offset'
    <3>1. ASSUME NEW k \in 1 .. offset' PROVE written'[k] < dropped + offset'
      <4>1. k \in Nat /\ k <= offset + count
        BY <1>3, <1>6, <3>1
      <4>2. CASE k <= offset
        <5>1. /\ written'[k] \in Nat /\ written'[k] < dropped + offset
              /\ offset' = offset + count
          BY <1>6, <1>8, <1>9, <3>1, <4>2
        <5>2. QED
          BY <1>3, <5>1
      <4>3. CASE k > offset
        <5>1. written'[k] = dropped + k - 1 /\ offset' = offset + count
          BY <1>6, <1>8, <3>1, <4>3
        <5>2. QED
          BY <1>3, <4>1, <5>1
      <4>4. QED
        BY <1>3, <4>1, <4>2, <4>3
    <3>2. QED
      BY <3>1
  <2>2. \A j, k \in 1 .. offset' : j < k => written'[j] < written'[k]
    <3>1. ASSUME NEW j \in 1 .. offset', NEW k \in 1 .. offset', j < k
          PROVE  written'[j] < written'[k]
      <4>1. j \in Nat /\ k \in Nat
        BY <1>3, <1>6, <3>1
      <4>2. CASE k <= offset
        <5>1. /\ j \in 1 .. offset /\ k \in 1 .. offset
              /\ written'[j] = written[j] /\ written'[k] = written[k]
          BY <1>3, <1>8, <3>1, <4>1, <4>2
        <5>2. QED
          BY <3>1, <5>1 DEF LogInv, WrittenInv
      <4>3. CASE j <= offset /\ k > offset
        <5>1. /\ j \in 1 .. offset /\ written'[j] = written[j]
              /\ written'[k] = dropped + k - 1
          BY <1>8, <3>1, <4>3
        <5>2. QED
          BY <1>3, <1>9, <4>1, <4>3, <5>1
      <4>4. CASE j > offset
        <5>1. k > offset
          BY <1>3, <3>1, <4>1, <4>4
        <5>2. written'[j] = dropped + j - 1 /\ written'[k] = dropped + k - 1
          BY <1>8, <3>1, <4>4, <5>1
        <5>3. QED
          BY <1>3, <3>1, <4>1, <5>2
      <4>5. QED
        BY <1>3, <4>1, <4>2, <4>3, <4>4
    <3>2. QED
      BY <3>1
  <2>3. late' = FALSE => \A k \in 1 .. offset' : written'[k] = dropped + k - 1
    <3>1. ASSUME late' = FALSE, NEW k \in 1 .. offset'
          PROVE  written'[k] = dropped + k - 1
      <4>1. k \in Nat
        BY <1>3, <1>6, <3>1
      <4>2. CASE k <= offset
        <5>1. k \in 1 .. offset /\ written'[k] = written[k] /\ late = FALSE
          BY <1>6, <1>8, <3>1, <4>2
        <5>2. QED
          BY <5>1 DEF LogInv, WrittenInv
      <4>3. CASE k > offset
        BY <1>8, <3>1, <4>3
      <4>4. QED
        BY <1>3, <4>1, <4>2, <4>3
    <3>2. QED
      BY <3>1
  <2>4. dropped' = dropped
    BY <1>6
  <2>5. QED
    BY <1>7, <2>1, <2>2, <2>3, <2>4 DEF WrittenInv
<1>11. TypeOK'
  BY <1>6, <1>7 DEF LogInv, TypeOK
<1>12. RingIsTail'
  BY <1>6 DEF LogInv, RingIsTail
<1>13. FlushInv'
  BY <1>6 DEF LogInv, FlushInv
<1>14. QED
  BY <1>10, <1>11, <1>12, <1>13 DEF LogInv

LEMMA StepLog == LogInv /\ [Next]_vars => LogInv'
<1> SUFFICES ASSUME LogInv, [Next]_vars PROVE LogInv'
  OBVIOUS
<1>1. CASE FetchSink
  <2>1. calls' \in 0 .. MaxCalls /\ inFlight' \in 0 .. Producers
    BY <1>1, LogNumbers DEF FetchSink, LogInv, TypeOK
  <2>2. UNCHANGED <<ringVars, sink, total, late, flushVars>>
    BY <1>1 DEF FetchSink
  <2>3. QED
    BY <2>1, <2>2
    DEF LogInv, TypeOK, RingIsTail, WrittenInv, FlushInv, ringVars, flushVars
<1>2. CASE LogBuffered
  BY <1>2, PushKeepsWritten
<1>3. CASE FlushBegins
  <2>1. /\ flush = "idle" /\ sink' = "drop" /\ flush' = "reading" /\ offset' = 0
        /\ UNCHANGED <<ringVars, calls, inFlight, total, late, written, reported>>
    BY <1>3 DEF FlushBegins
  <2>2. offset = 0 /\ offset' = offset
    BY <2>1 DEF LogInv, FlushInv
  <2>3. QED
    BY <2>1, <2>2 DEF LogInv, TypeOK, RingIsTail, WrittenInv, FlushInv, ringVars
<1>4. CASE FlushChunk
  BY <1>4, ChunkKeepsOrder
<1>5. CASE FlushEnds
  <2>1. /\ flush = "reading" /\ flush' = "done" /\ reported' = dropped
        /\ UNCHANGED <<ringVars, sink, calls, inFlight, total, late, offset, written>>
    BY <1>5 DEF FlushEnds
  <2>2. QED
    BY <2>1 DEF LogInv, TypeOK, RingIsTail, WrittenInv, FlushInv, ringVars
<1>6. CASE UNCHANGED vars
  BY <1>6
  DEF LogInv, TypeOK, RingIsTail, WrittenInv, FlushInv, vars, ringVars, flushVars
<1>7. QED
  BY <1>1, <1>2, <1>3, <1>4, <1>5, <1>6 DEF Next, Ended

LEMMA LogInvariant == Spec => []LogInv
BY InitLog, StepLog, PTL DEF Spec

\* Every field keeps to its range; above all the flush never reads past the end
\* of the log, so that `self.len - offset` cannot underflow, whatever the tasks
\* that were under way push between two chunks.
THEOREM LogTyped == Spec => []TypeOK
<1>1. LogInv => TypeOK
  BY DEF LogInv
<1>2. QED
  BY <1>1, LogInvariant, PTL

\* flush_vendor_log writes no byte twice and none out of order, for every chunk
\* length and any number of late pushes that move the ring on under it.
THEOREM WrittenInOrder == Spec => []FlushInOrder
<1>1. LogInv => FlushInOrder
  <2>1. LogInv => written \in Seq(Nat)
    BY DEF LogInv, TypeOK
  <2>2. written \in Seq(Nat) => DOMAIN written = 1 .. Len(written)
    OBVIOUS
  <2>3. QED
    BY <2>1, <2>2 DEF LogInv, WrittenInv, FlushInOrder
<1>2. QED
  BY <1>1, LogInvariant, PTL

\* When the end marker is written, the bytes on the UART and the reported number
\* of lost ones add up to all that was logged, and unless a task was late the
\* bytes are exactly those after the lost ones.
THEOREM FlushAccountsForAll == Spec => FlushAccounts
<1> DEFINE Accounts ==
      flush = "reading" /\ flush' = "done" =>
        /\ Len(written) + reported' = total
        /\ ~late => \A k \in DOMAIN written : written[k] = reported' + k - 1
<1>1. LogInv /\ [Next]_vars => [Accounts]_vars
  <2> SUFFICES ASSUME LogInv, [Next]_vars, flush = "reading", flush' = "done"
               PROVE  /\ Len(written) + reported' = total
                      /\ ~late => \A k \in DOMAIN written :
                                    written[k] = reported' + k - 1
    OBVIOUS
  <2>1. FlushEnds
    BY DEF Next, FetchSink, LogBuffered, FlushBegins, FlushChunk, Ended, vars, flushVars
  <2>2. CopyFrom(offset) = <<>> /\ reported' = dropped
    BY <2>1 DEF FlushEnds
  <2>3. /\ RingInv /\ offset \in 0 .. len /\ len \in Nat /\ dropped \in Nat
        /\ total = dropped + len /\ written \in Seq(Nat) /\ Len(written) = offset
        /\ late \in BOOLEAN
    BY DEF LogInv, TypeOK, RingInv, RingIsTail, WrittenInv
  <2>4. PICK count \in 0 .. len - offset :
          /\ CopyFrom(offset) = [k \in 1 .. count |-> dropped + offset + k - 1]
          /\ count = 0 => offset = len
    BY <2>3, CopyIsTail
  <2>5. offset = len
    <3>1. count \in Nat
      BY <2>3, <2>4
    <3>2. Len([k \in 1 .. count |-> dropped + offset + k - 1]) = count
      BY <3>1
    <3>3. count = 0
      BY <2>2, <2>4, <3>2
    <3>4. QED
      BY <2>4, <3>3
  <2>6. Len(written) + reported' = total
    BY <2>2, <2>3, <2>5
  <2>7. DOMAIN written = 1 .. offset
    BY <2>3
  <2>8. ~late => \A k \in DOMAIN written : written[k] = reported' + k - 1
    BY <2>2, <2>3, <2>7 DEF LogInv, WrittenInv
  <2>9. QED
    BY <2>6, <2>8
<1>2. QED
  BY <1>1, LogInvariant, PTL DEF Spec, FlushAccounts

-----------------------------------------------------------------------------
(***************************************************************************)
(* The ring implements the log that keeps the tail                         *)
(***************************************************************************)
\* The contents of a ring of the newest bytes, by their positions.
LEMMA ContentsAreTail ==
  RingInv => Contents = [k \in 1 .. len |-> dropped + k - 1]
<1> SUFFICES ASSUME RingInv, NEW k \in 1 .. len
             PROVE  bytes[(start + k - 1) % Capacity] = dropped + k - 1
  BY DEF Contents
<1>1. /\ k \in Nat /\ 1 <= k /\ k <= len /\ len \in Nat /\ start \in Nat
      /\ dropped \in Nat
  BY LogNumbers DEF RingInv, Slots
<1>2. k - 1 \in 0 .. len - 1
  BY <1>1
<1>3. bytes[(start + (k - 1)) % Capacity] = dropped + (k - 1)
  BY <1>2 DEF RingInv, RingIsTail
<1>4. start + (k - 1) = start + k - 1 /\ dropped + (k - 1) = dropped + k - 1
  BY <1>1
<1>5. QED
  BY <1>3, <1>4

\* A part of a sequence of numbers, as the library states it for every sequence.
LEMMA SubSeqNat ==
  ASSUME NEW s, NEW m \in Int, NEW n \in Int, \A i \in m .. n : s[i] \in Nat
  PROVE  /\ SubSeq(s, m, n) \in Seq(Nat)
         /\ Len(SubSeq(s, m, n)) = IF m <= n THEN n - m + 1 ELSE 0
         /\ \A i \in 1 .. n - m + 1 : SubSeq(s, m, n)[i] = s[m + i - 1]
BY SubSeqProperties

\* Consecutive positions.
LEMMA Positions ==
  ASSUME NEW d \in Nat, NEW l \in Nat
  PROVE  [k \in 1 .. l |-> d + k - 1] \in Seq(Nat) /\ Len([k \in 1 .. l |-> d + k - 1]) = l
OBVIOUS

\* `push` of n bytes, with its wrapping copies and its short cut for an oversized
\* slice, appends n bytes to the tail.
LEMMA PushAppends ==
  ASSUME RingInv, NEW n \in 1 .. MaxAppend, Push(n), total' = total + n
  PROVE  Log!AppendBytes(n)
<1> DEFINE new == [k \in 1 .. n |-> dropped + Len(Contents) + k - 1]
           all == Contents \o new
           excess == IF Len(all) > Capacity THEN Len(all) - Capacity ELSE 0
<1>1. /\ n \in Nat /\ len \in Nat /\ dropped \in Nat /\ Capacity \in Nat
      /\ total \in Nat /\ total = dropped + len
  BY LogNumbers DEF RingInv, RingIsTail
<1>2. RingInv' /\ len' = Least(len + n, Capacity)
  BY <1>1, PushKeepsTail
<1>3. len' \in Nat /\ dropped' \in Nat /\ total + n = dropped' + len'
  BY <1>2, LogNumbers DEF RingInv, RingIsTail
<1>4. Contents = [k \in 1 .. len |-> dropped + k - 1]
  BY ContentsAreTail
<1>5. Contents' = [k \in 1 .. len' |-> dropped' + k - 1]
  <2>1. (RingInv => Contents = [k \in 1 .. len |-> dropped + k - 1])'
    BY ContentsAreTail, PTL
  <2>2. QED
    BY <1>2, <2>1
<1>6. /\ Contents \in Seq(Nat) /\ Len(Contents) = len
      /\ \A k \in 1 .. len : Contents[k] = dropped + k - 1
  BY <1>1, <1>4
<1>7. /\ new \in Seq(Nat) /\ Len(new) = n
      /\ \A k \in 1 .. n : new[k] = dropped + len + k - 1
  BY <1>1, <1>6
<1> HIDE DEF new
<1>8. /\ all \in Seq(Nat) /\ Len(all) = len + n
      /\ \A k \in 1 .. len + n : all[k] = dropped + k - 1
  <2>1. all \in Seq(Nat) /\ Len(all) = len + n
    <3>1. /\ Contents \o new \in Seq(Nat)
          /\ Len(Contents \o new) = Len(Contents) + Len(new)
      BY <1>6, <1>7, ConcatProperties
    <3>2. QED
      BY <1>6, <1>7, <3>1
  <2>2. ASSUME NEW k \in 1 .. len + n
        PROVE  all[k] = dropped + k - 1
    <3>1. k \in Nat /\ 1 <= k /\ k <= len + n
      BY <1>1, <2>2
    <3>2. all[k] = IF k <= len THEN Contents[k] ELSE new[k - len]
      BY <1>1, <1>6, <1>7, <3>1
    <3>3. CASE k <= len
      BY <1>1, <1>6, <3>1, <3>2, <3>3
    <3>4. CASE ~(k <= len)
      <4>1. k - len \in 1 .. n
        BY <1>1, <3>1, <3>4
      <4>2. all[k] = dropped + len + (k - len) - 1
        BY <1>7, <3>2, <3>4, <4>1
      <4>3. QED
        BY <1>1, <3>1, <4>2
    <3>5. QED
      BY <3>3, <3>4
  <2>3. QED
    BY <2>1, <2>2
<1> HIDE DEF all
<1>9. /\ excess \in Nat /\ excess <= len + n /\ len' = len + n - excess
      /\ dropped' = dropped + excess
  <2>1. Len(all) = len + n
    BY <1>8, Zenon
  <2>2. excess = IF len + n > Capacity THEN len + n - Capacity ELSE 0
    BY <1>1, <2>1 DEF excess
  <2>3. len' = IF len + n < Capacity THEN len + n ELSE Capacity
    BY <1>2 DEF Least
  <2> HIDE DEF excess
  <2>4. excess \in Nat /\ excess <= len + n /\ len' = len + n - excess
    BY <1>1, <2>2, <2>3
  <2>5. /\ len' \in Nat /\ dropped' \in Nat /\ len' + excess = len + n
        /\ dropped' + len' = dropped + (len + n)
    <3>1. /\ len' \in Nat /\ dropped' \in Nat
          /\ dropped' + len' = total + n
      BY <1>3
    <3>0. total + n = dropped + (len + n)
      BY <1>1
    <3>2. len' + excess = len + n
      BY <1>1, <2>4
    <3>3. QED
      BY <3>0, <3>1, <3>2, Zenon
  <2>6. dropped' = dropped + excess
    <3>1. dropped' + len' = dropped + (len' + excess)
      BY <2>5, Zenon
    <3>2. dropped \in Nat /\ excess \in Nat /\ len' \in Nat /\ dropped' \in Nat
      BY <1>1, <2>4, <2>5
    <3>3. QED
      BY <3>1, <3>2
  <2>7. QED
    BY <2>4, <2>6
<1> HIDE DEF excess
<1>10. SubSeq(all, excess + 1, Len(all)) = Contents'
  <2> DEFINE first == excess + 1
             last == Len(all)
             tail == SubSeq(all, first, last)
  <2>1. /\ tail \in Seq(Nat) /\ Len(tail) = len'
        /\ \A k \in 1 .. len' : tail[k] = all[first + k - 1]
    <3>1. /\ first \in Int /\ last \in Int /\ last - first + 1 = len'
          /\ first <= last \/ len' = 0
      BY <1>1, <1>8, <1>9
    <3>2. \A i \in first .. last : all[i] \in Nat
      BY <1>1, <1>8, <1>9
    <3> HIDE DEF first, last
    <3>3. /\ SubSeq(all, first, last) \in Seq(Nat)
          /\ Len(SubSeq(all, first, last))
               = IF first <= last THEN last - first + 1 ELSE 0
          /\ \A k \in 1 .. last - first + 1 :
               SubSeq(all, first, last)[k] = all[first + k - 1]
      BY <3>1, <3>2, SubSeqNat
    <3>4. QED
      BY <3>1, <3>3
  <2>2. ASSUME NEW k \in 1 .. len'
        PROVE  all[excess + 1 + k - 1] = dropped' + k - 1
    <3>1. /\ k \in Nat /\ excess + 1 + k - 1 \in 1 .. len + n
          /\ dropped + (excess + 1 + k - 1) - 1 = dropped' + k - 1
      BY <1>1, <1>3, <1>9, <2>2
    <3>2. QED
      BY <1>8, <3>1
  <2> HIDE DEF tail
  <2> DEFINE positions == [k \in 1 .. len' |-> dropped' + k - 1]
  <2>3. positions \in Seq(Nat) /\ Len(positions) = len'
    BY <1>3, Positions
  <2>4. \A k \in 1 .. len' : tail[k] = positions[k]
    BY <2>1, <2>2
  <2> HIDE DEF positions
  <2>5. tail = positions
    BY <2>1, <2>3, <2>4, SeqEqual
  <2>6. QED
    BY <1>5, <2>5 DEF tail, positions
<1>11. QED
  BY <1>9, <1>10 DEF Log!AppendBytes, new, all, excess

\* The ring of VendorLogBuffer implements the log that keeps the newest bytes and
\* counts the others: every push of any length is one append, and the flush
\* changes nothing of it.
THEOREM RingRefinesTail == Spec => TailRefined
<1>1. Init => Log!TailInit
  <2> SUFFICES ASSUME Init PROVE Contents = <<>> /\ dropped = 0
    BY DEF Log!TailInit
  <2>1. dropped = 0 /\ len = 0
    BY DEF Init
  <2>2. Contents = <<>>
    BY <2>1 DEF Contents
  <2>3. QED
    BY <2>1, <2>2
<1>2. LogInv /\ [Next]_vars => [Log!TailNext]_Log!tailVars
  <2> SUFFICES ASSUME LogInv, [Next]_vars PROVE [Log!TailNext]_Log!tailVars
    OBVIOUS
  <2>1. RingInv
    BY DEF LogInv, TypeOK, RingInv
  <2>2. CASE LogBuffered
    <3>1. PICK n \in 1 .. MaxAppend : Push(n) /\ total' = total + n
      BY <2>2 DEF LogBuffered
    <3>2. Log!AppendBytes(n)
      BY <2>1, <3>1, PushAppends
    <3>3. QED
      BY <3>2 DEF Log!TailNext
  <2>3. CASE UNCHANGED ringVars
    BY <2>3 DEF ringVars, Log!tailVars, Contents
  <2>4. QED
    BY <2>2, <2>3
    DEF Next, FetchSink, FlushBegins, FlushChunk, FlushEnds, Ended, vars
<1>3. QED
  BY <1>1, <1>2, LogInvariant, PTL DEF Spec, TailRefined, Log!TailSpec
=============================================================================
