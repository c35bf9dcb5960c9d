----------------------------- MODULE VendorLog -----------------------------
(***************************************************************************)
(* The vendor log of the smoke test (wifi_init_smoke/src/main.rs): a ring  *)
(* of bytes that the callbacks of the vendor's tasks fill, each in one     *)
(* critical section, and that flush_vendor_log writes to the UART chunk by *)
(* chunk, after it has replaced the callback, with one critical section    *)
(* for each chunk.                                                         *)
(*                                                                         *)
(* The byte at position i of all that was logged is the number i, so the   *)
(* contents of the ring say which bytes it holds.  External: how the radio *)
(* library calls its log callback.  A task that fetched the callback before*)
(* it was replaced may still be on its way into rf_log_buffered.           *)
(***************************************************************************)
EXTENDS Integers, Sequences

CONSTANTS
  Capacity,   \* VENDOR_LOG_CAPACITY
  ChunkSize,  \* length of the flush's chunk
  MaxAppend,  \* bound: bytes of one call
  MaxCalls,   \* bound: calls of the callback
  Producers   \* tasks that may be inside a log call at the same time

ASSUME LogAssumption ==
  {Capacity, ChunkSize, MaxAppend, MaxCalls, Producers} \subseteq Nat \ {0}

VARIABLES
  bytes, start, len, dropped,  \* the fields of VendorLogBuffer
  sink,      \* the callback: "buffered" or "drop"
  calls,     \* history: calls of the callback so far
  inFlight,  \* tasks that fetched rf_log_buffered and have still to push
  total,     \* history: bytes pushed
  late,      \* history: a task pushed after the callback was replaced
  flush,     \* "idle", "reading" or "done" (`flushed`)
  offset,    \* offset of the flush
  written,   \* the bytes written to the UART
  reported   \* the `dropped` that the end marker reports

ringVars == <<bytes, start, len, dropped>>
flushVars == <<flush, offset, written, reported>>
vars == <<ringVars, sink, calls, inFlight, total, late, flushVars>>

Slots == 0 .. Capacity - 1

Least(a, b) == IF a < b THEN a ELSE b
SaturatingSub(a, b) == IF a > b THEN a - b ELSE 0

-----------------------------------------------------------------------------
(***************************************************************************)
(* VendorLogBuffer                                                         *)
(***************************************************************************)
\* The two copies of `count` bytes, the first of them at position `from` of
\* the log, into the ring at `end`: up to its end and on from its start.
Copied(from, count, end) ==
  LET first == Least(count, Capacity - end) IN
  [i \in Slots |->
     IF end <= i /\ i < end + first THEN from + (i - end)
     ELSE IF i < count - first THEN from + first + i
     ELSE bytes[i]]

\* Variant: the overflow is taken off `len`, and `start` stays.
StoreUnmoved(from, count, s, l, d) ==
  LET overflow == SaturatingSub(l + count, Capacity) IN
  /\ start' = s
  /\ len' = l - overflow + count
  /\ dropped' = d + overflow
  /\ bytes' = Copied(from, count, (s + l - overflow) % Capacity)

\* The rest of `push`, for a slice that fits: the oldest bytes give way.
Store(from, count, s, l, d) ==
  LET overflow == SaturatingSub(l + count, Capacity)
      rotated == (s + overflow) % Capacity
  IN  /\ start' = rotated
      /\ len' = l - overflow + count
      /\ dropped' = d + overflow
      /\ bytes' = Copied(from, count, (rotated + l - overflow) % Capacity)

\* Variant: an oversized call empties the ring and does not count what it held.
PushUncounted(n) ==
  IF n >= Capacity
  THEN Store(total + n - Capacity, Capacity, 0, 0, dropped + n - Capacity)
  ELSE Store(total, n, start, len, dropped)

\* `push` of n bytes: of a slice that fills the ring only the end is kept.
Push(n) ==
  IF n >= Capacity
  THEN Store(total + n - Capacity, Capacity, 0, 0, dropped + len + n - Capacity)
  ELSE Store(total, n, start, len, dropped)

\* Variant: the copy starts at the offset, wherever the log starts.
CopyFromSlot(from) ==
  LET count == Least(len - from, ChunkSize)
      source == from % Capacity
      first == Least(count, Capacity - source)
  IN  [k \in 1 .. count |->
         IF k <= first THEN bytes[source + k - 1] ELSE bytes[k - first - 1]]

\* copy_from: what it copies to the chunk, from `from` on.
CopyFrom(from) ==
  LET count == Least(len - from, ChunkSize)
      source == (start + from) % Capacity
      first == Least(count, Capacity - source)
  IN  [k \in 1 .. count |->
         IF k <= first THEN bytes[source + k - 1] ELSE bytes[k - first - 1]]

-----------------------------------------------------------------------------
(***************************************************************************)
(* The tasks and the flush                                                 *)
(***************************************************************************)
\* External: a task logs something and fetches the callback.
FetchSink ==
  /\ sink = "buffered"
  /\ calls < MaxCalls /\ inFlight < Producers
  /\ calls' = calls + 1
  /\ inFlight' = inFlight + 1
  /\ UNCHANGED <<ringVars, sink, total, late, flushVars>>

\* rf_log_buffered.
LogBuffered ==
  /\ inFlight > 0
  /\ inFlight' = inFlight - 1
  /\ \E n \in 1 .. MaxAppend :
       /\ Push(n)
       /\ total' = total + n
  /\ late' = (late \/ sink = "drop")
  /\ UNCHANGED <<sink, calls, flushVars>>

\* flush_vendor_log replaces the callback.
FlushBegins ==
  /\ flush = "idle"
  /\ sink' = "drop"
  /\ flush' = "reading"
  /\ offset' = 0
  /\ UNCHANGED <<ringVars, calls, inFlight, total, late, written, reported>>

\* Variants: the offset advances by a whole chunk, or to the last byte copied.
AdvanceByChunk(chunk) == offset' = offset + ChunkSize
AdvanceToLast(chunk) == offset' = offset + Len(chunk) - 1

Advance(chunk) == offset' = offset + Len(chunk)

FlushChunk ==
  /\ flush = "reading"
  /\ CopyFrom(offset) # <<>>
  /\ written' = written \o CopyFrom(offset)
  /\ Advance(CopyFrom(offset))
  /\ UNCHANGED <<ringVars, sink, calls, inFlight, total, late, flush, reported>>

\* Nothing is left to copy: the end marker.
FlushEnds ==
  /\ flush = "reading"
  /\ CopyFrom(offset) = <<>>
  /\ flush' = "done"
  /\ reported' = dropped
  /\ UNCHANGED <<ringVars, sink, calls, inFlight, total, late, offset, written>>

\* Everything was logged and flushed.
Ended ==
  /\ flush = "done" /\ inFlight = 0
  /\ UNCHANGED vars

-----------------------------------------------------------------------------
Init ==
  /\ bytes = [i \in Slots |-> 0] /\ start = 0 /\ len = 0 /\ dropped = 0
  /\ sink = "buffered" /\ calls = 0 /\ inFlight = 0
  /\ total = 0 /\ late = FALSE
  /\ flush = "idle" /\ offset = 0 /\ written = <<>> /\ reported = 0

Next == FetchSink \/ LogBuffered \/ FlushBegins \/ FlushChunk \/ FlushEnds \/ Ended

Spec == Init /\ [][Next]_vars

-----------------------------------------------------------------------------
(***************************************************************************)
(* Properties                                                              *)
(***************************************************************************)
\* Every variable keeps to its range; the flush never reads past the end of
\* the log, so `self.len - offset` cannot underflow.
TypeOK ==
  /\ bytes \in [Slots -> Nat] /\ start \in Slots /\ len \in 0 .. Capacity
  /\ dropped \in Nat /\ total \in Nat
  /\ sink \in {"buffered", "drop"}
  /\ calls \in 0 .. MaxCalls /\ inFlight \in 0 .. Producers /\ late \in BOOLEAN
  /\ flush \in {"idle", "reading", "done"}
  /\ offset \in 0 .. len
  /\ written \in Seq(Nat) /\ reported \in Nat

\* The ring holds the newest bytes of all that was logged, in order, and
\* `dropped` is the number of those before them: over every mixture of short,
\* wrapping and oversized calls.
RingIsTail ==
  /\ total = dropped + len
  /\ \A i \in 0 .. len - 1 : bytes[(start + i) % Capacity] = dropped + i

\* The ring implements a log that keeps the tail.
Contents == [k \in 1 .. len |-> bytes[(start + k - 1) % Capacity]]
Log == INSTANCE LogTail WITH kept <- Contents, given <- dropped
TailRefined == Log!TailSpec

\* The flush writes no byte twice and none out of order, even if a task that
\* had fetched the callback still pushes between two chunks.
FlushInOrder ==
  \A j, k \in DOMAIN written : j < k => written[j] < written[k]

\* The flush accounts for all that was logged when its end marker is written:
\* the bytes it wrote and those it reports dropped add up, and unless a task
\* pushed late they are exactly the tail and what came before it.
FlushAccounts ==
  [][flush = "reading" /\ flush' = "done" =>
       /\ Len(written) + reported' = total
       /\ ~late => \A k \in DOMAIN written : written[k] = reported' + k - 1]_vars
=============================================================================
