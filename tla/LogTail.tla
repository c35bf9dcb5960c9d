------------------------------ MODULE LogTail ------------------------------
(***************************************************************************)
(* What a bounded log promises: it keeps the newest Capacity bytes of all  *)
(* that was appended, in order, and counts the bytes it gave up.  A byte is*)
(* known by its position in all that was ever appended.                    *)
(***************************************************************************)
EXTENDS Integers, Sequences

CONSTANTS Capacity,  \* bytes the log has room for
          MaxAppend  \* bound: bytes of one append

VARIABLES kept,      \* the bytes kept, oldest first
          given      \* the number of bytes given up

tailVars == <<kept, given>>

TailInit == kept = <<>> /\ given = 0

\* The oldest bytes give way to n new ones.
AppendBytes(n) ==
  LET all == kept \o [k \in 1 .. n |-> given + Len(kept) + k - 1]
      excess == IF Len(all) > Capacity THEN Len(all) - Capacity ELSE 0
  IN  /\ kept' = SubSeq(all, excess + 1, Len(all))
      /\ given' = given + excess

TailNext == \E n \in 1 .. MaxAppend : AppendBytes(n)
TailSpec == TailInit /\ [][TailNext]_tailVars
=============================================================================
