CONSTANTS
  Capacity = 4
  ChunkSize = 2
  MaxAppend = 6
  MaxCalls = 4
  Producers = 2
SPECIFICATION Spec
INVARIANT TypeOK
INVARIANT RingIsTail
INVARIANT FlushInOrder
PROPERTY TailRefined
PROPERTY FlushAccounts
