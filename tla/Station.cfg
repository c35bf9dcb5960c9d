CONSTANT EventCap = 3
SPECIFICATION Spec
INVARIANT TypeOK
INVARIANT SessionEventsCurrent
INVARIANT OnlyStraysUnexpected
PROPERTY EveryWaitEnds
PROPERTY LossNoticed
