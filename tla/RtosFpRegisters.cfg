CONSTANTS
  Tasks = {"main", "worker0", "worker1"}
  Idle = Idle
  Registers = {"ft0", "other"}
  LoopTicks = 2
  FirstSleep = 2
  MainSleep = 10
  MaxCount = 2
SPECIFICATION Spec
INVARIANT AllRegistersKept
CHECK_DEADLOCK FALSE
