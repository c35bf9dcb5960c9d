CONSTANTS
  Tasks = {"main", "low", "medium", "high", "worker", "worker0", "worker1",
           "timeout", "irq", "resource", "replacement"}
  Idle = Idle
  MutexDelay = 1
  MaxLoops = 2
  Registers = {"ft0", "other"}
  LoopTicks = 2
  FirstSleep = 2
  MainSleep = 10
  MaxCount = 2
  Budget = 5
  Period = 20
  Handoff = 20
  Duration = 140
  MinExhaustions = 4
  MinReplenishments = 3
  Lag = 1
  MaxTime = 200
  WaitDelay = 2
  WaitTicks = 3
  SleepTicks = 20
SPECIFICATION Spec
PROPERTIES
  InheritanceVerdict
  PreemptionVerdict
  BudgetVerdict
  StressVerdict
CHECK_DEADLOCK FALSE
