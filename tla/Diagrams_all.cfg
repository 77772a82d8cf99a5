CONSTANTS
  Sec = 10000
  Limit = 2
  IdleFirst = 1
  ExitIn = 3500
  Moments = {500, 1000, 3000, 4000, 6500, 7000, 11000}
  MaxJobs = 3
  AckScenarios <- MCAckScenarios
  WakeScenarios <- MCWakeScenarios
  CloseScenarios <- MCCloseScenarios
  DeadScenarios <- MCDeadScenarios
SPECIFICATION GenSpec
INVARIANTS
  OneJobEach WorkShown CountsShown
  SquaresMoveInOrder AckDeadlinesTold WakeServes WakeIdleTold
  CloseClosedLetsGo CloseShown DeadDeadInTime DeadLiveKept DeadShown
PROPERTIES KeepsJobs
CHECK_DEADLOCK FALSE
