CONSTANTS
  e1 = e1
  e2 = e2
  q1 = q1
  q2 = q2
  NoEnv = NoEnv
  Jobs = {1, 2, 3}
  Priorities = {1, 2}
  Envs = {e1, e2}
  EnvOf <- Shared
  Objects = {q1, q2}
  Setters = {q1}
  TrimMax = 1
  MaxKeep = 2
  MaxRare = 1
  MaxCalls = 2
  MaxWant = 2
  MaxHandOuts = 2
SPECIFICATION LiveSpec
INVARIANTS TypeOK NoLeftovers StatsAddUp RecordsTrimmable AttemptsTold
PROPERTIES ServedInTurn Retained
