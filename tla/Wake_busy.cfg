CONSTANTS
  c1 = c1
  c2 = c2
  c3 = c3
  Consumers = {c1, c2}
  MaxPushes = 1
  Uses = {"nudge"}
SPECIFICATION Spec
INVARIANTS BusyNotIdle
