CONSTANTS
  c1 = c1
  c2 = c2
  c3 = c3
  Consumers = {c1, c2}
  MaxPushes = 1
  Uses = {"nudge", "manual", "reconnect", "dequeue", "crash"}
SPECIFICATION LiveSpec
PROPERTIES Served
CHECK_DEADLOCK FALSE
