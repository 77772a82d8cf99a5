CONSTANTS
  c1 = c1
  c2 = c2
  c3 = c3
  Consumers = {c1, c2}
  MaxPushes = 2
  Uses = {"len", "dequeue", "sweep", "close", "crash", "pause"}
SYMMETRY ConsumerSymmetry
SPECIFICATION Spec
INVARIANTS TypeOK WakeOwed
