CONSTANTS
  o1 = o1
  o2 = o2
  NoOwner = NoOwner
  Owners = {o1}
  Jobs = {1, 2, 3}
  VT <- Ones
  HBT <- Ones
  SweepGap = 1
  PresenceGrace = 1
  MinTick = 1
  MaxSeq = 1
  MaxWant = 2
  MaxCalls = 1
  MaxCopies = 1
  MaxAckCopies = 1
  MaxPrepared = 1
  MaxTime = 2
  PopUntil = 2
  Consumers = {o1}
  Mortal = {}
  Uses = {"reject", "dequeue", "prepare", "remove", "purge", "requeue", "pause"}
  Prompt = FALSE
SPECIFICATION Spec
INVARIANTS NewJobsInOrder
PROPERTIES PauseHolds KeepsPromise
