CONSTANTS
  o1 = o1
  o2 = o2
  NoOwner = NoOwner
  Owners = {o1}
  Jobs = {1, 2}
  VT <- Ones
  HBT <- Ones
  SweepGap = 1
  PresenceGrace = 1
  MinTick = 1
  MaxSeq = 3
  MaxWant = 2
  MaxCalls = 2
  MaxCopies = 2
  MaxAckCopies = 1
  MaxPrepared = 0
  MaxTime = 2
  PopUntil = 2
  Consumers = {o1}
  Mortal = {}
  Uses = {"putback"}
  Prompt = TRUE
SPECIFICATION Spec
INVARIANTS HandedOutOnce FinishedWasAcked
