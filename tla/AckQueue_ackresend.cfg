CONSTANTS
  o1 = o1
  o2 = o2
  NoOwner = NoOwner
  Owners = {o1}
  Jobs = {1, 2}
  VT <- Ones
  HBT <- Ones
  SweepGap = 1
  PresenceGrace = 1
  MinTick = 1
  MaxSeq = 1
  MaxWant = 1
  MaxCalls = 1
  MaxCopies = 2
  MaxAckCopies = 2
  MaxPrepared = 0
  MaxTime = 1
  PopUntil = 1
  Consumers = {o1}
  Mortal = {}
  Uses = {}
  Prompt = TRUE
SPECIFICATION Spec
INVARIANTS FinishedWasAcked
