CONSTANTS
  o1 = o1
  o2 = o2
  NoOwner = NoOwner
  Owners = {o1, o2}
  Jobs = {1, 2}
  VT <- Twos
  HBT <- Ones
  SweepGap = 1
  PresenceGrace = 1
  MinTick = 1
  MaxSeq = 1
  MaxWant = 2
  MaxCalls = 1
  MaxCopies = 2
  MaxAckCopies = 1
  MaxPrepared = 0
  MaxTime = 4
  PopUntil = 2
  Consumers = {o1}
  Mortal = {o1}
  Uses = {"close", "crash", "disconnect"}
  Prompt = FALSE
SPECIFICATION LiveSpec
INVARIANTS TypeOK Conserved Recoverable
PROPERTIES Unstuck
