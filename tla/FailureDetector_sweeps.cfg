CONSTANTS
  h1 = h1
  p1 = p1
  p2 = p2
  NoOwner = NoOwner
  Owners = {h1, p1}
  Holders = {h1}
  Jobs = {1}
  VT <- NoVT
  HBT <- MinHeartbeatFine
  SweepGap = 8
  PresenceGrace = 10
  MinTick = 2
  Period = 4
  Stalls = {4, 10}
  LastEvent = 11
  MaxTime = 41
SPECIFICATION Spec
INVARIANTS TypeOK RecoveredInTime NoStaleMarks LiveKeepsJobs
