CONSTANTS
  h1 = h1
  p1 = p1
  p2 = p2
  NoOwner = NoOwner
  Owners = {h1, p1, p2}
  Holders = {h1}
  Jobs = {1}
  VT <- NoVT
  HBT <- MinHeartbeat
  SweepGap = 4
  PresenceGrace = 5
  MinTick = 1
  Period = 2
  Stalls = {3, 4}
  LastEvent = 6
  MaxTime = 12
SYMMETRY PeerSymmetry
SPECIFICATION Spec
INVARIANTS LiveKeepsJobs
