CONSTANTS
  Askers = {"sweep"}
  MaxCalls = 1
  MaxRemote = 1
  MaxFaults = 1
SPECIFICATION LiveSpec
INVARIANTS TypeOK HookOwed QuietAgrees
PROPERTIES Converges
