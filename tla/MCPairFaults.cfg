CONSTANTS
  a = a
  b = b
  Node = {a, b}
  Peer <- MCPeer
  Domain = {d}
  Pid = {p1, p2}
  NoName = NoName
  ConfigRole = {"primary", "secondary"}
  MaxCommands = 3
  MaxBadConfigs = 0
  MaxConnects = 0
  MaxTimeouts = 1
  MaxCrashes = 1
  MaxProcessSteps = 1
  Enabled = TRUE
SPECIFICATION MCSpec
SYMMETRY Symmetry
INVARIANTS
  PairTypeOK
  KillTarget
  CheckedWhenUsed
  EnabledIsSaved
  SecondCallSafe
PROPERTIES
  PairVmStaysRecorded
CHECK_DEADLOCK FALSE
