CONSTANTS
  a = a
  b = b
  Node = {a, b}
  Peer <- MCPeer
  Domain = {d}
  Pid = {p1, p2}
  NoName = NoName
  ConfigRole = {"primary"}
  MaxCommands = 3
  MaxBadConfigs = 0
  MaxConnects = 1
  MaxTimeouts = 0
  MaxCrashes = 1
  MaxProcessSteps = 0
  Enabled = TRUE
SPECIFICATION MCSpec
SYMMETRY Symmetry
INVARIANTS
  KillTarget
  RegistryMatchesFile
  EnabledIsSaved
CHECK_DEADLOCK FALSE
