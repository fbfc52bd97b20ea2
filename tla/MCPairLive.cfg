CONSTANTS
  a = a
  b = b
  Node = {a, b}
  Peer <- MCPeer
  Domain = {d}
  Pid = {p1, p2}
  NoName = NoName
  ConfigRole = {"secondary"}
  MaxCommands = 2
  MaxBadConfigs = 1
  MaxConnects = 1
  MaxTimeouts = 4
  MaxCrashes = 0
  MaxProcessSteps = 0
  Enabled = TRUE
SPECIFICATION MCFairSpec
PROPERTIES
  TaskEnds
CHECK_DEADLOCK FALSE
