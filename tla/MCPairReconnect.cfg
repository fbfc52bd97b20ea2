CONSTANTS
  a = a
  b = b
  Node = {a, b}
  Peer <- MCPeer
  Domain = {d}
  Pid = {p1, p2}
  NoName = NoName
  ConfigRole = {"primary"}
  MaxCommands = 2
  MaxBadConfigs = 0
  MaxConnects = 1
  MaxTimeouts = 1
  MaxCrashes = 0
  MaxProcessSteps = 0
  Enabled = TRUE
SPECIFICATION MCSpec
SYMMETRY Symmetry
INVARIANTS
  ConnectPeerSafe
CHECK_DEADLOCK FALSE
