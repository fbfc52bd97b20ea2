CONSTANTS
  a = a
  b = b
  Node = {a, b}
  Peer <- MCPeer
  Domain = {d}
  Pid = {p1, p2}
  NoName = NoName
  ConfigRole = {"primary", "secondary"}
  MaxCommands = 5
  MaxBadConfigs = 0
  MaxConnects = 2
  MaxTimeouts = 0
  MaxCrashes = 0
  MaxProcessSteps = 1
  Enabled = FALSE
SPECIFICATION MCSpec
SYMMETRY Symmetry
INVARIANTS
  RolesOpposite
  DomainRolesOpposite
PROPERTIES
  PeerVmFirst
CHECK_DEADLOCK FALSE
