CONSTANTS
  Node = {a}
  Domain = {d1, d2}
  Pid = {p1, p2, p3}
  NoName = NoName
SPECIFICATION HostSpec
SYMMETRY Symmetry
INVARIANTS
  HostTypeOK
  KillTarget
  RegistryMatchesFile
PROPERTIES
  NoForeignKill
  VmStaysRecorded
