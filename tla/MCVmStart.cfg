SPECIFICATION MCSpec
CONSTANTS
  a = a
  b = b
  Localhost = Localhost
  Node = {a, b}
  Document <- MCDocument
  Peer <- MCPeer
  MaxEvents = 1
  MaxCommands = 1
  MaxDeaths = 1
INVARIANTS
  MissingIsRefused
  ChannelsMeet
  MirrorAfterExport
  AnsweredWhenGiven
PROPERTIES
  FailoverTakesApart
  StartReturns
CHECK_DEADLOCK FALSE
