CONSTANTS
  a = a
  b = b
  Node = {a, b}
  Peer <- MCPeer
  Call = {c1, c2}
  NoCall = NoCall
  MaxCalls = 4
  MaxSockets = 3
  MaxCrashes = 1
SPECIFICATION MCFairSpec
INVARIANTS
  RpcTypeOK
  SendReady
  OneOutstanding
  AnswerMatches
PROPERTIES
  CallReturns
  RequestTaken
CHECK_DEADLOCK FALSE
