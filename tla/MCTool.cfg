CONSTANTS
  d1 = d1
  d2 = d2
  Node = {a}
  Domain = {d1, d2}
  NoName = NoName
  Pid = {p}
  Address = {ip}
  Option <- MCOption
  Described <- MCDescribed
  NoLetter = NoLetter
  None = None
  LenMod = 3
  Garbage = Garbage
  Typed <- MCTyped
  Answers <- MCAnswers
  OtherCalls = {"define", "peer-save-domain", "connect-peer", "start", "destroy", "undefine"}
  Copied = {d1}
  NoMessage = NoMessage
SPECIFICATION MCSpec
INVARIANTS
  MeansWhatItSays
  HandlerGetsWhatWasTyped
  SaidIsTheAnswer
  ReadersAgree
PROPERTIES
  
  ListKeepsPromise
CHECK_DEADLOCK FALSE
