SPECIFICATION FairCommandsSpec
CONSTANTS
  c1 = c1
  c2 = c2
  c3 = c3
  self = self
  m = m
  g = g
  Calls = {c1, c2, c3, self}
  Main = self
  Local = {m}
  Cloud = {g}
  Key = TRUE
  Asks <- MCAsks
  Attempts = 2
  MaxTurns = 2
  MaxPeers = 2
  MaxTokens = 2
  Cap = 1
  NoName = NoName
  NoCall = NoCall
  NoEngine = NoEngine
INVARIANTS
  ListedIsServed
PROPERTIES
  AnswerIsWhole
  
