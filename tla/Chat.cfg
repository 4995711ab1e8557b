SPECIFICATION FairSpec
CONSTANTS
  t1 = t1
  t2 = t2
  conv1 = conv1
  model = model
  peer = peer
  odd = odd
  rounded = rounded
  Nothing = Nothing
  Turns = {t1, t2}
  Convs = {conv1}
  Old = {}
  Models = {model}
  Peers = {peer, odd}
  AsNumber <- MCAsNumber
  Visits = 2
  MaxTokens <- MCMaxTokens
INVARIANTS
  ReplyIsOwn
  ReplyIsKept
  NoOrphans
PROPERTIES
  TurnsEnd
CHECK_DEADLOCK FALSE
