SPECIFICATION FairSpec
CONSTANTS
  s1 = s1
  s2 = s2
  w1 = w1
  w2 = w2
  n1 = n1
  n2 = n2
  Sessions = {s1, s2}
  Workers = {w1, w2}
  Home <- MCHome
  Plan <- MCPlan
  MaxTokens <- MCMaxTokens
  Interval = 1
  StoreSize = 2
  Fragile = {w2}
  NoStage = NoStage
INVARIANTS
  UndisturbedIsComputed
PROPERTIES
  UndisturbedPipelineEnds
CHECK_DEADLOCK FALSE
