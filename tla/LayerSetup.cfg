SPECIFICATION FairSpec
CONSTANTS
  s1 = s1
  s2 = s2
  w1 = w1
  w2 = w2
  w3 = w3
  Sessions = {s1, s2}
  Workers = {w1, w2, w3}
  Pipelining = {w1, w2}
  Plan <- MCPlan
  NoSession = NoSession
  MaxReleases <- MCMaxReleases
  Fragile = {w2}
INVARIANTS ReadyIsLoaded LostOnlyByOverwriting
PROPERTIES UndisturbedSetupEnds
CHECK_DEADLOCK FALSE
