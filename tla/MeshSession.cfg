SPECIFICATION FairSpec
CONSTANTS
  s1 = s1
  s2 = s2
  t1 = t1
  t2 = t2
  w1 = w1
  k = k
  Sessions = {s1, s2, t1, t2}
  Turns = {t1, t2}
  Workers = {w1, k}
  Dialled = {w1}
  Contributors = {k}
  Nobody = Nobody
  Target <- MCTarget
  MaxTokens <- MCMaxTokens
INVARIANTS
  UndisturbedIsWhole
PROPERTIES
  IsTokenStream
  UndisturbedEnds
  ContributorIsListed
CHECK_DEADLOCK FALSE
