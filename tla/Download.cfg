SPECIFICATION FairSpec
CONSTANTS
  c1 = c1
  c2 = c2
  c3 = c3
  u1 = u1
  u2 = u2
  Calls = {c1, c2, c3}
  Urls = {u1, u2}
  Url <- MCUrl
  Size <- MCSize
  Checked = {c3}
  StreamRetries = 1
  Overlap = FALSE
  MaxCrashes = 1
  NoFile = NoFile
  NoMeta = NoMeta
  NoCall = NoCall
  Unknown = Unknown
  Hole = Hole
PROPERTIES
  FullLength
  PromotedIsSource
  EveryCallEnds
CHECK_DEADLOCK FALSE
