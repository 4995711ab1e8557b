SPECIFICATION FairSpec
CONSTANTS
  p = p
  q = q
  z = z
  Peers = {p, q, z}
  Banned = {z}
  Reach <- MCReach
  NoPeer = NoPeer
INVARIANTS
  QuietStopIsFinal
PROPERTIES
  QuietStopStaysUnlisted
  MaintenanceEnds
  RecoversListing
