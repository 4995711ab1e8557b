SPECIFICATION SwarmSpec
CONSTANTS
  Peers <- MCPeers
  Instances <- MCInstances
  Callers = {c1, c2}
  Requesters = {1}
  MaxRequests = 1
  CountModulus = 4
  MaxSize = 4
  MinPeer = 4
  MinDrafter = 1
  MinCapacity = 6
  MaxDepth = 4
  Least = 2
  MinSwarm = 2
  Sizes <- MCSizes
  LayerCounts <- MCLayerCounts
SYMMETRY Symmetric
INVARIANT StagesReachLeast
