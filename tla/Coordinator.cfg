SPECIFICATION MCSpec
CONSTANTS
  n1 = n1
  n2 = n2
  low = low
  high = high
  Nodes = {n1, n2}
  Tasks = {1, 2}
  Receipts <- MCReceipts
  Worker <- MCWorker
  Client <- MCClient
  Tokens <- MCTokens
  Key <- MCKey
  HighTokens = 1
  MaxTokens = 2
  SignalCap = 2
  StaleTicks = 1
  MaxSignals <- MCMaxSignals
  NoNode = NoNode
  NoReceipt = NoReceipt
  Peers <- MCPeers
  Instances <- MCInstances
  Callers = {c1, c2}
  Requesters = {1}
  MaxRequests = 1
  CountModulus = 4
  MaxSize = 4
  MinPeer = 4
  MinDrafter = 1
  MinCapacity = 6
  MaxDepth = 4
  Least = 2
  MinSwarm = 2
  Sizes <- MCSizes
  LayerCounts <- MCLayerCounts
  Protocols = {"openai", "anthropic", "gemini", "cohere"}
  Conversations <- MCConversations
  Replies <- MCReplies
  MaxTexts = 3
  MaxOthers = 1
INVARIANTS
  SignalsInOrderOnce
  PaidOnceUnlessOverlapped
  OneLeaderAllLayers
  CountedRequests
  EndedIsWhole
  AskedIsConversation
PROPERTIES
  PruneSparesFresh
  HandlersReturn
  ActiveOrDisbanded
