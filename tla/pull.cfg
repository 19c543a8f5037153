SPECIFICATION FairSpec
CONSTANTS
  Node = {"client", "server"}
  Peer <- MCPeer
  MaxLoss = 2
  NumChunks = 4
CHECK_DEADLOCK FALSE
INVARIANTS TypeOK DropsOnlyAtStart
PROPERTIES BuffersSafe TransferSpec PullOutcome
