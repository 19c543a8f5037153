SPECIFICATION FairSpec
CONSTANTS
  Node = {"client", "proxy", "up1", "file"}
  Peer <- MCPeer
  MaxLoss = 0
  MaxChunks = 2
  Clients = {FALSE}
CHECK_DEADLOCK FALSE
INVARIANTS SavedIsPrefix
