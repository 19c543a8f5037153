SPECIFICATION FairSpec
CONSTANTS
  Node = {"client", "proxy", "up1", "meta", "up2", "file"}
  Peer <- MCPeer
  MaxLoss = 1
  MaxChunks = 3
  Clients = {TRUE, FALSE}
CHECK_DEADLOCK FALSE
INVARIANTS TypeOK DropsOnlyAtClient RelayedWhole
PROPERTIES BuffersSafe TransferSpec ReadOutcome
