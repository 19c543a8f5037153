SPECIFICATION FairSpec
CONSTANTS
  Node = {"client", "file"}
  Peer <- MCPeer
  MaxLoss = 1
  MaxChunks = 3
  Clients = {TRUE, FALSE}
CHECK_DEADLOCK FALSE
INVARIANT OneBlockMore
PROPERTIES TransferSpec ReadOutcome
