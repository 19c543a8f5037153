SPECIFICATION FairSpec
CONSTANTS
  Node = {"client", "proxy", "up1", "file"}
  Peer <- MCPeer
  MaxLoss = 1
  MaxChunks = 3
  Clients = {FALSE}
CHECK_DEADLOCK FALSE
INVARIANTS TypeOK OneDestination
PROPERTIES ReadOutcome
