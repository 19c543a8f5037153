SPECIFICATION TurnFairSpec
CONSTANTS
  Node = {"client", "server"}
  Peer <- MCPeer
  MaxLoss = 2
  NumChunks = 4
CHECK_DEADLOCK FALSE
INVARIANTS SavedIsPrefix ReceivesPosted QueuesFitInTurn
PROPERTIES BufferStable SendBuffersHeld TransferSpec PushOutcome
