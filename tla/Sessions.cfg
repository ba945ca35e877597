SPECIFICATION Spec
CONSTANTS
  ClientLogCap = 3
  QueueCap = 4
  LogCap = 2
  ClOrdIDs <- MCTwoOrders
  AliasOrders = {1}
  NumConns = 2
  ResetFlags = {FALSE}
  Overlap = FALSE
  Troubles <- MCTroubles
INVARIANT InOrder
INVARIANT NoSilentHole
INVARIANT NoOrphan
CHECK_DEADLOCK FALSE
