SPECIFICATION Spec
CONSTANTS
  WindowNs = 2
  Capacity = 3
  BanAfter = 2
  BanNs = 2
  Gateways <- MCGateways
  Accounts = {1, 2, 3}
  NumConns = 2
  WriterCap = 1
  MaxClock = 1
  Histories <- MCHistories
INVARIANT DisconnectPulls
INVARIANT ClosedIsLeftAlone
INVARIANT RetryIsExact
CHECK_DEADLOCK FALSE
PROPERTY ConnectionsEnd
