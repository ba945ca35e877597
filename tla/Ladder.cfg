\* The ladder against the oracle, price-time and pro-rata.
SPECIFICATION Spec
CONSTANTS
  Base = 10
  Tick = 2
  NumLevels = 2
  MaxOrders = 3
  Hash <- MCHash
  Scope <- MCScope
  Offers <- MCOffers
  Policies = {"fifo", "prorata"}
  MaxCommands = 5
CHECK_DEADLOCK FALSE
INVARIANTS FillsAreExact
PROPERTY ImplementsOracle
