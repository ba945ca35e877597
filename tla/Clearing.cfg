SPECIFICATION Spec
CONSTANTS
  Traders <- MCTraders
  Owner <- MCOwner
  Symbols <- MCSymbols
  Assets <- MCAssets
  Sources <- MCSources
  Desks <- MCDesks
  MaxTime = 3
INVARIANTS Conserved MarginIsReserved RiskIsBounded
CHECK_DEADLOCK FALSE
