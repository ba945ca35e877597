SPECIFICATION Spec
CHECK_DEADLOCK FALSE
CONSTANTS
  Ids = {1, 2, 3, 4, 5, 6}
  Owner <- OwnerOf
  Scope <- ScopeOf
  Groups = {1}
  Desks <- AllDesks
  MaxPx = 6
  MaxTime = 4
INVARIANTS RestartIsExact NoStopSleptThrough NothingOverstays UncrossIsFair StatesAreRespected ClOrdIdsOnce
