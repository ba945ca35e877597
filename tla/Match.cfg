\* Two accounts trading against each other in several venues.
SPECIFICATION Spec
CONSTANTS
  Accounts = {"mm", "c"}
  Ids = {1, 2, 3, 4}
  Owner <- OwnerOf
  Scope <- ScopeOf
  MaxPx = 2
  Deposits = 6
  Venues <- MatchVenues
  MaxCmds = 5
  MaxTime = 2
INVARIANTS ReservationsAreExact OrdersAreSound FundsBalance AnswerIsTrue DepthIsBook
