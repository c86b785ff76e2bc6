SPECIFICATION Spec
CONSTANTS
  Requests = {r1, r2}
  Players = {p1, p2, p3}
  Categories = {c1, c2}
  NoCategory = NoCategory
  MaxPlayers = 1
  MaxCategories = 2
  MaxBegun = 5
  MaxFailures = 1
INVARIANTS PlanHoldsButForRaces ActiveNeedsCategory RejectedStaysOut
PROPERTIES HistoryIsKept
CHECK_DEADLOCK FALSE
SYMMETRY Symmetric
