SPECIFICATION Spec
CONSTANTS
  Requests = {r1, r2}
  Anchors = {15, 30, 31}
  Months <- Winter
  Days <- EdgesOfMonths
  anniversaryMonth = 2
  MaxRows = 3
  MaxFailures = 1
INVARIANTS NothingBilledTwice AnnualComesWithItsMonth
PROPERTIES CompleteWhenItEnds
CONSTRAINT FewRows
CHECK_DEADLOCK FALSE
SYMMETRY Slots
