SPECIFICATION Spec
CONSTANTS
  Requests = {r1, r2}
  MaxSessions = 3
  MaxWrites = 3
  MaxLinks = 2
  MaxFailures = 1
  MaxEvents = 4
INVARIANTS UsedOnce ParentIsOver LockedOutStaysOut OldPasswordNeverServes OldSessionsClosed LinkRedeemedOnce
PROPERTIES RevocationIsFinal
CONSTRAINT FewEvents
CHECK_DEADLOCK FALSE
SYMMETRY Slots
