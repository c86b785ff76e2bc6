SPECIFICATION FairSpec
CONSTANTS
  Requests = {r1, r2}
  Invoices = {i1}
  Devices = {d1}
  MaxFailures = 1
INVARIANTS SuspendedOncePerInvoice SuspendedForDebt ClosedAcademyHasNoSessions
PROPERTIES OverdueIsChased ScheduleIsConsumed
CONSTRAINT TwoAtATime
CHECK_DEADLOCK FALSE
