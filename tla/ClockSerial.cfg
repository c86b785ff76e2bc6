SPECIFICATION Spec
CONSTANTS
  Requests = {r1}
  MaxPeriods = 3
  SecondsPerMinute = 2
  MATCH_CLOCK_MINUTE_MAX = 4
  Adjustments = {1, 3}
  MaxTime = 10
  Null = Null
INVARIANT NoTimeInvented
PROPERTY ImplementsStopwatch
CHECK_DEADLOCK FALSE
