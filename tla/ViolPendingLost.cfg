SPECIFICATION Spec
CONSTANTS
  Captures = {c1}
  Restorable = {}
  Commands = {"undo", "void"}
  CAPTURE_MAX_AUTO_RETRIES = 1
  MaxLate = 1
  MaxRows = 2
  MaxReloads = 1
INVARIANT NoCaptureLost
CHECK_DEADLOCK FALSE
