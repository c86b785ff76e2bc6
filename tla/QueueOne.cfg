SPECIFICATION FairSpec
CONSTANTS
  Captures = {c1}
  Restorable = {}
  Commands = {"undo", "void"}
  CAPTURE_MAX_AUTO_RETRIES = 2
  MaxLate = 2
  MaxRows = 3
  MaxReloads = 2
INVARIANTS OnlyClosingLosesCaptures ConfirmedIsTrue
PROPERTIES NeverForgetsALiveAction SubmissionsEnd
CHECK_DEADLOCK FALSE
