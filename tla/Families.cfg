SPECIFICATION Spec
CONSTANTS
  Requests = {r1, r2}
  Users = {u1, u2}
  Players = {p1}
  Roles = {"coach", "parent"}
  MaxBegun = 3
  MaxFailures = 1
INVARIANTS LinksAreAsAsked KeptParentsKeepAccess RolesAreAsGranted
CHECK_DEADLOCK FALSE
SYMMETRY Symmetric
