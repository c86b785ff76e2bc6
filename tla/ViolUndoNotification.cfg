SPECIFICATION Spec
CONSTANTS
  r1 = r1  r2 = r2  p1 = p1  p2 = p2  c1 = c1  c2 = c2
  first = first  second = second
  Requests = {r1}
  Operations <- NoSaves
  Coaches = {coach}
  Admins = {}
  Categories = {first}
  CategoryOf <- OneCategory
  Players = {p1}
  Jerseys = {7}
  DefaultJersey <- OwnNumbers
  Captures = {c1}
  PlayerOf <- BothPlayOne
  Notifiable = {c1}
  Parents = {f1}
  MaxActionId = 2
  MaxFailures = 0
  NoJersey = NoJersey  Absent = Absent  NoRow = NoRow  Untouched = Untouched  Keep = Keep
  NoUser = NoUser  NoCapture = NoCapture  NoCategory = NoCategory
INVARIANT UndoneActionsDisowned
CHECK_DEADLOCK FALSE
