SPECIFICATION Spec
CONSTANTS
  r1 = r1  r2 = r2  p1 = p1  p2 = p2  c1 = c1  c2 = c2
  first = first  second = second
  Requests = {r1}
  Operations <- Anything
  Coaches = {coach}
  Admins = {}
  Categories = {first, second}
  CategoryOf <- ThirdInSecond
  Players = {p1, p2, p3}
  Jerseys = {7, 9}
  DefaultJersey <- OwnNumbers
  Captures = {c1, c2}
  PlayerOf <- OnePlayerEach
  Notifiable = {c1}
  Parents = {f1}
  MaxActionId = 2
  MaxFailures = 1
  NoJersey = NoJersey  Absent = Absent  NoRow = NoRow  Untouched = Untouched  Keep = Keep
  NoUser = NoUser  NoCapture = NoCapture  NoCategory = NoCategory
INVARIANTS OnlyPresentPlayersHaveActions PlayersAreOfTheCategory JerseysAreDistinct VoidedActionsDisowned
PROPERTY ImplementsLedger
VIEW AllButAudit
CHECK_DEADLOCK FALSE
