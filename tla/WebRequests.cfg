SPECIFICATION WebSpec
CONSTANTS
  Requests = {r1, r2}
  Kinds = {"page", "api", "renew", "logout", "login"}
  MaxTokens = 3
  MaxFailures = 1
  MaxEvents = 3
INVARIANT OneAtATimeKeepsTheSession
PROPERTIES ExchangedNeverComesBack
CONSTRAINT FewEvents
CHECK_DEADLOCK FALSE
SYMMETRY Slots
