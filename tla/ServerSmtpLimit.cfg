SPECIFICATION Spec
CONSTANTS
  Clients = {c1, c2, c3}
  MaxClients = 1
  SpamRule = TRUE
INVARIANTS
  ServedWithinLimit
CHECK_DEADLOCK FALSE
