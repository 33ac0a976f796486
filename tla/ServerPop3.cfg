\* The POP3 server: every session gives its place back once.
SPECIFICATION FairSpec
CONSTANTS
  Clients = {c1, c2, c3}
  MaxClients = 2
  SpamRule = FALSE
INVARIANTS
  DrainedMeansQuiet
  SemCountsClients
PROPERTIES
  KeepsPromise
  DrainEnds
CHECK_DEADLOCK FALSE
