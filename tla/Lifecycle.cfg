\* Two clients of the SMTP server and one of the POP3 server, one place in
\* each, two signals.
SPECIFICATION FairSpec
CONSTANTS
  SmtpClients = {c1, c2}
  Pop3Clients = {c3}
  Places = 1
  MaxSignals = 2
INVARIANTS
  
  ShutdownReachesAll
PROPERTIES
  SignalEnds
  AcceptedIsServed
CHECK_DEADLOCK FALSE
