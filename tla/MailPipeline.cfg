\* Two messages of up to two recipients, queues of one, two savers, and
\* every failure, or none.
SPECIFICATION FairSpec
CONSTANTS
  Msgs = {m1, m2}
  Mailers = {d1}
  Savers = {v1, v2}
  SendCap = 1
  SaveCap = 1
  MaxRcpts = 2
  Failures = {"timeout", "relay", "insert", "link", "redial"}
  NoMsg = NoMsg
INVARIANTS
  AckedIsDelivered
  InsertedOnce
  WorkersStuckOnlyBy
PROPERTIES
  KeepsPromise
  
  EveryRecipientServed
CHECK_DEADLOCK FALSE
