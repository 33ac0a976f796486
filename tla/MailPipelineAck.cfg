\* Expected to be violated: no failure at all, two recipients.
SPECIFICATION Spec
CONSTANTS
  Msgs = {m1}
  Mailers = {d1}
  Savers = {v1}
  SendCap = 1
  SaveCap = 1
  MaxRcpts = 2
  Failures = {}
  NoMsg = NoMsg
INVARIANT AckMeansSaved
CHECK_DEADLOCK FALSE
