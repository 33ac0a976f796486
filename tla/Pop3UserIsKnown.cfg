SPECIFICATION Spec
CONSTANTS
  Sessions = {s1}
  Users = {u1, u2}
  Strangers = {x}
  MaxSaves = 2
  MaxNumber = 2
  Resaves = FALSE
  FetchMayFail = FALSE
  NoName = NoName
INVARIANTS
  UserIsKnown
CHECK_DEADLOCK FALSE
