SPECIFICATION Spec
CONSTANTS
  Sessions = {s1}
  Users = {u1, u2}
  Strangers = {x}
  MaxSaves = 3
  MaxNumber = 3
  Resaves = TRUE
  FetchMayFail = TRUE
  NoName = NoName
INVARIANTS
  
  ToldNumbersAreSafe
  UidsDistinguish
PROPERTIES
  NumbersMeanWhatWasTold
CHECK_DEADLOCK FALSE
