\* Two websockets and a long poll, one user, two pages, two commands.
SPECIFICATION MCSpec
CONSTANTS
  w = w
  timed = timed
  l = l
  c1 = c1
  c2 = c2
  WebSockets = {w, timed}
  Timed = {timed}
  LongPolls = {l}
  Users = {u}
  Pages = {p, q}
  Commands = {c1, c2}
  BuffCap = 1
  CLIENT_BROAD = TRUE
  NoUser = NoUser
  NoPage = NoPage
INVARIANTS
  CountIsClients
  DoneMeansForgotten
  PagesInStep
PROPERTIES
  GoroutinesEnd
  SendersFinish
CHECK_DEADLOCK FALSE
