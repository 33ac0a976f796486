\* One browser with two tabs, one address, two accounts, four mails, two on a page.
SPECIFICATION MCSpec
CONSTANTS
  Browsers = {b}
  Tabs <- MCTabs
  Emails = {e}
  Passwords = {p1, p2}
  Limit = 2
  MaxUsers = 2
  MaxMails = 4
INVARIANTS
  SessionIsEarned
  LogoutLasts
  OneAccountUnlessTogether
  WalkHasNoGaps
  NextLeadsToMail
CHECK_DEADLOCK FALSE
