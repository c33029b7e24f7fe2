SPECIFICATION FairSessionSpec
CONSTANTS
  Logins = {l1, l2, l3}
  Refreshes = {f1, f2}
  Logouts = {o1}
  Browsers = {b1}
  Earlier = {l1, l2}
  Expiring = {l1}
  None = None
  Organizer = TRUE
INVARIANTS
  TypeOK
  TokensAreRevoked
  OrderlyBrowsersStayLoggedIn
  TabMatchesJar
PROPERTIES
  NobodyWaitsForever
CHECK_DEADLOCK FALSE
