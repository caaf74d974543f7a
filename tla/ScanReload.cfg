SPECIFICATION FairSpec
CONSTANTS
  None = None
  Tabs = {t1}
  Calls = {c1, c2}
  Tokens = {q1}
  MaxRequests = 1
  MaxScopes = 1
  MaxFaults = 1
  MaxReloads = 1
INVARIANTS
  RescanPossible
CONSTRAINT OneTheme
CHECK_DEADLOCK FALSE
