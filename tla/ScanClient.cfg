SPECIFICATION FairSpec
CONSTANTS
  None = None
  Tabs = {t1, t2}
  Calls = {c1, c2}
  Tokens = {q1}
  MaxRequests = 2
  MaxScopes = 2
  MaxFaults = 1
  MaxReloads = 1
INVARIANTS
  ShownIsTrue
  SettledBeforeNext
  BoundToItsBrowser
PROPERTIES
  ImplementsPromise
  HeldServingConfirmed
CONSTRAINT OneTheme
CHECK_DEADLOCK FALSE
