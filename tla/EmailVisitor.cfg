SPECIFICATION Spec
CONSTANTS
  None = None
  Employees = {}
  Credentials = {q1, q2, q3}
  Addresses = {home}
  Reserved = {}
  Dispatchers = {bob}
  Admins = {eve}
  Operators = {}
  DailyLimit = 1
  ResendLimit = 1
  BatchSize = 2
  Day = 0
  MaxEmails = 3
  MaxClock = 1
  MaxChanges = 0
  MaxFaults = 0
  Expiries = {1}
CONSTRAINT AllAccepted
SYMMETRY CredentialSymmetry
INVARIANT LimitOvershoot
CHECK_DEADLOCK FALSE
