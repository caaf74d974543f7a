SPECIFICATION FairSpec
CONSTANTS
  None = None
  Employees = {}
  Credentials = {q1, q2}
  Addresses = {home}
  Reserved = {}
  Dispatchers = {bob}
  Admins = {}
  Operators = {oz}
  DailyLimit = 2
  ResendLimit = 1
  BatchSize = 1
  Day = 1
  MaxEmails = 2
  MaxClock = 1
  MaxChanges = 1
  MaxFaults = 0
  Expiries = {1}
PROPERTIES
  BulkDispatched
CHECK_DEADLOCK FALSE
