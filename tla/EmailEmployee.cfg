SPECIFICATION Spec
CONSTANTS
  None = None
  Employees = {ann}
  Credentials = {q1, q2}
  Addresses = {home, work}
  Reserved = {work}
  Dispatchers = {bob}
  Admins = {eve}
  Operators = {}
  DailyLimit = 3
  ResendLimit = 0
  BatchSize = 2
  Day = 1
  MaxEmails = 2
  MaxClock = 0
  MaxChanges = 1
  MaxFaults = 2
  Expiries = {1}
SYMMETRY CredentialSymmetry
INVARIANTS
  TypeOK
  StatusTellsMailbox
  AnswersTellMailbox
  WaitingIsCurrent
PROPERTIES
  SentWhileValid
  ImplementsOutbox
CHECK_DEADLOCK FALSE
