SPECIFICATION Spec
CONSTANTS
  None = None
  Workers = {w1, w2}
  Staff = {a1, a2}
  a1 = a1
  a2 = a2
  Addresses = {m1, m2, m3}
  m1 = m1
  m2 = m2
  m3 = m3
  Sessions = {s1, s2}
  s1 = s1
  s2 = s2
  Phones = {p1}
  p1 = p1
  Browsers = {b1, b2}
  b1 = b1
  b2 = b2
  Operations <- AllOperations
  SessionTime = 2
  IdleTime = 1
  CodeTime = 1
  PhoneTime = 1
  MaxClock = 1
  MaxOperations = 6
  MaxFaults = 1
INVARIANTS
  AdministratorRemains
  SessionsEnded
  OneBrowserPerCode
PROPERTIES
  DecidedByAdministrators
CONSTRAINT Quiet
SYMMETRY Names
CHECK_DEADLOCK FALSE
