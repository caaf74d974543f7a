SPECIFICATION Spec
CONSTANTS
  staff = staff
  admin = admin
  d1 = d1
  d2 = d2
  r1 = r1
  r2 = r2
  lunch = lunch
  dinner = dinner
  ann = ann
  qe = qe
  qf = qf
  qa = qa
  qs = qs
  vic = vic
  wes = wes
  None = None
  Staff = {staff, admin}
  Admin = admin
  Kind <- KindOf
  Owner <- OwnerOf
  Expiry <- ExpiryOf
  Limit <- LimitOf
  Allowed <- AllowedOf
  Eligible <- EligibleOf
  Calls = {c1, c2}
  Requests = {r1, r2}
  Devices = {d1, d2}
  ScannerCodes = {"north", "south", "west"}
  MealTypes = {lunch, dinner}
  Employees = {ann}
  Credentials = {qe, qf}
  Visitors = {}
  Scans <- EmployeeScans
  Label <- LabelOf
  LockTime = 1
  AuthTime = 1
  Attempts = 1
  MaxClock = 1
  MaxChanges = 1
INVARIANTS
  ServedOnce
  AttemptTellsServing
  ApprovalIsHonest
  WindowRespected
PROPERTIES
  ServedUnderLock
  ImplementsLedger
CONSTRAINT OneTheme
SYMMETRY CallSymmetry
CHECK_DEADLOCK FALSE
