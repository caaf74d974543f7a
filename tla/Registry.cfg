SPECIFICATION Spec
CONSTANTS
  None = None
  a = a
  b = b
  e1 = e1
  e2 = e2
  e3 = e3
  hall = hall
  lab = lab
  breakfast = breakfast
  lunch = lunch
  Workers = {w1, w2}
  Admins = {a, b}
  Codes = {e1, e2, e3}
  d1 = d1
  d2 = d2
  Departments = {d1, d2}
  Names = {hall, lab}
  Facilities = {lab}
  Types = {breakfast, lunch}
  Keys = {k1, k2}
  Requests = {r1, r2}
  r1 = r1
  r2 = r2
  Files <- AllFiles
  Operations <- AllOperations
  FirstEmployees <- TwoEmployees
  FirstDepartments <- OneDepartment
  Backend = "s3"
  MaxOperations = 4
  MaxFaults = 1
CONSTRAINT OneTheme
SYMMETRY WorkersAndKeys
INVARIANTS
  ImportKept
  CommittedImportIsAnswered
  PhotosStored
PROPERTIES
  NobodyJoinsClosedDepartment
  BulkAsConfirmed
  GrantsAudited
  RemovedStaysRemoved
CHECK_DEADLOCK FALSE
