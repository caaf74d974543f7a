------------------------------ MODULE Registry ------------------------------
(***************************************************************************)
(* What administrators do to the registry: employees and their meal types, *)
(* photos and removal (employees.py, the photo upload of api.py and        *)
(* storage.py), departments and meal types (catalog.py), imports of        *)
(* employees with the page that retries them (bulk_employees.js), and      *)
(* batches of visitor QRs (visitor_batches.py).                            *)
(*                                                                         *)
(* A request is a transaction of a worker at READ COMMITTED: it takes its  *)
(* row locks one statement after the other, keeps them to its end, and its *)
(* writes are seen at the commit.  An inserted key is locked like a row:   *)
(* who inserts it as well waits, and then finds it taken or free.          *)
(* require_actor locks the administrator's account, so requests of one     *)
(* administrator wait for each other; those of two do not.                 *)
(*                                                                         *)
(* Codes stand for employees, whose QRs and emails are left out (see       *)
(* EmailDelivery); sessions are good (see StaffAccess); names, addresses   *)
(* and the rows of an import other than its codes are left out, and an     *)
(* import names one department and one set of meal types for all its rows. *)
(***************************************************************************)
EXTENDS Naturals, Sequences, FiniteSets

CONSTANTS
  Workers, Admins,
  Codes,          \* employee codes, registered or not
  Departments,    \* ids of departments, used or not
  Names,          \* names of departments, up to case, accents and spaces
  Facilities,     \* the names an import may create
  Types,          \* meal types
  Keys,           \* object keys of photos
  Requests,       \* request ids the pages make
  Files,          \* what an import may hold
  Operations,     \* the other requests that may be made
  FirstEmployees, FirstDepartments,   \* what is there at first
  Backend,        \* where photos are kept
  MaxOperations, MaxFaults,
  None            \* the absent value

(* Requests about employees, and those with a list of meal types.          *)
AboutEmployees == {"GRANT", "BULK", "SET_ACTIVE", "ARCHIVE", "MOVE", "PHOTO"}
Kinds == AboutEmployees \cup
  {"REGISTER", "IMPORT", "DEPARTMENT_CREATE", "DEPARTMENT_RENAME",
   "DEPARTMENT_ACTIVE", "TYPE_ACTIVE", "VISITORS"}

FileType == [codes : Seq(Codes), name : Names \cup {None}, types : SUBSET Types]
OperationType ==
  [kind : Kinds, admin : Admins, who : SUBSET Codes,
   department : Departments \cup {None}, name : Names \cup {None},
   types : (SUBSET Types) \cup {None}, active : BOOLEAN, confirm : BOOLEAN,
   request : Requests \cup {None}]
ImportRequests ==
  [kind : {"IMPORT"}, admin : Admins, request : Requests, file : Files]

(* The rows of the tables; the employees an import registered carry its    *)
(* batch, as their emails do in the code.                                  *)
EmployeeRows ==
  [active : BOOLEAN, removed : BOOLEAN, department : Departments \cup {None},
   grants : SUBSET Types, photo : Keys \cup {None},
   batch : (Admins \X Requests) \cup {None}]
DepartmentRows == [name : Names, active : BOOLEAN]

(* What the services and the page refuse before they touch a table: an     *)
(* import without rows or with one code twice, a registration of anything  *)
(* but one employee, and a request that lacks what it is about.            *)
GoodFile(f) ==
  /\ f.codes # <<>>
  /\ \A i, j \in DOMAIN f.codes : f.codes[i] = f.codes[j] => i = j
GoodOperation(o) ==
  /\ o.kind # "IMPORT"
  /\ o.kind = "REGISTER" => \E c \in Codes : o.who = {c}
  /\ o.kind \in {"GRANT", "BULK", "TYPE_ACTIVE", "VISITORS"} => o.types # None
  /\ o.kind \in {"REGISTER", "MOVE", "VISITORS", "DEPARTMENT_RENAME",
                "DEPARTMENT_ACTIVE"} => o.department # None
  /\ o.kind \in {"DEPARTMENT_CREATE", "DEPARTMENT_RENAME"} => o.name # None
  /\ o.kind = "VISITORS" => o.request # None

ASSUME RegistryAssumption ==
  /\ IsFiniteSet(Codes)
  /\ Files \subseteq FileType /\ \A f \in Files : GoodFile(f)
  /\ Operations \subseteq OperationType /\ \A o \in Operations : GoodOperation(o)
  /\ Facilities \subseteq Names
  /\ FirstEmployees \in [Codes -> EmployeeRows \cup {None}]
  /\ FirstDepartments \in [Departments -> DepartmentRows \cup {None}]
  /\ Backend \in {"local", "s3", "vercel_blob"}
  /\ {MaxOperations, MaxFaults} \subseteq Nat
  /\ \A c \in Codes : FirstEmployees[c] # None =>
        FirstEmployees[c].photo = None /\ FirstEmployees[c].batch = None
  /\ None \notin Codes \cup Departments \cup Names \cup Keys \cup Requests
                 \cup Workers \cup Files \cup Operations \cup ImportRequests \cup EmployeeRows
                 \cup DepartmentRows \cup (Admins \X Requests)
  /\ \A types \in SUBSET Types : types # None

VARIABLES
  employee, department,
  offered,     \* the active meal types
  imports,     \* employee_email_batches: of each administrator and request
  visitors,    \* visitor_qr_batches: [admin, request, content]
  trail,       \* of each employee: the last audited change of meal types
  object,      \* keys of stored photos
  op, pc,      \* the request each worker is at, and its next statement
  plan,        \* what its transaction has read and not yet written
  held, shared,\* the rows it has locked, for itself or with others
  page,        \* each administrator's import page, in one browser tab
  known,       \* imports whose result has reached the page
  preview,     \* and the last preview of a bulk change of meal types
  started, faults

tables == <<employee, department, offered, imports, visitors, trail>>
worker == <<op, pc, plan, held, shared>>
browser == <<page, known, preview>>
bounds == <<started, faults>>
vars == <<tables, object, worker, browser, bounds>>

NoPlan == [read |-> [c \in Codes |-> None], todo |-> <<>>, types |-> {},
           department |-> None, make |-> FALSE, count |-> 0, key |-> None]
NoImport == [request |-> None, file |-> None, submitted |-> FALSE,
             first |-> FALSE, worker |-> None]

Init ==
  /\ employee = FirstEmployees /\ department = FirstDepartments
  /\ offered = Types
  /\ imports = [b \in Admins \X Requests |-> None]
  /\ visitors = {}
  /\ trail = [c \in Codes |-> None]
  /\ object = {}
  /\ op = [w \in Workers |-> None] /\ pc = [w \in Workers |-> "idle"]
  /\ plan = [w \in Workers |-> NoPlan]
  /\ held = [w \in Workers |-> {}] /\ shared = [w \in Workers |-> {}]
  /\ page = [a \in Admins |-> NoImport] /\ known = {}
  /\ preview = [a \in Admins |-> None]
  /\ started = 0 /\ faults = 0

-----------------------------------------------------------------------------
(* Rows, their locks, and the end of a request                             *)

AdminRow(a) == <<"staff_accounts", a>>
EmployeeRow(c) == <<"employees", c>>
DepartmentRow(d) == <<"departments", d>>
NameKey(n) == <<"uq_departments_name", n>>
TypeRow(t) == <<"meal_types", t>>
ImportKey(a, r) == <<"uq_employee_batch_request", a, r>>

Free(w, rows) ==
  \A x \in Workers \ {w} : (held[x] \cup shared[x]) \cap rows = {}
FreeToShare(w, rows) == \A x \in Workers \ {w} : held[x] \cap rows = {}

Lock(w, rows) ==
  /\ held' = [held EXCEPT ![w] = @ \cup rows]
  /\ UNCHANGED shared
Share(w, rows) ==
  /\ shared' = [shared EXCEPT ![w] = @ \cup rows]
  /\ UNCHANGED held

GoOn(w, step) ==
  /\ pc' = [pc EXCEPT ![w] = step]
  /\ UNCHANGED <<op, tables, object, browser, bounds>>

Registered(c) == employee[c] # None /\ ~employee[c].removed
Named(n) == {d \in Departments : department[d] # None /\ department[d].name = n}
Open(d) == department[d] # None /\ department[d].active
ActiveIn(d) == {c \in Codes : Registered(c) /\ employee[c].active
                               /\ employee[c].department = d}

(* The page that waits for an answer of worker w, if it still does.        *)
Waiting(w) == {a \in Admins : page[a].worker = w}

(* Refusals the page takes as the end of a first attempt: it knows the     *)
(* code, and status_for gives it one of the statuses 400, 409 and 422.     *)
(* Every code of a name that was not found has status 404.                 *)
RejectedImports ==
  {"EMPLOYEE_CODE_EXISTS", "DEPARTMENT_UNAVAILABLE", "DEPARTMENT_NOT_FOUND"}
NotFound == {"DEPARTMENT_NOT_FOUND", "EMPLOYEE_NOT_FOUND"}

Rejects(p, answer) == p.first /\ answer \in RejectedImports \ NotFound

(* What the page makes of an answer: the result ends the import, a refusal *)
(* of its first attempt lets go of it, and anything else keeps it.         *)
Answered(p, answer) ==
  IF answer = "OK" \/ Rejects(p, answer) THEN NoImport
  ELSE [p EXCEPT !.worker = None, !.first = FALSE]

Deliver(w, answer) ==
  /\ page' = [a \in Admins |-> IF a \in Waiting(w) THEN Answered(page[a], answer)
                               ELSE page[a]]
  /\ known' = known \cup {<<a, page[a].request>> :
                           a \in {x \in Waiting(w) : answer = "OK"}}
  /\ UNCHANGED preview

(* The end of a transaction: its locks go, and the worker answers.         *)
Finish(w, answer) ==
  /\ op' = [op EXCEPT ![w] = None] /\ pc' = [pc EXCEPT ![w] = "idle"]
  /\ plan' = [plan EXCEPT ![w] = NoPlan]
  /\ held' = [held EXCEPT ![w] = {}] /\ shared' = [shared EXCEPT ![w] = {}]
  /\ Deliver(w, answer)

(* A DomainError rolls the transaction back.  The upload of a photo then   *)
(* deletes the object it has stored.                                       *)
Refuse(w, code) ==
  IF plan[w].key = None
  THEN Finish(w, code) /\ UNCHANGED <<tables, object, bounds>>
  ELSE /\ GoOn(w, "delete")
       /\ held' = [held EXCEPT ![w] = {}] /\ shared' = [shared EXCEPT ![w] = {}]
       /\ UNCHANGED plan

Fault == faults < MaxFaults /\ faults' = faults + 1

-----------------------------------------------------------------------------
(* Requests begin                                                          *)

(* A bulk change is confirmed for the count of the last preview.           *)
Confirmed(o) ==
  /\ preview[o.admin] # None
  /\ preview[o.admin].who = o.who /\ preview[o.admin].types = o.types

Begin(w) ==
  /\ pc[w] = "idle" /\ started < MaxOperations
  /\ started' = started + 1
  /\ \E o \in Operations :
       /\ o.kind = "BULK" => Confirmed(o)
       /\ op' = [op EXCEPT ![w] = o]
       /\ pc' = [pc EXCEPT ![w] = IF o.kind = "PHOTO" THEN "look" ELSE "actor"]
       /\ plan' = [plan EXCEPT ![w].count =
                     IF o.kind = "BULK" THEN preview[o.admin].count ELSE 0]
  /\ UNCHANGED <<tables, object, held, shared, browser, faults>>

(* employees whose meal types are not yet those of the request.            *)
Changing(who, types) == {c \in who : employee[c].grants # types}

(* preview_meal_types_bulk, which reads without locks of its own.          *)
Preview(o) ==
  /\ started < MaxOperations /\ started' = started + 1
  /\ o.kind = "BULK"
  /\ \A w \in Workers : AdminRow(o.admin) \notin held[w]
  /\ \A c \in o.who : Registered(c)
  /\ o.types \subseteq offered
  /\ preview' = [preview EXCEPT ![o.admin] =
        [who |-> o.who, types |-> o.types,
         count |-> Cardinality(Changing(o.who, o.types))]]
  /\ UNCHANGED <<tables, object, worker, page, known, faults>>

(* Mutant: the marker is stored when the answer is uncertain.              *)
NotYetMarked(p, r, f, w) ==
  [request |-> r, file |-> f, submitted |-> p.submitted, first |-> TRUE, worker |-> w]

(* The marker is stored before the request is sent.                        *)
Marked(p, r, f, w) ==
  [request |-> r, file |-> f, submitted |-> TRUE, first |-> ~p.submitted, worker |-> w]

(* A department the page offers, or one the server may make.               *)
Offers(n) == n = None \/ n \in Facilities \/ \E d \in Named(n) : Open(d)

Unused(r) ==
  /\ \A a \in Admins : page[a].request # r /\ imports[<<a, r>>] = None
  /\ \A w \in Workers : op[w] # None => op[w].request # r

(* prepare and submit: a file is read and sent under a request id of its   *)
(* own.  While an import is unconfirmed only its own file is accepted, and *)
(* sent under its own id.                                                  *)
Submit(w, a) ==
  /\ pc[w] = "idle" /\ started < MaxOperations
  /\ started' = started + 1
  /\ page[a].worker = None
  /\ \E f \in Files, r \in Requests :
       /\ IF page[a].submitted
          THEN f = page[a].file /\ r = page[a].request
          ELSE Offers(f.name) /\ Unused(r) /\ r = CHOOSE x \in Requests : Unused(x)
       /\ page' = [page EXCEPT ![a] = Marked(@, r, f, w)]
       /\ op' = [op EXCEPT ![w] =
             [kind |-> "IMPORT", admin |-> a, request |-> r, file |-> f]]
  /\ pc' = [pc EXCEPT ![w] = "actor"]
  /\ UNCHANGED <<tables, object, plan, held, shared, known, preview, faults>>

(* The page is loaded again and keeps the marker of a submitted import;    *)
(* the answer under way is lost to it.                                     *)
Reload(a) ==
  /\ page[a].worker # None /\ Fault
  /\ page' = [page EXCEPT ![a] =
       IF page[a].submitted THEN [page[a] EXCEPT !.worker = None, !.first = FALSE] ELSE NoImport]
  /\ UNCHANGED <<tables, object, worker, known, preview, started>>

-----------------------------------------------------------------------------
(* The statements of a request up to its commit                            *)

First(kind) ==
  IF kind \in AboutEmployees THEN "employees"
  ELSE IF kind \in {"DEPARTMENT_RENAME", "DEPARTMENT_ACTIVE"} THEN "row"
  ELSE IF kind = "REGISTER" THEN "department"
  ELSE IF kind = "DEPARTMENT_CREATE" THEN "name"
  ELSE IF kind = "TYPE_ACTIVE" THEN "type"
  ELSE IF kind = "IMPORT" THEN "batch" ELSE "visitors"

LockActor(w) ==
  /\ pc[w] = "actor" /\ Free(w, {AdminRow(op[w].admin)})
  /\ Lock(w, {AdminRow(op[w].admin)})
  /\ GoOn(w, First(op[w].kind))
  /\ UNCHANGED plan

(* Mutant: employees are read before their rows are locked.                *)
LockNone(w) == {}

EmployeesToLock(w) == {EmployeeRow(c) : c \in {x \in op[w].who : employee[x] # None}}

(* The employees a request is about are locked and read; removed ones are  *)
(* refused.                                                                *)
LockEmployees(w) ==
  LET o == op[w] IN
  /\ pc[w] = "employees" /\ Free(w, EmployeesToLock(w))
  /\ IF \A c \in o.who : Registered(c)
     THEN /\ Lock(w, EmployeesToLock(w))
          /\ plan' = [plan EXCEPT ![w].read = [c \in Codes |->
                        IF c \in o.who THEN employee[c] ELSE None]]
          /\ GoOn(w, IF o.kind \in {"GRANT", "BULK"} THEN "types"
                     ELSE IF /\ o.kind = "MOVE"
                             /\ \E c \in o.who : employee[c].department # o.department
                     THEN "department" ELSE "commit")
     ELSE Refuse(w, "EMPLOYEE_NOT_FOUND")

(* Mutant: a department is looked up without a lock on its row.            *)
ShareNothing(w) == {}

DepartmentToShare(w) == {DepartmentRow(op[w].department)}

Registering(o) ==
  IF o.kind = "REGISTER" THEN <<CHOOSE c \in o.who : TRUE>> ELSE <<>>

(* _department, and visitor_context before its meal types.                 *)
ShareDepartment(w) ==
  /\ pc[w] = "department" /\ FreeToShare(w, DepartmentToShare(w))
  /\ IF Open(op[w].department)
     THEN /\ Share(w, DepartmentToShare(w))
          /\ plan' = [plan EXCEPT ![w].department = op[w].department,
                                  ![w].todo = Registering(op[w])]
          /\ GoOn(w, IF op[w].kind = "REGISTER" THEN "code"
                     ELSE IF op[w].kind = "MOVE" THEN "commit" ELSE "types")
     ELSE Refuse(w, "DEPARTMENT_UNAVAILABLE")

(* _register inserts the employee, whose code is unique.                   *)
InsertEmployee(w) ==
  LET c == Head(plan[w].todo) IN
  /\ pc[w] = "code" /\ Free(w, {EmployeeRow(c)})
  /\ IF employee[c] = None
     THEN /\ Lock(w, {EmployeeRow(c)})
          /\ GoOn(w, "types")
          /\ UNCHANGED plan
     ELSE Refuse(w, "EMPLOYEE_CODE_EXISTS")

(* The types a request names; a registration without any grants those that *)
(* are active when it looks, and does not lock them.                       *)
Wanted(w) == IF op[w].kind = "IMPORT" THEN op[w].file.types ELSE op[w].types
TypesToShare(w) ==
  LET o == op[w] IN
  CASE o.kind = "GRANT" -> UNION {o.types \ plan[w].read[c].grants : c \in o.who}
    [] Wanted(w) = None -> {}
    [] OTHER -> Wanted(w)

(* Mutant: the number of changes is not compared with the confirmed one.   *)
CountAccepted(w) == TRUE

CountConfirmed(w) ==
  op[w].kind = "BULK" =>
    plan[w].count = Cardinality({c \in op[w].who : plan[w].read[c].grants # op[w].types})

AfterTypes(w) ==
  IF op[w].kind \in {"REGISTER", "IMPORT"} /\ Len(plan[w].todo) > 1 THEN "code"
  ELSE "commit"

(* The active meal types a grant adds are locked, of an import once for    *)
(* each of its employees.                                                  *)
ShareTypes(w) ==
  LET rows == {TypeRow(t) : t \in TypesToShare(w)} IN
  /\ pc[w] = "types" /\ FreeToShare(w, rows)
  /\ IF ~TypesToShare(w) \subseteq offered THEN Refuse(w, "MEAL_TYPE_UNAVAILABLE")
     ELSE IF ~CountConfirmed(w) THEN Refuse(w, "EMPLOYEE_MEAL_TYPES_COUNT_CHANGED")
     ELSE /\ Share(w, rows)
          /\ plan' = [plan EXCEPT
               ![w].types = IF Wanted(w) = None THEN offered ELSE Wanted(w),
               ![w].todo = IF AfterTypes(w) = "code" THEN Tail(@) ELSE @]
          /\ GoOn(w, AfterTypes(w))

(* Mutant: employees who were removed since are not found for the answer.  *)
EnrolledAndKept(a, r) ==
  {c \in Codes : Registered(c) /\ employee[c].batch = <<a, r>>}

Enrolled(a, r) == {c \in Codes : employee[c] # None /\ employee[c].batch = <<a, r>>}

Replay(o, found) ==
  IF found # o.file THEN "IDEMPOTENCY_KEY_REUSED"
  ELSE IF Cardinality(Enrolled(o.admin, o.request)) # Len(o.file.codes)
  THEN "EMPLOYEE_BATCH_UNCONFIRMED" ELSE "OK"

(* register_bulk looks the request up, and answers for the batch it made.  *)
(* The lock of the administrator lets no second insert of the key wait.    *)
FindImport(w) ==
  LET o == op[w]
      found == imports[<<o.admin, o.request>>] IN
  /\ pc[w] = "batch" /\ Free(w, {ImportKey(o.admin, o.request)})
  /\ IF found = None
     THEN /\ Lock(w, {ImportKey(o.admin, o.request)})
          /\ plan' = [plan EXCEPT ![w].todo = o.file.codes]
          /\ GoOn(w, IF o.file.name = None THEN "code" ELSE "departments")
     ELSE Refuse(w, Replay(o, found))

(* _import_departments shares all departments there are.                   *)
FindDepartment(w) ==
  LET n == op[w].file.name
      rows == {DepartmentRow(d) : d \in {x \in Departments : department[x] # None}} IN
  /\ pc[w] = "departments" /\ FreeToShare(w, rows)
  /\ IF \E d \in Named(n) : ~department[d].active
     THEN Refuse(w, "DEPARTMENT_UNAVAILABLE")
     ELSE IF Named(n) = {} /\ n \notin Facilities
     THEN Refuse(w, "DEPARTMENT_NOT_FOUND")
     ELSE /\ Share(w, rows)
          /\ plan' = [plan EXCEPT
               ![w].make = Named(n) = {},
               ![w].department = IF Named(n) = {} THEN None
                                 ELSE CHOOSE d \in Named(n) : TRUE]
          /\ GoOn(w, IF Named(n) = {} THEN "name" ELSE "code")

(* The unique name of a department that is made, by an import or by hand.  *)
InsertName(w) ==
  LET import == op[w].kind = "IMPORT"
      n == IF import THEN op[w].file.name ELSE op[w].name IN
  /\ pc[w] = "name" /\ Free(w, {NameKey(n)})
  /\ IF Named(n) # {}
     THEN Refuse(w, IF import THEN "TRANSACTION_RETRY_REQUIRED"
                    ELSE "DEPARTMENT_NAME_EXISTS")
     ELSE /\ Lock(w, {NameKey(n)})
          /\ GoOn(w, IF import THEN "code" ELSE "commit")
          /\ UNCHANGED plan

(* Departments are renamed, and opened and closed; closing one that has    *)
(* active employees needs a confirmation.                                  *)
LockDepartment(w) ==
  LET o == op[w]
      d == department[o.department] IN
  /\ pc[w] = "row" /\ Free(w, {DepartmentRow(o.department)})
  /\ IF d = None THEN Refuse(w, "DEPARTMENT_NOT_FOUND")
     ELSE IF IF o.kind = "DEPARTMENT_RENAME" THEN d.name = o.name
             ELSE d.active = o.active
     THEN Refuse(w, "OK")
     ELSE IF /\ o.kind = "DEPARTMENT_ACTIVE" /\ ~o.active /\ ~o.confirm
             /\ ActiveIn(o.department) # {}
     THEN Refuse(w, "DEPARTMENT_HAS_ACTIVE_EMPLOYEES")
     ELSE /\ Lock(w, {DepartmentRow(o.department)})
          /\ GoOn(w, IF o.kind = "DEPARTMENT_RENAME" THEN "name" ELSE "commit")
          /\ UNCHANGED plan

LockType(w) ==
  LET row == {TypeRow(t) : t \in op[w].types} IN
  /\ pc[w] = "type" /\ Free(w, row)
  /\ Lock(w, row)
  /\ GoOn(w, "commit")
  /\ UNCHANGED plan

(* What a batch of visitors is, whatever request it came with: its rows    *)
(* and settings, of which the department and the meal types are kept.      *)
Content(o) == [department |-> o.department, types |-> o.types]

Repeated(o) ==
  {v \in visitors : /\ v.admin = o.admin
                    /\ v.request = o.request \/ v.content = Content(o)}

(* create: the administrator's own row keeps two batches apart.            *)
FindVisitors(w) ==
  LET o == op[w] IN
  /\ pc[w] = "visitors"
  /\ IF \E v \in Repeated(o) : v.request = o.request /\ v.content # Content(o)
     THEN Refuse(w, "REQUEST_MISMATCH")
     ELSE IF Repeated(o) # {} THEN Refuse(w, "OK")
     ELSE GoOn(w, "department") /\ UNCHANGED <<plan, held, shared>>

-----------------------------------------------------------------------------
(* The upload of a photo around its transaction                            *)

(* The employee is looked at in a transaction of its own.                  *)
LookAtEmployee(w) ==
  /\ pc[w] = "look" /\ Free(w, {AdminRow(op[w].admin)})
  /\ IF \A c \in op[w].who : Registered(c)
     THEN GoOn(w, "put") /\ UNCHANGED <<plan, held, shared>>
     ELSE Refuse(w, "EMPLOYEE_NOT_FOUND")

(* A local file that cannot be written is removed again; from a bucket the *)
(* answer may be lost, and the object stays.                               *)
LocalPut(k) == {object}
S3Put(k) == {object, object \cup {k}}
VercelPut(k) == {object, object \cup {k}}
FailedPut(k) ==
  CASE Backend = "local" -> LocalPut(k)
    [] Backend = "s3" -> S3Put(k)
    [] Backend = "vercel_blob" -> VercelPut(k)

(* An upload that is no photo is refused before it is stored.              *)
RefusePhoto(w) ==
  /\ pc[w] = "put"
  /\ Refuse(w, "INVALID_PHOTO")

UnusedKeys == {k \in Keys : /\ k \notin object
                           /\ \A w \in Workers : plan[w].key # k
                           /\ \A c \in Codes : employee[c] # None => employee[c].photo # k}

PutPhoto(w) ==
  /\ pc[w] = "put"
  /\ \E k \in UnusedKeys :
       \/ /\ object' = object \cup {k}
          /\ plan' = [plan EXCEPT ![w].key = k]
          /\ pc' = [pc EXCEPT ![w] = "actor"]
          /\ UNCHANGED <<op, held, shared, browser, faults>>
       \/ /\ Fault /\ object' \in FailedPut(k)
          /\ Finish(w, "ERROR")
  /\ UNCHANGED <<tables, started>>

(* The object of an upload the transaction refused is deleted.             *)
DeletePhoto(w) ==
  /\ pc[w] = "delete"
  /\ \/ object' = object \ {plan[w].key} /\ UNCHANGED faults
     \/ Fault /\ UNCHANGED object
  /\ Finish(w, "ERROR")
  /\ UNCHANGED <<tables, started>>

-----------------------------------------------------------------------------
(* The writes, at the commit                                               *)

Ready(w, kinds) == pc[w] = "commit" /\ op[w].kind \in kinds

(* Mutant: the upload deletes its object after any error.                  *)
LostAndDeleted(w) ==
  IF plan[w].key = None THEN Finish(w, "ERROR")
  ELSE /\ pc' = [pc EXCEPT ![w] = "delete"]
       /\ held' = [held EXCEPT ![w] = {}] /\ shared' = [shared EXCEPT ![w] = {}]
       /\ UNCHANGED <<op, plan, browser>>

(* A commit whose acknowledgement is lost ends in an error of the driver,  *)
(* which is not a DomainError, so nothing is undone.                       *)
Lost(w) == Finish(w, "ERROR")

Committed(w) ==
  \/ Finish(w, "OK") /\ UNCHANGED bounds
  \/ Fault /\ Lost(w) /\ UNCHANGED started

NewEmployee(d, types, batch) ==
  [active |-> TRUE, removed |-> FALSE, department |-> d, grants |-> types,
   photo |-> None, batch |-> batch]

Enrol(codes, d, types, batch) ==
  /\ employee' = [c \in Codes |-> IF c \in codes THEN NewEmployee(d, types, batch)
                                  ELSE employee[c]]
  /\ trail' = [c \in Codes |-> IF c \in codes
                               THEN [before |-> {}, after |-> types] ELSE trail[c]]

Register(w) ==
  /\ Ready(w, {"REGISTER"})
  /\ Enrol(op[w].who, op[w].department, plan[w].types, None)
  /\ Committed(w)
  /\ UNCHANGED <<department, offered, imports, visitors, object>>

(* register_bulk: the batch, its department and all of its employees.      *)
Import(w) ==
  LET o == op[w] IN
  /\ Ready(w, {"IMPORT"})
  /\ \E d \in Departments \cup {None} :
       /\ IF plan[w].make
          THEN /\ d # None /\ department[d] = None
               /\ department' = [department EXCEPT ![d] =
                                   [name |-> o.file.name, active |-> TRUE]]
          ELSE d = plan[w].department /\ UNCHANGED department
       /\ Enrol({o.file.codes[i] : i \in DOMAIN o.file.codes}, d, o.file.types,
                <<o.admin, o.request>>)
  /\ imports' = [imports EXCEPT ![<<o.admin, o.request>>] = o.file]
  /\ Committed(w)
  /\ UNCHANGED <<offered, visitors, object>>

(* set_meal_types and set_meal_types_bulk delete what the employee had too *)
(* many when it was read, and insert what was missing.                     *)
Grant(w) ==
  LET o == op[w]
      Had(c) == plan[w].read[c].grants
      changed == {c \in o.who : Had(c) # o.types} IN
  /\ Ready(w, {"GRANT", "BULK"})
  /\ employee' = [c \in Codes |->
       IF c \in changed
       THEN [employee[c] EXCEPT !.grants =
               (@ \ (Had(c) \ o.types)) \cup (o.types \ Had(c))]
       ELSE employee[c]]
  /\ trail' = [c \in Codes |-> IF c \in changed
                               THEN [before |-> Had(c), after |-> o.types]
                               ELSE trail[c]]
  /\ Committed(w)
  /\ UNCHANGED <<department, offered, imports, visitors, object>>

(* update writes every column it has read, with those the request changes. *)
Update(w) ==
  LET o == op[w] IN
  /\ Ready(w, {"MOVE", "PHOTO"})
  /\ employee' = [c \in Codes |->
       IF c \in o.who
       THEN [employee[c] EXCEPT
              !.department = IF o.kind = "MOVE" THEN o.department
                             ELSE plan[w].read[c].department,
              !.photo = IF o.kind = "PHOTO" THEN plan[w].key
                        ELSE plan[w].read[c].photo]
       ELSE employee[c]]
  /\ Committed(w)
  /\ UNCHANGED <<department, offered, imports, visitors, trail, object>>

SetActive(w) ==
  /\ Ready(w, {"SET_ACTIVE"})
  /\ employee' = [c \in Codes |->
       IF c \in op[w].who THEN [employee[c] EXCEPT !.active = op[w].active]
       ELSE employee[c]]
  /\ Committed(w)
  /\ UNCHANGED <<department, offered, imports, visitors, trail, object>>

(* archive and archive_bulk                                                *)
Archive(w) ==
  /\ Ready(w, {"ARCHIVE"})
  /\ employee' = [c \in Codes |->
       IF c \in op[w].who
       THEN [employee[c] EXCEPT !.removed = TRUE, !.active = FALSE]
       ELSE employee[c]]
  /\ Committed(w)
  /\ UNCHANGED <<department, offered, imports, visitors, trail, object>>

WriteDepartment(d, row) ==
  /\ department' = [department EXCEPT ![d] = row]
  /\ UNCHANGED <<employee, offered, imports, visitors, trail, object>>

CreateDepartment(w) ==
  /\ Ready(w, {"DEPARTMENT_CREATE"})
  /\ \E d \in Departments :
       /\ department[d] = None
       /\ WriteDepartment(d, [name |-> op[w].name, active |-> TRUE])
  /\ Committed(w)

RenameDepartment(w) ==
  /\ Ready(w, {"DEPARTMENT_RENAME"})
  /\ WriteDepartment(op[w].department,
                     [department[op[w].department] EXCEPT !.name = op[w].name])
  /\ Committed(w)

SetDepartmentActive(w) ==
  /\ Ready(w, {"DEPARTMENT_ACTIVE"})
  /\ WriteDepartment(op[w].department,
                     [department[op[w].department] EXCEPT !.active = op[w].active])
  /\ Committed(w)

SetTypeActive(w) ==
  /\ Ready(w, {"TYPE_ACTIVE"})
  /\ offered' = IF op[w].active THEN offered \cup op[w].types
                ELSE offered \ op[w].types
  /\ Committed(w)
  /\ UNCHANGED <<employee, department, imports, visitors, trail, object>>

CreateVisitors(w) ==
  LET o == op[w] IN
  /\ Ready(w, {"VISITORS"})
  /\ visitors' = visitors \cup
       {[admin |-> o.admin, request |-> o.request, content |-> Content(o)]}
  /\ Committed(w)
  /\ UNCHANGED <<employee, department, offered, imports, trail, object>>

(* A process dies, a connection breaks, or a deadlock or time-out ends the *)
(* transaction: none of its writes stays.  The creation of a visitor batch *)
(* may then run again; an object already stored is left behind.            *)
RollBack(w) ==
  /\ pc[w] # "idle" /\ Fault
  /\ \/ Finish(w, "ERROR")
     \/ /\ op[w].kind = "VISITORS"
        /\ pc' = [pc EXCEPT ![w] = "actor"]
        /\ plan' = [plan EXCEPT ![w] = NoPlan]
        /\ held' = [held EXCEPT ![w] = {}] /\ shared' = [shared EXCEPT ![w] = {}]
        /\ UNCHANGED <<op, browser>>
  /\ UNCHANGED <<tables, object, started>>

Lookup(w) ==
  \/ LockActor(w) \/ LockEmployees(w) \/ ShareDepartment(w) \/ InsertEmployee(w)
  \/ ShareTypes(w) \/ FindImport(w) \/ FindDepartment(w) \/ InsertName(w)
  \/ LockDepartment(w) \/ LockType(w) \/ FindVisitors(w)
Upload(w) ==
  LookAtEmployee(w) \/ RefusePhoto(w) \/ PutPhoto(w) \/ DeletePhoto(w)
Write(w) ==
  \/ Register(w) \/ Import(w) \/ Grant(w) \/ Update(w) \/ SetActive(w)
  \/ Archive(w) \/ CreateDepartment(w) \/ RenameDepartment(w)
  \/ SetDepartmentActive(w) \/ SetTypeActive(w) \/ CreateVisitors(w)

Next ==
  \/ \E w \in Workers :
       Begin(w) \/ Lookup(w) \/ Upload(w) \/ Write(w) \/ RollBack(w)
  \/ \E o \in Operations : Preview(o)
  \/ \E a \in Admins :
       Reload(a) \/ \E w \in Workers : Submit(w, a)

Spec == Init /\ [][Next]_vars

-----------------------------------------------------------------------------
(* Properties                                                              *)

(* An import that is committed, but whose result never reached the page,   *)
(* is the one the page still keeps: it can only be sent again under its    *)
(* own request id and with its own file (BulkEmployeeImport).              *)
ImportKept ==
  \A a \in Admins, r \in Requests :
    imports[<<a, r>>] # None /\ <<a, r>> \notin known =>
      /\ page[a].submitted /\ page[a].request = r
      /\ page[a].file = imports[<<a, r>>]

(* An import that is sent again is answered with what it did, never with a *)
(* refusal, once it is committed: neither its own employees' codes nor a   *)
(* department closed since then stand in its way (register_bulk).          *)
CommittedImportIsAnswered ==
  \A w \in Workers :
    LET o == op[w] IN
    o # None /\ o.kind = "IMPORT" =>
      LET found == imports[<<o.admin, o.request>>] IN
      found # None => pc[w] \in {"actor", "batch"} /\ Replay(o, found) = "OK"

(* The photo an employee's row names is stored, whatever became of the     *)
(* answers of the transactions that wrote the row (employee_photo_upload). *)
PhotosStored ==
  \A c \in Codes :
    employee[c] # None /\ employee[c].photo # None => employee[c].photo \in object

(* Nobody joins a department that is closed when they are written there,   *)
(* neither employees nor visitors (the shared locks of _department).       *)
NobodyJoinsClosedDepartment ==
  [][/\ \A c \in Codes :
          /\ employee'[c] # None /\ employee'[c].department # None
          /\ employee[c] = None \/ employee[c].department # employee'[c].department
          => department'[employee'[c].department].active
     /\ \A v \in visitors' \ visitors :
          department'[v.content.department].active]_vars

(* A bulk change changes as many employees as its administrator confirmed, *)
(* whatever others change between the preview and its row locks.           *)
BulkAsConfirmed ==
  [][\A w \in Workers :
       op[w] # None /\ op[w].kind = "BULK" /\ pc[w] = "commit" /\ employee' # employee
       /\ pc'[w] = "idle" =>
         Cardinality({c \in Codes : employee'[c] # employee[c]})
           = plan[w].count]_vars

(* The trail tells each change of an employee's meal types: what they were *)
(* and what they are now, which is what was asked for.                     *)
GrantsAudited ==
  [][\A c \in Codes :
       \/ trail'[c] = trail[c]
          /\ (employee[c] # None => employee'[c].grants = employee[c].grants)
       \/ trail'[c] = [before |-> IF employee[c] = None THEN {} ELSE employee[c].grants,
                       after |-> employee'[c].grants]]_vars

(* Nothing changes an employee who is removed.                             *)
RemovedStaysRemoved ==
  [][\A c \in Codes :
       employee[c] # None /\ employee[c].removed => employee'[c] = employee[c]]_vars

-----------------------------------------------------------------------------
(* Why they hold                                                           *)

Steps == {"idle", "actor", "employees", "department", "code", "types", "batch",
          "departments", "name", "row", "type", "visitors", "look", "put",
          "delete", "commit"}
Rows ==
  {AdminRow(a) : a \in Admins} \cup {EmployeeRow(c) : c \in Codes}
    \cup {DepartmentRow(d) : d \in Departments} \cup {NameKey(n) : n \in Names}
    \cup {TypeRow(t) : t \in Types}
    \cup {ImportKey(a, r) : a \in Admins, r \in Requests}
Plans ==
  [read : [Codes -> EmployeeRows \cup {None}], todo : Seq(Codes),
   types : SUBSET Types, department : Departments \cup {None}, make : BOOLEAN,
   count : Nat, key : Keys \cup {None}]
Previews == [who : SUBSET Codes, types : SUBSET Types, count : Nat]
Pages ==
  {p \in [request : Requests \cup {None}, file : Files \cup {None},
          submitted : BOOLEAN, first : BOOLEAN, worker : Workers \cup {None}] :
     p.worker # None => p.request # None}

(* Every variable the proofs are about keeps its type.                     *)
TypeOK ==
  /\ employee \in [Codes -> EmployeeRows \cup {None}]
  /\ department \in [Departments -> DepartmentRows \cup {None}]
  /\ offered \subseteq Types /\ object \subseteq Keys
  /\ imports \in [Admins \X Requests -> Files \cup {None}]
  /\ trail = [c \in Codes |-> trail[c]]
  /\ op \in [Workers -> Operations \cup ImportRequests \cup {None}]
  /\ pc \in [Workers -> Steps] /\ plan \in [Workers -> Plans]
  /\ held \in [Workers -> SUBSET Rows] /\ shared \in [Workers -> SUBSET Rows]
  /\ page \in [Admins -> Pages] /\ known \subseteq Admins \X Requests
  /\ preview \in [Admins -> Previews \cup {None}]

(* A row that one has for itself nobody else has.                          *)
LocksExclude ==
  \A v, w \in Workers : v # w => held[v] \cap (held[w] \cup shared[w]) = {}

(* A worker is at a statement of its request, and idle without one.        *)
AtStep(w) ==
  /\ IF pc[w] = "idle"
     THEN op[w] = None /\ plan[w] = NoPlan /\ held[w] = {} /\ shared[w] = {}
     ELSE op[w] # None
  /\ pc[w] \in {"look", "put", "delete"} => op[w].kind = "PHOTO"
  /\ pc[w] = "employees" => op[w].kind \in AboutEmployees
  /\ pc[w] = "department" => op[w].kind \in {"REGISTER", "MOVE", "VISITORS"}
  /\ pc[w] = "code" => op[w].kind \in {"REGISTER", "IMPORT"}
  /\ pc[w] = "types" =>
       op[w].kind \in {"GRANT", "BULK", "REGISTER", "IMPORT", "VISITORS"}
  /\ pc[w] \in {"batch", "departments"} => op[w].kind = "IMPORT"
  /\ pc[w] = "name" =>
       op[w].kind \in {"IMPORT", "DEPARTMENT_CREATE", "DEPARTMENT_RENAME"}
  /\ pc[w] = "row" => op[w].kind \in {"DEPARTMENT_RENAME", "DEPARTMENT_ACTIVE"}
  /\ pc[w] = "type" => op[w].kind = "TYPE_ACTIVE"
  /\ pc[w] = "visitors" => op[w].kind = "VISITORS"
  /\ op[w] # None /\ op[w].kind = "IMPORT"
     /\ (pc[w] \in {"departments", "name"} \/ plan[w].make) => op[w].file.name # None
  /\ plan[w].key # None => op[w].kind = "PHOTO"

(* The employees it is about are still as it read them.                    *)
EmployeesAsRead(w) ==
  pc[w] \in {"department", "types", "commit"} /\ op[w].kind \in AboutEmployees =>
    \A c \in op[w].who :
      /\ EmployeeRow(c) \in held[w]
      /\ Registered(c) /\ plan[w].read[c] = employee[c]

(* The codes it registers are free, or it has not come to them yet.        *)
NewCodes(w) ==
  IF op[w].kind = "IMPORT"
  THEN {op[w].file.codes[i] : i \in DOMAIN op[w].file.codes} ELSE op[w].who
ToCome(w, c) ==
  \E i \in DOMAIN plan[w].todo :
    /\ plan[w].todo[i] = c
    /\ pc[w] \in {"departments", "name", "code"} \/ (pc[w] = "types" /\ i > 1)
Enrolling(w) ==
  \/ /\ pc[w] \in {"code", "types", "commit"}
     /\ op[w].kind \in {"REGISTER", "IMPORT"}
  \/ pc[w] \in {"departments", "name"} /\ op[w].kind = "IMPORT"
CodesFree(w) ==
  Enrolling(w) =>
    /\ plan[w].todo # <<>>
    /\ \A c \in NewCodes(w) :
         ToCome(w, c) \/ (EmployeeRow(c) \in held[w] /\ employee[c] = None)

(* A department it takes people into is open, one it changes is its own.   *)
SharesOpen(w, d) == DepartmentRow(d) \in shared[w] /\ Open(d)
DepartmentAsRead(w) ==
  /\ pc[w] \in {"code", "types", "commit"} /\ op[w].kind \in {"REGISTER", "VISITORS"} =>
       SharesOpen(w, op[w].department)
  /\ pc[w] = "commit" /\ op[w].kind = "MOVE" =>
       \/ SharesOpen(w, op[w].department)
       \/ \A c \in op[w].who : plan[w].read[c].department = op[w].department
  /\ op[w] # None /\ op[w].kind = "IMPORT" /\ plan[w].department # None =>
       SharesOpen(w, plan[w].department)
  /\ pc[w] \in {"name", "commit"}
     /\ op[w].kind \in {"DEPARTMENT_RENAME", "DEPARTMENT_ACTIVE"} =>
       /\ DepartmentRow(op[w].department) \in held[w]
       /\ department[op[w].department] # None

(* The object it has stored is there, and no row has its key yet.          *)
PhotoUnnamed(w) ==
  /\ plan[w].key # None =>
       /\ plan[w].key \in object
       /\ \A c \in Codes : employee[c] # None => employee[c].photo # plan[w].key
       /\ \A v \in Workers \ {w} : plan[v].key # plan[w].key
  /\ pc[w] \in {"actor", "employees", "commit", "delete"} /\ op[w].kind = "PHOTO" =>
       plan[w].key # None

(* The confirmed count is that of the employees it read.                   *)
CountHolds(w) == pc[w] = "commit" => CountConfirmed(w)

WorkerInv(w) ==
  /\ AtStep(w) /\ EmployeesAsRead(w) /\ CodesFree(w) /\ DepartmentAsRead(w)
  /\ PhotoUnnamed(w) /\ CountHolds(w)

(* An import under way: its key, its page, and what is committed of it.    *)
Batch(w) == <<op[w].admin, op[w].request>>
ImportAsSent(w) ==
  op[w] # None /\ op[w].kind = "IMPORT" =>
    /\ pc[w] \in {"departments", "name", "code", "types", "commit"} =>
         ImportKey(op[w].admin, op[w].request) \in held[w]
    /\ imports[Batch(w)] # None =>
         imports[Batch(w)] = op[w].file /\ pc[w] \in {"actor", "batch"}
    /\ imports[Batch(w)] = None =>
         /\ page[op[w].admin].submitted
         /\ page[op[w].admin].request = op[w].request
         /\ page[op[w].admin].file = op[w].file
    /\ page[op[w].admin].request = op[w].request /\ page[op[w].admin].first =>
         page[op[w].admin].worker = w
PageWaits(a) ==
  /\ page[a].worker # None =>
       LET w == page[a].worker IN
       /\ op[w] # None /\ op[w].kind = "IMPORT" /\ op[w].admin = a
       /\ op[w].request = page[a].request
  /\ IF page[a].submitted
     THEN /\ page[a].request # None /\ page[a].file # None
          /\ <<a, page[a].request>> \notin known
     ELSE page[a] = NoImport

(* The employees of an import are those of its file.                       *)
BatchKept ==
  /\ \A b \in known : imports[b] # None
  /\ \A a \in Admins, r \in Requests :
       LET f == imports[<<a, r>>] IN
       Enrolled(a, r) = IF f = None THEN {} ELSE {f.codes[i] : i \in DOMAIN f.codes}

(* The inductive invariants: of the tables, and of imports and their pages. *)
TablesInv ==
  /\ TypeOK /\ LocksExclude /\ PhotosStored /\ \A w \in Workers : WorkerInv(w)
ImportsInv ==
  /\ \A w \in Workers : ImportAsSent(w)
  /\ \A a \in Admins : PageWaits(a)
  /\ BatchKept /\ ImportKept
=============================================================================
