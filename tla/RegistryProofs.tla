--------------------------- MODULE RegistryProofs ---------------------------
(***************************************************************************)
(* Proofs about Registry for any number of workers, administrators, codes, *)
(* departments, files and requests.  A row that a transaction has locked   *)
(* nobody else changes, so what it read there still holds at its commit;   *)
(* an import's page, key and batch are followed through every answer.      *)
(***************************************************************************)
EXTENDS Registry, FiniteSetTheorems, TLAPS

(* The requests of a worker, whatever they write.                          *)
Work(w) == Lookup(w) \/ Upload(w) \/ Write(w) \/ RollBack(w)
Start(w) == Begin(w) \/ \E a \in Admins : Submit(w, a)

(* Other workers are left alone, and rows they have are not taken.         *)
LeavesOthers(w) ==
  /\ \A v \in Workers \ {w} :
       /\ op'[v] = op[v] /\ pc'[v] = pc[v] /\ plan'[v] = plan[v]
       /\ held'[v] = held[v] /\ shared'[v] = shared[v]
       /\ held'[w] \cap (held[v] \cup shared[v]) \subseteq held[w]
       /\ shared'[w] \cap held[v] \subseteq shared[w]

(* Rows that others may have read are not written, nor their photos.       *)
WritesOwn(w) ==
  /\ \A c \in Codes : employee'[c] = employee[c] \/ EmployeeRow(c) \in held[w]
  /\ \A d \in Departments : department[d] # None =>
       /\ department'[d] = department[d] \/ DepartmentRow(d) \in held[w]
       /\ department'[d] # None
  /\ \/ object \subseteq object'
     \/ UNCHANGED employee /\ object' = object \ {plan[w].key}
  /\ \A c \in Codes : employee'[c] # None =>
       \/ employee'[c].photo \in {None, plan[w].key}
       \/ employee[c] # None /\ employee'[c].photo = employee[c].photo
  /\ plan'[w].key \in {None, plan[w].key} \cup UnusedKeys

-----------------------------------------------------------------------------
(* Rows and requests                                                       *)

LEMMA RowsDiffer ==
  /\ \A a, b : AdminRow(a) = AdminRow(b) => a = b
  /\ \A a, b : EmployeeRow(a) = EmployeeRow(b) => a = b
  /\ \A a, b : DepartmentRow(a) = DepartmentRow(b) => a = b
  /\ \A a, b, r, s : ImportKey(a, r) = ImportKey(b, s) => a = b /\ r = s
  /\ \A c, d : EmployeeRow(c) # DepartmentRow(d)
BY DEF AdminRow, EmployeeRow, DepartmentRow, ImportKey

LEMMA NonePlaces ==
  /\ None \notin Codes /\ None \notin Departments /\ None \notin Names
  /\ None \notin Keys /\ None \notin Requests /\ None \notin Workers
  /\ None \notin Files /\ None \notin Operations /\ None \notin EmployeeRows
  /\ None \notin DepartmentRows /\ None \notin Admins \X Requests
  /\ None \notin ImportRequests
  /\ \A types \in SUBSET Types : types # None
BY RegistryAssumption

LEMMA OperationParts ==
  ASSUME NEW o \in Operations
  PROVE  /\ o.kind \in Kinds /\ o.kind # "IMPORT" /\ o.admin \in Admins
         /\ o.who \subseteq Codes /\ o.active \in BOOLEAN
         /\ o.department \in Departments \cup {None}
         /\ o.name \in Names \cup {None}
         /\ o.types \in (SUBSET Types) \cup {None}
         /\ o.request \in Requests \cup {None}
         /\ o.kind = "REGISTER" => \E c \in Codes : o.who = {c}
         /\ o.kind \in {"GRANT", "BULK", "TYPE_ACTIVE", "VISITORS"} =>
              o.types \in SUBSET Types
         /\ o.kind \in {"REGISTER", "MOVE", "VISITORS", "DEPARTMENT_RENAME",
                        "DEPARTMENT_ACTIVE"} => o.department \in Departments
         /\ o.kind \in {"DEPARTMENT_CREATE", "DEPARTMENT_RENAME"} => o.name \in Names
         /\ o.kind = "VISITORS" => o.request \in Requests
         /\ o # None
<1>1. o \in OperationType /\ GoodOperation(o) BY RegistryAssumption
<1>2. /\ o.kind \in Kinds /\ o.admin \in Admins
      /\ o.who \subseteq Codes /\ o.active \in BOOLEAN
      /\ o.department \in Departments \cup {None}
      /\ o.name \in Names \cup {None}
      /\ o.types \in (SUBSET Types) \cup {None}
      /\ o.request \in Requests \cup {None}
  BY <1>1 DEF OperationType
<1>3. o # None BY NonePlaces
<1>4. /\ o.kind # "IMPORT"
      /\ o.kind = "REGISTER" => \E c \in Codes : o.who = {c}
  BY <1>1 DEF GoodOperation
<1>5. o.kind \in {"GRANT", "BULK", "TYPE_ACTIVE", "VISITORS"} =>
        o.types \in SUBSET Types
  <2>1. o.kind \in {"GRANT", "BULK", "TYPE_ACTIVE", "VISITORS"} => o.types # None
    BY <1>1 DEF GoodOperation
  <2>2. o.types \in SUBSET Types \/ o.types = None BY <1>2
  <2> QED BY <2>1, <2>2
<1>6. o.kind \in {"REGISTER", "MOVE", "VISITORS", "DEPARTMENT_RENAME",
                  "DEPARTMENT_ACTIVE"} => o.department \in Departments
  BY <1>1, <1>2 DEF GoodOperation
<1>7. o.kind \in {"DEPARTMENT_CREATE", "DEPARTMENT_RENAME"} => o.name \in Names
  BY <1>1, <1>2 DEF GoodOperation
<1>8. o.kind = "VISITORS" => o.request \in Requests
  BY <1>1, <1>2 DEF GoodOperation
<1> QED BY <1>2, <1>3, <1>4, <1>5, <1>6, <1>7, <1>8

LEMMA ImportParts ==
  ASSUME NEW o \in ImportRequests
  PROVE  /\ o.kind = "IMPORT" /\ o.admin \in Admins /\ o.request \in Requests
         /\ o.file \in Files
BY DEF ImportRequests

LEMMA FileParts ==
  ASSUME NEW f \in Files
  PROVE  /\ f.codes \in Seq(Codes) /\ f.codes # <<>> /\ f.name \in Names \cup {None}
         /\ f.types \in SUBSET Types /\ f # None
         /\ \A i, j \in DOMAIN f.codes : f.codes[i] = f.codes[j] => i = j
BY RegistryAssumption, NonePlaces DEF FileType, GoodFile

LEMMA RowsTyped ==
  /\ \A a \in Admins : AdminRow(a) \in Rows
  /\ \A c \in Codes : EmployeeRow(c) \in Rows
  /\ \A d \in Departments : DepartmentRow(d) \in Rows
  /\ \A n \in Names : NameKey(n) \in Rows
  /\ \A t \in Types : TypeRow(t) \in Rows
  /\ \A a \in Admins, r \in Requests : ImportKey(a, r) \in Rows
BY DEF Rows

(* A request of a worker is an operation or an import.                     *)
LEMMA RequestParts ==
  ASSUME TypeOK, NEW w \in Workers, op[w] # None
  PROVE  /\ op[w] \in Operations \/ op[w] \in ImportRequests
         /\ op[w].admin \in Admins
         /\ op[w].kind # "IMPORT" => op[w] \in Operations
         /\ op[w].kind = "IMPORT" => op[w] \in ImportRequests
<1>1. op[w] \in Operations \/ op[w] \in ImportRequests BY DEF TypeOK
<1>2. CASE op[w] \in Operations BY <1>2, OperationParts
<1>3. CASE op[w] \in ImportRequests BY <1>3, ImportParts
<1> QED BY <1>1, <1>2, <1>3

LEMMA PlanParts ==
  ASSUME TypeOK, NEW w \in Workers
  PROVE  /\ plan[w].read \in [Codes -> EmployeeRows \cup {None}]
         /\ plan[w].todo \in Seq(Codes) /\ plan[w].types \in SUBSET Types
         /\ plan[w].department \in Departments \cup {None}
         /\ plan[w].make \in BOOLEAN /\ plan[w].count \in Nat
         /\ plan[w].key \in Keys \cup {None}
         /\ plan[w] \in Plans
BY DEF TypeOK, Plans

LEMMA NoPlanTyped == NoPlan \in Plans
BY DEF NoPlan, Plans

(* Each end of a request lets go of its rows.                              *)
LEMMA Ends ==
  ASSUME NEW w \in Workers, NEW answer, Finish(w, answer)
  PROVE  /\ op' = [op EXCEPT ![w] = None] /\ pc' = [pc EXCEPT ![w] = "idle"]
         /\ plan' = [plan EXCEPT ![w] = NoPlan]
         /\ held' = [held EXCEPT ![w] = {}]
         /\ shared' = [shared EXCEPT ![w] = {}]
BY DEF Finish

LEMMA Refusals ==
  ASSUME NEW w \in Workers, NEW code, Refuse(w, code)
  PROVE  /\ UNCHANGED <<tables, object, bounds>>
         /\ \/ Finish(w, code) /\ plan[w].key = None
            \/ /\ plan[w].key # None /\ UNCHANGED <<op, plan, browser>>
               /\ pc' = [pc EXCEPT ![w] = "delete"]
               /\ held' = [held EXCEPT ![w] = {}]
               /\ shared' = [shared EXCEPT ![w] = {}]
BY DEF Refuse, GoOn, Finish

LEMMA Commits ==
  ASSUME NEW w \in Workers, Committed(w)
  PROVE  \E answer \in {"OK", "ERROR"} : Finish(w, answer)
BY DEF Committed, Lost

LEMMA EndsLeaveOthers ==
  ASSUME TypeOK, NEW w \in Workers, NEW answer, Finish(w, answer)
  PROVE  LeavesOthers(w)
<1> USE DEF TypeOK
<1>1. held'[w] = {} /\ shared'[w] = {} BY Ends
<1>2. \A v \in Workers \ {w} :
       /\ op'[v] = op[v] /\ pc'[v] = pc[v] /\ plan'[v] = plan[v]
       /\ held'[v] = held[v] /\ shared'[v] = shared[v]
  BY Ends
<1> QED BY <1>1, <1>2 DEF LeavesOthers

LEMMA RefusalsLeaveOthers ==
  ASSUME TypeOK, NEW w \in Workers, NEW code, Refuse(w, code)
  PROVE  LeavesOthers(w)
<1>1. CASE Finish(w, code) BY <1>1, EndsLeaveOthers
<1>2. CASE /\ UNCHANGED <<op, plan>> /\ pc' = [pc EXCEPT ![w] = "delete"]
           /\ held' = [held EXCEPT ![w] = {}]
           /\ shared' = [shared EXCEPT ![w] = {}]
  <2>1. held'[w] = {} /\ shared'[w] = {} BY <1>2 DEF TypeOK
  <2> QED BY <1>2, <2>1 DEF LeavesOthers, TypeOK
<1> QED BY <1>1, <1>2, Refusals

LEMMA LockLeavesOthers ==
  ASSUME TypeOK, NEW w \in Workers, NEW rows, Lock(w, rows), Free(w, rows),
         NEW step, GoOn(w, step),
         \A v \in Workers \ {w} : plan'[v] = plan[v]
  PROVE  LeavesOthers(w)
BY DEF LeavesOthers, Lock, Free, GoOn, TypeOK

LEMMA ShareLeavesOthers ==
  ASSUME TypeOK, NEW w \in Workers, NEW rows, Share(w, rows), FreeToShare(w, rows),
         NEW step, GoOn(w, step),
         \A v \in Workers \ {w} : plan'[v] = plan[v]
  PROVE  LeavesOthers(w)
BY DEF LeavesOthers, Share, FreeToShare, GoOn, TypeOK

LEMMA GoOnLeavesOthers ==
  ASSUME TypeOK, NEW w \in Workers, NEW step, GoOn(w, step),
         UNCHANGED <<held, shared>>,
         \A v \in Workers \ {w} : plan'[v] = plan[v]
  PROVE  LeavesOthers(w)
BY DEF LeavesOthers, GoOn, TypeOK

LEMMA OthersKept ==
  ASSUME TypeOK, NEW w \in Workers, Start(w) \/ Work(w)
  PROVE  LeavesOthers(w)
<1>1. CASE Start(w)
  BY <1>1 DEF Start, Begin, Submit, LeavesOthers, TypeOK
<1>2. CASE LockActor(w)
  BY <1>2, LockLeavesOthers DEF LockActor
<1>3. CASE LockEmployees(w)
  <2>1. CASE Refuse(w, "EMPLOYEE_NOT_FOUND") BY <2>1, RefusalsLeaveOthers
  <2>2. CASE ~Refuse(w, "EMPLOYEE_NOT_FOUND")
    <3>1. \A v \in Workers \ {w} : plan'[v] = plan[v]
      BY <1>3, <2>2 DEF LockEmployees, TypeOK
    <3>2. \E step : GoOn(w, step) BY <1>3, <2>2 DEF LockEmployees
    <3>3. Lock(w, EmployeesToLock(w)) /\ Free(w, EmployeesToLock(w))
      BY <1>3, <2>2 DEF LockEmployees
    <3> QED BY <3>1, <3>2, <3>3, LockLeavesOthers
  <2> QED BY <2>1, <2>2
<1>4. CASE ShareDepartment(w)
  <2>1. CASE Refuse(w, "DEPARTMENT_UNAVAILABLE") BY <2>1, RefusalsLeaveOthers
  <2>2. CASE ~Refuse(w, "DEPARTMENT_UNAVAILABLE")
    <3>1. \A v \in Workers \ {w} : plan'[v] = plan[v]
      BY <1>4, <2>2 DEF ShareDepartment, TypeOK
    <3>2. \E step : GoOn(w, step) BY <1>4, <2>2 DEF ShareDepartment
    <3>3. Share(w, DepartmentToShare(w)) /\ FreeToShare(w, DepartmentToShare(w))
      BY <1>4, <2>2 DEF ShareDepartment
    <3> QED BY <3>1, <3>2, <3>3, ShareLeavesOthers
  <2> QED BY <2>1, <2>2
<1>5. CASE InsertEmployee(w)
  BY <1>5, LockLeavesOthers, RefusalsLeaveOthers DEF InsertEmployee
<1>6. CASE ShareTypes(w)
  <2> DEFINE rows == {TypeRow(t) : t \in TypesToShare(w)}
  <2>1. CASE \E code : Refuse(w, code) BY <2>1, RefusalsLeaveOthers
  <2>2. CASE ~\E code : Refuse(w, code)
    <3>1. \A v \in Workers \ {w} : plan'[v] = plan[v]
      BY <1>6, <2>2 DEF ShareTypes, TypeOK
    <3>2. \E step : GoOn(w, step) BY <1>6, <2>2 DEF ShareTypes
    <3>3. Share(w, rows) /\ FreeToShare(w, rows)
      BY <1>6, <2>2 DEF ShareTypes
    <3> QED BY <3>1, <3>2, <3>3, ShareLeavesOthers
  <2> QED BY <2>1, <2>2
<1>7. CASE FindImport(w)
  <2> DEFINE rows == {ImportKey(op[w].admin, op[w].request)}
  <2>1. CASE \E code : Refuse(w, code) BY <2>1, RefusalsLeaveOthers
  <2>2. CASE ~\E code : Refuse(w, code)
    <3>1. \A v \in Workers \ {w} : plan'[v] = plan[v]
      BY <1>7, <2>2 DEF FindImport, TypeOK
    <3>2. \E step : GoOn(w, step) BY <1>7, <2>2 DEF FindImport
    <3>3. Lock(w, rows) /\ Free(w, rows)
      BY <1>7, <2>2 DEF FindImport
    <3> QED BY <3>1, <3>2, <3>3, LockLeavesOthers
  <2> QED BY <2>1, <2>2
<1>8. CASE FindDepartment(w)
  <2> DEFINE rows == {DepartmentRow(d) : d \in {x \in Departments : department[x] # None}}
  <2>1. CASE \E code : Refuse(w, code) BY <2>1, RefusalsLeaveOthers
  <2>2. CASE ~\E code : Refuse(w, code)
    <3>1. \A v \in Workers \ {w} : plan'[v] = plan[v]
      BY <1>8, <2>2 DEF FindDepartment, TypeOK
    <3>2. \E step : GoOn(w, step) BY <1>8, <2>2 DEF FindDepartment
    <3>3. Share(w, rows) /\ FreeToShare(w, rows)
      BY <1>8, <2>2 DEF FindDepartment
    <3> QED BY <3>1, <3>2, <3>3, ShareLeavesOthers
  <2> QED BY <2>1, <2>2
<1>9. CASE InsertName(w)
  BY <1>9, LockLeavesOthers, RefusalsLeaveOthers DEF InsertName
<1>10. CASE LockDepartment(w)
  BY <1>10, LockLeavesOthers, RefusalsLeaveOthers DEF LockDepartment
<1>11. CASE LockType(w)
  BY <1>11, LockLeavesOthers DEF LockType
<1>12. CASE FindVisitors(w)
  BY <1>12, GoOnLeavesOthers, RefusalsLeaveOthers DEF FindVisitors
<1>13. CASE LookAtEmployee(w)
  BY <1>13, GoOnLeavesOthers, RefusalsLeaveOthers DEF LookAtEmployee
<1>14. CASE RefusePhoto(w)
  BY <1>14, RefusalsLeaveOthers DEF RefusePhoto
<1>15. CASE PutPhoto(w)
  <2>1. CASE Finish(w, "ERROR") BY <2>1, EndsLeaveOthers
  <2>2. CASE ~Finish(w, "ERROR")
    BY <1>15, <2>2 DEF PutPhoto, LeavesOthers, TypeOK
  <2> QED BY <2>1, <2>2
<1>16. CASE DeletePhoto(w)
  BY <1>16, EndsLeaveOthers DEF DeletePhoto
<1>17. CASE Write(w)
  <2>1. Committed(w)
    BY <1>17 DEF Write, Register, Import, Grant, Update, SetActive, Archive,
         CreateDepartment, RenameDepartment, SetDepartmentActive, SetTypeActive,
         CreateVisitors
  <2> QED BY <2>1, Commits, EndsLeaveOthers
<1>18. CASE RollBack(w)
  <2>1. CASE Finish(w, "ERROR") BY <2>1, EndsLeaveOthers
  <2>2. CASE ~Finish(w, "ERROR")
    BY <1>18, <2>2 DEF RollBack, LeavesOthers, TypeOK
  <2> QED BY <2>1, <2>2
<1> QED
  BY <1>1, <1>2, <1>3, <1>4, <1>5, <1>6, <1>7, <1>8, <1>9, <1>10, <1>11, <1>12,
     <1>13, <1>14, <1>15, <1>16, <1>17, <1>18 DEF Work, Lookup, Upload

LEMMA LocksStayExclusive ==
  ASSUME TypeOK, LocksExclude, NEW w \in Workers, LeavesOthers(w)
  PROVE  LocksExclude'
<1> SUFFICES ASSUME NEW u \in Workers, NEW v \in Workers, u # v
             PROVE  held'[u] \cap (held'[v] \cup shared'[v]) = {}
  BY DEF LocksExclude
<1>1. held[u] \cap (held[v] \cup shared[v]) = {} BY DEF LocksExclude
<1>2. held[v] \cap (held[u] \cup shared[u]) = {} BY DEF LocksExclude
<1>3. CASE u = w BY <1>1, <1>2, <1>3 DEF LeavesOthers
<1>4. CASE v = w BY <1>1, <1>2, <1>4 DEF LeavesOthers
<1>5. CASE u # w /\ v # w BY <1>1, <1>5 DEF LeavesOthers
<1> QED BY <1>3, <1>4, <1>5

-----------------------------------------------------------------------------
(* What a step writes                                                      *)

LEMMA QuietWritesOwn ==
  ASSUME NEW w \in Workers, UNCHANGED <<employee, department, object>>,
         plan'[w].key \in {None, plan[w].key} \cup UnusedKeys
  PROVE  WritesOwn(w)
BY DEF WritesOwn

LEMMA EndedPlan ==
  ASSUME TypeOK, NEW w \in Workers, NEW answer, Finish(w, answer)
  PROVE  plan'[w] = NoPlan /\ plan'[w].key = None
<1>1. plan'[w] = NoPlan BY Ends DEF TypeOK
<1>2. NoPlan.key = None BY DEF NoPlan
<1> QED BY <1>1, <1>2

LEMMA LookupsWriteNothing ==
  ASSUME TypeOK, NEW w \in Workers,
         Start(w) \/ Lookup(w) \/ LookAtEmployee(w) \/ RefusePhoto(w) \/ RollBack(w)
  PROVE  /\ UNCHANGED <<tables, object>>
         /\ plan'[w].key \in {None, plan[w].key}
<1> USE DEF tables
<1>1. CASE \E answer : Finish(w, answer) /\ UNCHANGED <<tables, object>>
  BY <1>1, EndedPlan
<1>2. CASE \E code : Refuse(w, code)
  BY <1>2, Refusals, EndedPlan
<1>3. CASE Start(w)
  BY <1>3 DEF Start, Begin, Submit, TypeOK, Plans
<1>4. CASE LockActor(w)
  BY <1>4 DEF LockActor, GoOn
<1>5. CASE LockEmployees(w)
  BY <1>2, <1>5 DEF LockEmployees, GoOn, TypeOK, Plans
<1>6. CASE ShareDepartment(w)
  BY <1>2, <1>6 DEF ShareDepartment, GoOn, TypeOK, Plans
<1>7. CASE InsertEmployee(w)
  BY <1>2, <1>7 DEF InsertEmployee, GoOn
<1>8. CASE ShareTypes(w)
  BY <1>2, <1>8 DEF ShareTypes, GoOn, TypeOK, Plans
<1>9. CASE FindImport(w)
  BY <1>2, <1>9 DEF FindImport, GoOn, TypeOK, Plans
<1>10. CASE FindDepartment(w)
  BY <1>2, <1>10 DEF FindDepartment, GoOn, TypeOK, Plans
<1>11. CASE InsertName(w)
  BY <1>2, <1>11 DEF InsertName, GoOn
<1>12. CASE LockDepartment(w)
  BY <1>2, <1>12 DEF LockDepartment, GoOn
<1>13. CASE LockType(w)
  BY <1>13 DEF LockType, GoOn
<1>14. CASE FindVisitors(w)
  BY <1>2, <1>14 DEF FindVisitors, GoOn
<1>15. CASE LookAtEmployee(w)
  BY <1>2, <1>15 DEF LookAtEmployee, GoOn
<1>16. CASE RefusePhoto(w)
  BY <1>2, <1>16 DEF RefusePhoto
<1>17. CASE RollBack(w)
  BY <1>1, <1>17 DEF RollBack, TypeOK, NoPlan
<1> QED
  BY <1>3, <1>4, <1>5, <1>6, <1>7, <1>8, <1>9, <1>10, <1>11, <1>12, <1>13,
     <1>14, <1>15, <1>16, <1>17 DEF Lookup

LEMMA CommitsFinish ==
  ASSUME TypeOK, NEW w \in Workers, Write(w)
  PROVE  /\ pc[w] = "commit" /\ UNCHANGED object /\ Committed(w)
         /\ plan'[w] = NoPlan /\ plan'[w].key = None
<1>1. pc[w] = "commit" /\ UNCHANGED object /\ Committed(w)
  BY DEF Write, Register, Import, Grant, Update, SetActive, Archive,
       CreateDepartment, RenameDepartment, SetDepartmentActive, SetTypeActive,
       CreateVisitors, WriteDepartment, Ready, Committed, Finish
<1> QED BY <1>1, Commits, EndedPlan

(* Employees are registered under codes the transaction has inserted.      *)
LEMMA EnrolWrites ==
  ASSUME NEW w \in Workers, NEW codes, NEW d, NEW types, NEW batch,
         Enrol(codes, d, types, batch),
         \A c \in codes : EmployeeRow(c) \in held[w]
  PROVE  \A c \in Codes :
           /\ employee'[c] = employee[c] \/ EmployeeRow(c) \in held[w]
           /\ employee'[c] # None =>
                \/ employee'[c].photo = None
                \/ employee[c] # None /\ employee'[c].photo = employee[c].photo
<1>1. \A c \in Codes : employee'[c] = IF c \in codes THEN NewEmployee(d, types, batch)
                                      ELSE employee[c]
  BY DEF Enrol
<1>2. NewEmployee(d, types, batch).photo = None BY DEF NewEmployee
<1> QED BY <1>1, <1>2

(* At its commit a registration has the rows of all its codes.             *)
LEMMA CodesHeld ==
  ASSUME NEW w \in Workers, CodesFree(w), pc[w] = "commit",
         op[w].kind \in {"REGISTER", "IMPORT"}
  PROVE  \A c \in NewCodes(w) : EmployeeRow(c) \in held[w] /\ employee[c] = None
BY DEF CodesFree, Enrolling, ToCome

LEMMA ReadAtCommit ==
  ASSUME NEW w \in Workers, EmployeesAsRead(w), pc[w] = "commit",
         op[w].kind \in AboutEmployees
  PROVE  \A c \in op[w].who :
           /\ EmployeeRow(c) \in held[w] /\ Registered(c)
           /\ plan[w].read[c] = employee[c]
BY DEF EmployeesAsRead

(* The employees a request is about keep or get a photo that is its own.   *)
LEMMA WritesToEmployees ==
  ASSUME TypeOK, NEW w \in Workers, WorkerInv(w),
         Grant(w) \/ Update(w) \/ SetActive(w) \/ Archive(w)
  PROVE  \A c \in Codes :
           /\ employee'[c] = employee[c] \/ c \in op[w].who
           /\ employee'[c] # None =>
                /\ employee[c] # None
                /\ employee'[c].photo \in {employee[c].photo, plan[w].key}
<1>1. op[w] # None /\ op[w].kind \in AboutEmployees /\ pc[w] = "commit"
  <2>1. pc[w] = "commit" /\ op[w].kind \in {"GRANT", "BULK", "MOVE", "PHOTO", "SET_ACTIVE", "ARCHIVE"}
    BY DEF Grant, Update, SetActive, Archive, Ready
  <2> QED BY <2>1 DEF WorkerInv, AtStep, AboutEmployees
<1>2. op[w].who \subseteq Codes
  BY <1>1, RequestParts, OperationParts DEF AboutEmployees
<1>3. \A c \in op[w].who :
        /\ EmployeeRow(c) \in held[w] /\ employee[c] # None
        /\ plan[w].read[c] = employee[c] /\ employee[c] \in EmployeeRows
  BY <1>1, <1>2, ReadAtCommit DEF WorkerInv, Registered, TypeOK
<1> SUFFICES ASSUME NEW c \in Codes
             PROVE  /\ employee'[c] = employee[c] \/ c \in op[w].who
                    /\ employee'[c] # None =>
                         /\ employee[c] # None
                         /\ employee'[c].photo \in {employee[c].photo, plan[w].key}
  OBVIOUS
<1>4. CASE Grant(w)
  <2>1. c \notin op[w].who => employee'[c] = employee[c]
    BY <1>4 DEF Grant
  <2>2. c \in op[w].who => employee'[c] = employee[c] \/ employee'[c].photo = employee[c].photo
    BY <1>3, <1>4 DEF Grant, EmployeeRows
  <2> QED BY <2>1, <2>2, <1>3
<1>5. CASE Update(w)
  <2>1. c \notin op[w].who => employee'[c] = employee[c]
    BY <1>5 DEF Update
  <2>2. c \in op[w].who => employee'[c].photo \in {employee[c].photo, plan[w].key}
    BY <1>3, <1>5 DEF Update, EmployeeRows
  <2> QED BY <2>1, <2>2, <1>3
<1>6. CASE SetActive(w) \/ Archive(w)
  <2>1. c \notin op[w].who => employee'[c] = employee[c]
    BY <1>6 DEF SetActive, Archive
  <2>2. c \in op[w].who => employee'[c].photo = employee[c].photo
    BY <1>3, <1>6 DEF SetActive, Archive, EmployeeRows
  <2> QED BY <2>1, <2>2, <1>3
<1> QED BY <1>4, <1>5, <1>6

LEMMA WritesOfEmployees ==
  ASSUME TypeOK, NEW w \in Workers, WorkerInv(w),
         Grant(w) \/ Update(w) \/ SetActive(w) \/ Archive(w)
  PROVE  WritesOwn(w)
<1>1. UNCHANGED <<department, object>> /\ plan'[w].key = None
  BY CommitsFinish DEF Grant, Update, SetActive, Archive, Write
<1>2. pc[w] = "commit" /\ op[w].kind \in AboutEmployees
  BY DEF Grant, Update, SetActive, Archive, Ready, AboutEmployees
<1>3. \A c \in op[w].who : EmployeeRow(c) \in held[w]
  BY <1>2, ReadAtCommit DEF WorkerInv
<1> QED BY <1>1, <1>3, WritesToEmployees DEF WritesOwn

LEMMA ChangesOfDepartments ==
  ASSUME TypeOK, NEW w \in Workers, WorkerInv(w),
         CreateDepartment(w) \/ RenameDepartment(w) \/ SetDepartmentActive(w)
  PROVE  WritesOwn(w)
<1>1. UNCHANGED <<employee, object>> /\ plan'[w].key = None
  BY CommitsFinish DEF CreateDepartment, RenameDepartment, SetDepartmentActive,
       WriteDepartment, Write
<1>2. CASE CreateDepartment(w)
  BY <1>1, <1>2 DEF CreateDepartment, WriteDepartment, WritesOwn, TypeOK
<1>3. CASE RenameDepartment(w) \/ SetDepartmentActive(w)
  <2> DEFINE d == op[w].department
  <2>1. DepartmentRow(d) \in held[w] /\ department[d] # None
    BY <1>3 DEF RenameDepartment, SetDepartmentActive, Ready, WorkerInv, DepartmentAsRead
  <2>2. d \in Departments
    BY <1>3, RequestParts, OperationParts
       DEF RenameDepartment, SetDepartmentActive, Ready, WorkerInv, AtStep
  <2>3. department[d] \in DepartmentRows BY <2>1, <2>2 DEF TypeOK
  <2>4. \E row \in DepartmentRows : department' = [department EXCEPT ![d] = row]
    <3>1. CASE RenameDepartment(w)
      <4>1. op[w].name \in Names
        BY <3>1, RequestParts, OperationParts
           DEF RenameDepartment, Ready, WorkerInv, AtStep
      <4> QED BY <3>1, <2>3, <4>1 DEF RenameDepartment, WriteDepartment, DepartmentRows
    <3>2. CASE SetDepartmentActive(w)
      <4>1. op[w].active \in BOOLEAN
        BY <3>2, RequestParts, OperationParts
           DEF SetDepartmentActive, Ready, WorkerInv, AtStep
      <4> QED BY <3>2, <2>3, <4>1 DEF SetDepartmentActive, WriteDepartment, DepartmentRows
    <3> QED BY <1>3, <3>1, <3>2
  <2> HIDE DEF d
  <2> QED BY <1>1, <2>1, <2>2, <2>4, NonePlaces DEF WritesOwn, TypeOK
<1> QED BY <1>2, <1>3

LEMMA WritesOfRegistrations ==
  ASSUME TypeOK, NEW w \in Workers, WorkerInv(w), Register(w) \/ Import(w)
  PROVE  WritesOwn(w)
<1>1. UNCHANGED object /\ plan'[w].key = None
  BY CommitsFinish DEF Write
<1>2. \A c \in NewCodes(w) : EmployeeRow(c) \in held[w]
  BY CodesHeld DEF Register, Import, Ready, WorkerInv
<1>3. CASE Register(w)
  <2>1. NewCodes(w) = op[w].who BY <1>3 DEF Register, Ready, NewCodes
  <2>2. UNCHANGED department BY <1>3 DEF Register
  <2>3. Enrol(op[w].who, op[w].department, plan[w].types, None)
    BY <1>3 DEF Register
  <2> QED BY <1>1, <1>2, <2>1, <2>2, <2>3, EnrolWrites DEF WritesOwn
<1>4. CASE Import(w)
  <2>1. NewCodes(w) = {op[w].file.codes[i] : i \in DOMAIN op[w].file.codes}
    BY <1>4 DEF Import, Ready, NewCodes
  <2>2. PICK d \in Departments \cup {None} :
       /\ IF plan[w].make
          THEN /\ d # None /\ department[d] = None
               /\ department' = [department EXCEPT ![d] =
                                   [name |-> op[w].file.name, active |-> TRUE]]
          ELSE d = plan[w].department /\ UNCHANGED department
       /\ Enrol(NewCodes(w), d, op[w].file.types, <<op[w].admin, op[w].request>>)
    BY <1>4, <2>1 DEF Import
  <2>3. \A x \in Departments : department[x] # None => department'[x] = department[x]
    BY <2>2 DEF TypeOK
  <2> QED BY <1>1, <1>2, <2>2, <2>3, EnrolWrites DEF WritesOwn
<1> QED BY <1>3, <1>4

LEMMA WritesOfUploads ==
  ASSUME TypeOK, NEW w \in Workers, PutPhoto(w) \/ DeletePhoto(w)
  PROVE  WritesOwn(w)
<1>1. UNCHANGED <<employee, department>>
  BY DEF PutPhoto, DeletePhoto, tables
<1>2. CASE PutPhoto(w)
  <2>1. PICK k \in UnusedKeys :
       \/ object' = object \cup {k} /\ plan' = [plan EXCEPT ![w].key = k]
       \/ object' \in FailedPut(k) /\ Finish(w, "ERROR")
    BY <1>2 DEF PutPhoto
  <2>2. object \subseteq object'
    BY <2>1, RegistryAssumption DEF FailedPut, LocalPut, S3Put, VercelPut
  <2>3. plan'[w].key \in {None} \cup UnusedKeys
    BY <2>1, EndedPlan DEF TypeOK, Plans
  <2> QED BY <1>1, <2>2, <2>3 DEF WritesOwn
<1>3. CASE DeletePhoto(w)
  <2>1. Finish(w, "ERROR") /\ (object' = object \/ object' = object \ {plan[w].key})
    BY <1>3 DEF DeletePhoto
  <2>2. plan'[w].key = None BY <2>1, EndedPlan
  <2> QED BY <1>1, <2>1, <2>2 DEF WritesOwn
<1> QED BY <1>2, <1>3

LEMMA RowsProtected ==
  ASSUME TypeOK, NEW w \in Workers, WorkerInv(w), Start(w) \/ Work(w)
  PROVE  WritesOwn(w)
<1>1. CASE Start(w) \/ Lookup(w) \/ LookAtEmployee(w) \/ RefusePhoto(w) \/ RollBack(w)
  BY <1>1, LookupsWriteNothing, QuietWritesOwn DEF tables
<1>2. CASE PutPhoto(w) \/ DeletePhoto(w) BY <1>2, WritesOfUploads
<1>3. CASE Register(w) \/ Import(w) BY <1>3, WritesOfRegistrations
<1>4. CASE Grant(w) \/ Update(w) \/ SetActive(w) \/ Archive(w)
  BY <1>4, WritesOfEmployees
<1>5. CASE CreateDepartment(w) \/ RenameDepartment(w) \/ SetDepartmentActive(w)
  BY <1>5, ChangesOfDepartments
<1>6. CASE SetTypeActive(w) \/ CreateVisitors(w)
  <2>1. UNCHANGED <<employee, department, object>>
    BY <1>6 DEF SetTypeActive, CreateVisitors
  <2>2. plan'[w].key = None BY <1>6, CommitsFinish DEF Write
  <2> QED BY <2>1, <2>2, QuietWritesOwn
<1> QED BY <1>1, <1>2, <1>3, <1>4, <1>5, <1>6 DEF Work, Upload, Write

-----------------------------------------------------------------------------
(* What other workers rely on                                              *)

(* A row somebody else has, or shares, is as it was.                       *)
LEMMA TheirRowsStay ==
  ASSUME TypeOK, LocksExclude, NEW w \in Workers, NEW v \in Workers \ {w},
         WritesOwn(w)
  PROVE  /\ \A c \in Codes : EmployeeRow(c) \in held[v] => employee'[c] = employee[c]
         /\ \A d \in Departments :
              DepartmentRow(d) \in held[v] \cup shared[v] /\ department[d] # None =>
                department'[d] = department[d]
<1>1. held[w] \cap (held[v] \cup shared[v]) = {}
  BY DEF LocksExclude
<1> QED BY <1>1 DEF WritesOwn

LEMMA OthersHold ==
  ASSUME TypeOK, LocksExclude, NEW w \in Workers, LeavesOthers(w), WritesOwn(w),
         NEW v \in Workers \ {w}, WorkerInv(v)
  PROVE  WorkerInv(v)'
<1>1. /\ op'[v] = op[v] /\ pc'[v] = pc[v] /\ plan'[v] = plan[v]
      /\ held'[v] = held[v] /\ shared'[v] = shared[v]
  BY DEF LeavesOthers
<1>2. /\ \A c \in Codes : EmployeeRow(c) \in held[v] => employee'[c] = employee[c]
      /\ \A d \in Departments :
           DepartmentRow(d) \in held[v] \cup shared[v] /\ department[d] # None =>
             department'[d] = department[d]
  BY TheirRowsStay
<1>3. op[v] # None => op[v] \in Operations \/ op[v] \in ImportRequests
  BY RequestParts
<1>4. AtStep(v)' BY <1>1 DEF WorkerInv, AtStep
<1>5. EmployeesAsRead(v)'
  <2>1. pc[v] \in {"department", "types", "commit"} /\ op[v].kind \in AboutEmployees
          => op[v].who \subseteq Codes
    BY <1>3, OperationParts, ImportParts DEF WorkerInv, AtStep, AboutEmployees
  <2> QED BY <1>1, <1>2, <2>1 DEF WorkerInv, EmployeesAsRead, Registered
<1>6. CodesFree(v)'
  <2>1. Enrolling(v) => NewCodes(v) \subseteq Codes
    <3>1. op[v].kind = "IMPORT" /\ op[v] # None => NewCodes(v) \subseteq Codes
      <4> SUFFICES ASSUME op[v].kind = "IMPORT", op[v] # None
                   PROVE  NewCodes(v) \subseteq Codes
        OBVIOUS
      <4>1. op[v].file.codes \in Seq(Codes) BY RequestParts, ImportParts, FileParts
      <4> QED BY <4>1 DEF NewCodes
    <3>2. op[v].kind = "REGISTER" /\ op[v] # None => NewCodes(v) \subseteq Codes
      BY RequestParts, OperationParts DEF NewCodes
    <3> QED BY <3>1, <3>2 DEF Enrolling, WorkerInv, AtStep
  <2>2. Enrolling(v)' <=> Enrolling(v) BY <1>1 DEF Enrolling
  <2>3. NewCodes(v)' = NewCodes(v) BY <1>1 DEF NewCodes
  <2>4. \A c : ToCome(v, c)' <=> ToCome(v, c) BY <1>1 DEF ToCome
  <2> QED BY <1>1, <1>2, <2>1, <2>2, <2>3, <2>4 DEF WorkerInv, CodesFree
<1>7. DepartmentAsRead(v)'
  <2>1. \A d \in Departments : SharesOpen(v, d) => SharesOpen(v, d)'
    BY <1>1, <1>2 DEF SharesOpen, Open
  <2>2. pc[v] \in {"code", "types", "commit"} /\ op[v].kind \in {"REGISTER", "VISITORS"} =>
          op[v].department \in Departments
    BY <1>3, OperationParts, ImportParts DEF WorkerInv, AtStep
  <2>3. pc[v] \in {"name", "commit"}
        /\ op[v].kind \in {"MOVE", "DEPARTMENT_RENAME", "DEPARTMENT_ACTIVE"} =>
          op[v].department \in Departments
    BY <1>3, OperationParts, ImportParts DEF WorkerInv, AtStep
  <2>4. plan[v].department # None => plan[v].department \in Departments
    BY PlanParts
  <2>5. DepartmentAsRead(v) BY DEF WorkerInv
  <2>6. (pc[v] \in {"code", "types", "commit"} /\ op[v].kind \in {"REGISTER", "VISITORS"} =>
          SharesOpen(v, op[v].department))'
    BY <1>1, <2>1, <2>2, <2>5 DEF DepartmentAsRead
  <2>7. (pc[v] = "commit" /\ op[v].kind = "MOVE" =>
           \/ SharesOpen(v, op[v].department)
           \/ \A c \in op[v].who : plan[v].read[c].department = op[v].department)'
    BY <1>1, <2>1, <2>3, <2>5 DEF DepartmentAsRead
  <2>8. (op[v] # None /\ op[v].kind = "IMPORT" /\ plan[v].department # None =>
           SharesOpen(v, plan[v].department))'
    BY <1>1, <2>1, <2>4, <2>5 DEF DepartmentAsRead
  <2>9. (pc[v] \in {"name", "commit"}
         /\ op[v].kind \in {"DEPARTMENT_RENAME", "DEPARTMENT_ACTIVE"} =>
           /\ DepartmentRow(op[v].department) \in held[v]
           /\ department[op[v].department] # None)'
    BY <1>1, <1>2, <2>3, <2>5 DEF DepartmentAsRead
  <2> QED BY <2>6, <2>7, <2>8, <2>9 DEF DepartmentAsRead
<1>8. PhotoUnnamed(v)'
  <2>1. PhotoUnnamed(v) BY DEF WorkerInv
  <2>2. plan[v].key # None => plan[v].key # plan[w].key
    BY <2>1 DEF PhotoUnnamed
  <2>3. plan[v].key # None => plan[v].key # plan'[w].key
    BY <2>2 DEF WritesOwn, UnusedKeys
  <2>4. plan[v].key # None => plan[v].key \in object'
    BY <2>1, <2>2 DEF WritesOwn, PhotoUnnamed
  <2>5. plan[v].key # None =>
          \A c \in Codes : employee'[c] # None => employee'[c].photo # plan[v].key
    BY <2>1, <2>2 DEF WritesOwn, PhotoUnnamed
  <2>6. plan[v].key # None =>
          \A u \in Workers \ {v} : plan'[u].key # plan[v].key
    BY <2>1, <2>3 DEF LeavesOthers, PhotoUnnamed
  <2> QED BY <1>1, <2>1, <2>4, <2>5, <2>6 DEF PhotoUnnamed
<1>9. CountHolds(v)'
  BY <1>1 DEF WorkerInv, CountHolds, CountConfirmed
<1> QED BY <1>4, <1>5, <1>6, <1>7, <1>8, <1>9 DEF WorkerInv

-----------------------------------------------------------------------------
(* What a worker relies on itself                                          *)

LEMMA AfterEnd ==
  ASSUME TypeOK, NEW w \in Workers, NEW answer, Finish(w, answer)
  PROVE  WorkerInv(w)'
<1>1. /\ op'[w] = None /\ pc'[w] = "idle" /\ plan'[w] = NoPlan
      /\ held'[w] = {} /\ shared'[w] = {}
  BY Ends DEF TypeOK
<1>2. NoPlan.key = None /\ NoPlan.make = FALSE BY DEF NoPlan
<1>3. AtStep(w)' BY <1>1, <1>2 DEF AtStep
<1>4. EmployeesAsRead(w)' BY <1>1 DEF EmployeesAsRead
<1>5. CodesFree(w)' BY <1>1 DEF CodesFree, Enrolling
<1>6. DepartmentAsRead(w)' BY <1>1 DEF DepartmentAsRead
<1>7. PhotoUnnamed(w)' BY <1>1, <1>2 DEF PhotoUnnamed
<1>8. CountHolds(w)' BY <1>1 DEF CountHolds
<1> QED BY <1>3, <1>4, <1>5, <1>6, <1>7, <1>8 DEF WorkerInv

(* The key of a stored photo stays its own while nothing is written.       *)
LEMMA KeyStays ==
  ASSUME TypeOK, NEW w \in Workers, PhotoUnnamed(w), LeavesOthers(w),
         UNCHANGED <<employee, object>>, plan'[w].key = plan[w].key,
         pc'[w] \in {"actor", "employees", "commit", "delete"}
           /\ op'[w].kind = "PHOTO" => plan[w].key # None
  PROVE  PhotoUnnamed(w)'
BY DEF PhotoUnnamed, LeavesOthers

LEMMA AfterRefusal ==
  ASSUME TypeOK, NEW w \in Workers, WorkerInv(w), pc[w] # "idle",
         NEW code, Refuse(w, code)
  PROVE  WorkerInv(w)'
<1>1. CASE Finish(w, code) BY <1>1, AfterEnd
<1>2. CASE /\ plan[w].key # None /\ UNCHANGED <<op, plan, browser>>
           /\ pc' = [pc EXCEPT ![w] = "delete"]
           /\ held' = [held EXCEPT ![w] = {}]
           /\ shared' = [shared EXCEPT ![w] = {}]
  <2>1. UNCHANGED <<employee, department, object>> BY Refusals DEF tables
  <2>2. /\ op'[w] = op[w] /\ pc'[w] = "delete" /\ plan'[w] = plan[w]
        /\ op[w] # None /\ op[w].kind = "PHOTO"
    BY <1>2 DEF TypeOK, WorkerInv, AtStep
  <2>3. AtStep(w)' BY <1>2, <2>2 DEF WorkerInv, AtStep
  <2>4. EmployeesAsRead(w)' BY <2>2 DEF EmployeesAsRead
  <2>5. CodesFree(w)' BY <2>2 DEF CodesFree, Enrolling
  <2>6. DepartmentAsRead(w)' BY <2>2 DEF DepartmentAsRead
  <2>7. PhotoUnnamed(w)'
    BY <1>2, <2>1, <2>2, RefusalsLeaveOthers, KeyStays DEF WorkerInv
  <2>8. CountHolds(w)' BY <2>2 DEF CountHolds
  <2> QED BY <2>3, <2>4, <2>5, <2>6, <2>7, <2>8 DEF WorkerInv
<1> QED BY <1>1, <1>2, Refusals

LEMMA AfterLockActor ==
  ASSUME TypeOK, NEW w \in Workers, WorkerInv(w), LeavesOthers(w), LockActor(w)
  PROVE  WorkerInv(w)'
<1>1. /\ op'[w] = op[w] /\ pc[w] = "actor" /\ pc'[w] = First(op[w].kind)
      /\ plan'[w] = plan[w] /\ shared'[w] = shared[w]
      /\ UNCHANGED <<employee, department, object>>
  BY DEF LockActor, GoOn, Lock, TypeOK, tables
<1>2. op[w] # None /\ op[w].kind \in Kinds
  BY <1>1, RequestParts, OperationParts, ImportParts DEF WorkerInv, AtStep, Kinds
<1>3. /\ pc'[w] \notin {"idle", "types", "commit", "look", "put", "delete",
                        "code", "departments"}
      /\ pc'[w] = "employees" <=> op[w].kind \in AboutEmployees
      /\ pc'[w] = "department" <=> op[w].kind = "REGISTER"
      /\ pc'[w] = "batch" <=> op[w].kind = "IMPORT"
      /\ pc'[w] = "name" <=> op[w].kind = "DEPARTMENT_CREATE"
      /\ pc'[w] = "row" <=> op[w].kind \in {"DEPARTMENT_RENAME", "DEPARTMENT_ACTIVE"}
      /\ pc'[w] = "type" <=> op[w].kind = "TYPE_ACTIVE"
      /\ pc'[w] = "visitors" <=> op[w].kind = "VISITORS"
  BY <1>1, <1>2 DEF First, Kinds, AboutEmployees
<1>4. AtStep(w)' BY <1>1, <1>2, <1>3 DEF WorkerInv, AtStep
<1>5. EmployeesAsRead(w)' BY <1>1, <1>3 DEF EmployeesAsRead, AboutEmployees
<1>6. CodesFree(w)' BY <1>1, <1>3 DEF CodesFree, Enrolling
<1>7. DepartmentAsRead(w)'
  BY <1>1, <1>3 DEF WorkerInv, DepartmentAsRead, SharesOpen, Open
<1>8. PhotoUnnamed(w)'
  BY <1>1, KeyStays DEF WorkerInv, PhotoUnnamed
<1>9. CountHolds(w)' BY <1>3 DEF CountHolds
<1> QED BY <1>4, <1>5, <1>6, <1>7, <1>8, <1>9 DEF WorkerInv

LEMMA AfterLockEmployees ==
  ASSUME TypeOK, NEW w \in Workers, WorkerInv(w), LeavesOthers(w), LockEmployees(w)
  PROVE  WorkerInv(w)'
<1>1. CASE Refuse(w, "EMPLOYEE_NOT_FOUND")
  BY <1>1, AfterRefusal DEF LockEmployees
<1>2. CASE ~Refuse(w, "EMPLOYEE_NOT_FOUND")
  <2> DEFINE o == op[w]
             step == IF o.kind \in {"GRANT", "BULK"} THEN "types"
                     ELSE IF /\ o.kind = "MOVE"
                             /\ \E c \in o.who : employee[c].department # o.department
                     THEN "department" ELSE "commit"
             read == [c \in Codes |-> IF c \in o.who THEN employee[c] ELSE None]
  <2>1. /\ \A c \in o.who : Registered(c)
        /\ Lock(w, EmployeesToLock(w)) /\ GoOn(w, step)
        /\ plan' = [plan EXCEPT ![w].read = read]
    BY <1>2 DEF LockEmployees
  <2>2. pc[w] = "employees" /\ o # None /\ o.kind \in AboutEmployees
    BY DEF LockEmployees, WorkerInv, AtStep
  <2>3. o.who \subseteq Codes
    BY <2>2, RequestParts, OperationParts DEF AboutEmployees
  <2>4. /\ op'[w] = o /\ pc'[w] = step /\ shared'[w] = shared[w]
        /\ held'[w] = held[w] \cup EmployeesToLock(w)
        /\ UNCHANGED <<employee, department, object>>
    BY <2>1 DEF Lock, GoOn, TypeOK, tables
  <2>5. /\ plan'[w].read = read /\ plan'[w].key = plan[w].key
        /\ plan'[w].make = plan[w].make /\ plan'[w].department = plan[w].department
        /\ plan'[w].count = plan[w].count
    BY <2>1 DEF TypeOK, Plans
  <2>6. \A c \in o.who : EmployeeRow(c) \in held'[w] /\ read[c] = employee[c]
    BY <2>1, <2>3, <2>4 DEF EmployeesToLock, Registered
  <2>7. /\ pc'[w] = "types" <=> o.kind \in {"GRANT", "BULK"}
        /\ pc'[w] = "department" =>
             o.kind = "MOVE" /\ \E c \in o.who : employee[c].department # o.department
        /\ pc'[w] = "commit" /\ o.kind = "MOVE" =>
             \A c \in o.who : read[c].department = o.department
        /\ pc'[w] \in {"types", "department", "commit"}
    BY <2>4, <2>6
  <2> HIDE DEF o, step, read
  <2>8. AtStep(w)' BY <2>2, <2>4, <2>5, <2>7 DEF WorkerInv, AtStep, o, AboutEmployees
  <2>9. EmployeesAsRead(w)'
    BY <2>1, <2>4, <2>5, <2>6 DEF EmployeesAsRead, Registered, o
  <2>10. CodesFree(w)'
    BY <2>2, <2>4, <2>7 DEF CodesFree, Enrolling, AboutEmployees, o
  <2>11. DepartmentAsRead(w)'
    BY <2>2, <2>4, <2>5, <2>7 DEF DepartmentAsRead, AboutEmployees, o
  <2>12. PhotoUnnamed(w)'
    BY <2>2, <2>4, <2>5, KeyStays DEF WorkerInv, PhotoUnnamed, o
  <2>13. CountHolds(w)'
    BY <2>4, <2>7 DEF CountHolds, CountConfirmed, o
  <2> QED BY <2>8, <2>9, <2>10, <2>11, <2>12, <2>13 DEF WorkerInv
<1> QED BY <1>1, <1>2

LEMMA AfterShareDepartment ==
  ASSUME TypeOK, NEW w \in Workers, WorkerInv(w), LeavesOthers(w), ShareDepartment(w)
  PROVE  WorkerInv(w)'
<1>1. CASE Refuse(w, "DEPARTMENT_UNAVAILABLE")
  BY <1>1, AfterRefusal DEF ShareDepartment
<1>2. CASE ~Refuse(w, "DEPARTMENT_UNAVAILABLE")
  <2> DEFINE o == op[w]
             step == IF o.kind = "REGISTER" THEN "code"
                     ELSE IF o.kind = "MOVE" THEN "commit" ELSE "types"
  <2>1. /\ Open(o.department)
        /\ Share(w, DepartmentToShare(w)) /\ GoOn(w, step)
        /\ plan' = [plan EXCEPT ![w].department = o.department,
                                ![w].todo = Registering(o)]
    BY <1>2 DEF ShareDepartment
  <2>2. pc[w] = "department" /\ o # None /\ o.kind \in {"REGISTER", "MOVE", "VISITORS"}
    BY DEF ShareDepartment, WorkerInv, AtStep
  <2>3. /\ op'[w] = o /\ pc'[w] = step /\ held'[w] = held[w]
        /\ shared'[w] = shared[w] \cup {DepartmentRow(o.department)}
        /\ UNCHANGED <<employee, department, object>>
    BY <2>1 DEF Share, DepartmentToShare, GoOn, TypeOK, tables
  <2>4. /\ plan'[w].read = plan[w].read /\ plan'[w].key = plan[w].key
        /\ plan'[w].make = plan[w].make /\ plan'[w].todo = Registering(o)
        /\ plan'[w].count = plan[w].count
    BY <2>1 DEF TypeOK, Plans
  <2>5. /\ pc'[w] = "code" <=> o.kind = "REGISTER"
        /\ pc'[w] = "commit" <=> o.kind = "MOVE"
        /\ pc'[w] = "types" <=> o.kind = "VISITORS"
        /\ pc'[w] \in {"code", "types", "commit"}
    BY <2>2, <2>3
  <2>6. SharesOpen(w, o.department)'
    BY <2>1, <2>3 DEF SharesOpen, Open
  <2> HIDE DEF step
  <2>7. AtStep(w)' BY <2>2, <2>3, <2>4, <2>5 DEF WorkerInv, AtStep
  <2>8. EmployeesAsRead(w)'
    BY <2>2, <2>3, <2>4, <2>5 DEF WorkerInv, EmployeesAsRead, Registered
  <2>9. CodesFree(w)'
    <3>1. SUFFICES ASSUME Enrolling(w)'
                   PROVE  /\ plan'[w].todo # <<>>
                          /\ \A c \in NewCodes(w)' : ToCome(w, c)'
      BY DEF CodesFree
    <3>2. o.kind = "REGISTER" /\ pc'[w] = "code"
      BY <2>2, <2>3, <2>5, <3>1 DEF Enrolling
    <3>3. PICK c \in Codes : o.who = {c}
      BY <2>2, <3>2, RequestParts, OperationParts
    <3>4. plan'[w].todo = <<c>> BY <2>4, <3>2, <3>3 DEF Registering
    <3>5. NewCodes(w)' = {c} BY <2>3, <3>2, <3>3 DEF NewCodes
    <3> QED BY <3>2, <3>4, <3>5 DEF ToCome
  <2>10. DepartmentAsRead(w)'
    BY <2>2, <2>3, <2>5, <2>6 DEF DepartmentAsRead
  <2>11. PhotoUnnamed(w)'
    BY <2>2, <2>3, <2>4, KeyStays DEF WorkerInv
  <2>12. CountHolds(w)' BY <2>2, <2>3 DEF CountHolds, CountConfirmed
  <2> QED BY <2>7, <2>8, <2>9, <2>10, <2>11, <2>12 DEF WorkerInv
<1> QED BY <1>1, <1>2

LEMMA AfterInsertEmployee ==
  ASSUME TypeOK, NEW w \in Workers, WorkerInv(w), LeavesOthers(w), InsertEmployee(w)
  PROVE  WorkerInv(w)'
<1>1. CASE Refuse(w, "EMPLOYEE_CODE_EXISTS")
  BY <1>1, AfterRefusal DEF InsertEmployee
<1>2. CASE ~Refuse(w, "EMPLOYEE_CODE_EXISTS")
  <2> DEFINE x == Head(plan[w].todo)
  <2>1. /\ employee[x] = None /\ Lock(w, {EmployeeRow(x)}) /\ GoOn(w, "types")
        /\ plan' = plan
    BY <1>2 DEF InsertEmployee
  <2>2. pc[w] = "code" /\ op[w] # None /\ op[w].kind \in {"REGISTER", "IMPORT"}
    BY DEF InsertEmployee, WorkerInv, AtStep
  <2>3. /\ op'[w] = op[w] /\ pc'[w] = "types" /\ plan'[w] = plan[w]
        /\ held'[w] = held[w] \cup {EmployeeRow(x)} /\ shared'[w] = shared[w]
        /\ UNCHANGED <<employee, department, object>>
    BY <2>1 DEF Lock, GoOn, TypeOK, tables
  <2>4. AtStep(w)' BY <2>2, <2>3 DEF WorkerInv, AtStep
  <2>5. EmployeesAsRead(w)' BY <2>2, <2>3 DEF EmployeesAsRead, AboutEmployees
  <2>6. CodesFree(w)'
    <3>1. plan[w].todo # <<>> /\ plan[w].todo \in Seq(Codes)
      BY <2>2, PlanParts DEF WorkerInv, CodesFree, Enrolling
    <3>2. NewCodes(w)' = NewCodes(w) BY <2>3 DEF NewCodes
    <3>3. ASSUME NEW c \in NewCodes(w)
          PROVE  ToCome(w, c)' \/ (EmployeeRow(c) \in held'[w] /\ employee'[c] = None)
      <4>1. ToCome(w, c) \/ (EmployeeRow(c) \in held[w] /\ employee[c] = None)
        BY <2>2 DEF WorkerInv, CodesFree, Enrolling
      <4>2. CASE ToCome(w, c)
        <5>1. PICK i \in DOMAIN plan[w].todo : plan[w].todo[i] = c
          BY <4>2 DEF ToCome
        <5>2. CASE i = 1
          <6>1. c = x BY <3>1, <5>1, <5>2
          <6> QED BY <2>1, <2>3, <6>1
        <5>3. CASE i # 1
          <6>1. i > 1 BY <3>1, <5>3
          <6> QED BY <2>3, <5>1, <6>1 DEF ToCome
        <5> QED BY <5>2, <5>3
      <4> QED BY <2>3, <4>1, <4>2
    <3> QED BY <2>3, <3>1, <3>2, <3>3 DEF CodesFree
  <2>7. DepartmentAsRead(w)'
    BY <2>2, <2>3 DEF WorkerInv, DepartmentAsRead, SharesOpen, Open
  <2>8. PhotoUnnamed(w)'
    BY <2>2, <2>3, KeyStays DEF WorkerInv
  <2>9. CountHolds(w)' BY <2>3 DEF CountHolds
  <2> QED BY <2>4, <2>5, <2>6, <2>7, <2>8, <2>9 DEF WorkerInv
<1> QED BY <1>1, <1>2

LEMMA AfterShareTypes ==
  ASSUME TypeOK, NEW w \in Workers, WorkerInv(w), LeavesOthers(w), ShareTypes(w)
  PROVE  WorkerInv(w)'
<1>1. CASE \E code : Refuse(w, code)
  BY <1>1, AfterRefusal DEF ShareTypes
<1>2. CASE ~\E code : Refuse(w, code)
  <2> DEFINE o == op[w]
             todo == plan[w].todo
  <2>1. /\ CountConfirmed(w) /\ GoOn(w, AfterTypes(w))
        /\ Share(w, {TypeRow(t) : t \in TypesToShare(w)})
        /\ plan' = [plan EXCEPT
             ![w].types = IF Wanted(w) = None THEN offered ELSE Wanted(w),
             ![w].todo = IF AfterTypes(w) = "code" THEN Tail(@) ELSE @]
    BY <1>2 DEF ShareTypes
  <2>2. /\ pc[w] = "types" /\ o # None
        /\ o.kind \in {"GRANT", "BULK", "REGISTER", "IMPORT", "VISITORS"}
    BY DEF ShareTypes, WorkerInv, AtStep
  <2>3. /\ op'[w] = o /\ pc'[w] = AfterTypes(w) /\ held'[w] = held[w]
        /\ shared[w] \subseteq shared'[w]
        /\ UNCHANGED <<employee, department, object>>
    BY <2>1 DEF Share, GoOn, TypeOK, tables
  <2>4. /\ plan'[w].read = plan[w].read /\ plan'[w].key = plan[w].key
        /\ plan'[w].make = plan[w].make /\ plan'[w].department = plan[w].department
        /\ plan'[w].count = plan[w].count
        /\ plan'[w].todo = IF AfterTypes(w) = "code" THEN Tail(todo) ELSE todo
    BY <2>1 DEF TypeOK, Plans
  <2>5. pc'[w] \in {"code", "commit"}
        /\ (pc'[w] = "code" => o.kind \in {"REGISTER", "IMPORT"} /\ Len(todo) > 1)
        /\ (pc'[w] = "commit" /\ o.kind \in {"REGISTER", "IMPORT"} => ~(Len(todo) > 1))
    BY <2>3 DEF AfterTypes
  <2>6. AtStep(w)' BY <2>2, <2>3, <2>4, <2>5 DEF WorkerInv, AtStep
  <2>7. EmployeesAsRead(w)'
    BY <2>2, <2>3, <2>4, <2>5 DEF WorkerInv, EmployeesAsRead, Registered
  <2>8. CodesFree(w)'
    <3> SUFFICES ASSUME o.kind \in {"REGISTER", "IMPORT"} PROVE CodesFree(w)'
      BY <2>3, <2>5 DEF CodesFree, Enrolling
    <3>1. todo # <<>> /\ todo \in Seq(Codes)
      BY <2>2, PlanParts DEF WorkerInv, CodesFree, Enrolling
    <3>2. NewCodes(w)' = NewCodes(w) BY <2>3 DEF NewCodes
    <3>3. ASSUME NEW c \in NewCodes(w)
          PROVE  ToCome(w, c)' \/ (EmployeeRow(c) \in held[w] /\ employee[c] = None)
      <4>1. ToCome(w, c) \/ (EmployeeRow(c) \in held[w] /\ employee[c] = None)
        BY <2>2 DEF WorkerInv, CodesFree, Enrolling
      <4>2. CASE ToCome(w, c)
        <5>1. PICK i \in DOMAIN todo : todo[i] = c /\ i > 1
          BY <2>2, <4>2 DEF ToCome
        <5>2. i \in 1..Len(todo) BY <3>1, <5>1
        <5>3. pc'[w] = "code" BY <2>5, <3>1, <5>1, <5>2
        <5>4. plan'[w].todo = Tail(todo) BY <2>3, <2>4, <5>3
        <5>5. i - 1 \in DOMAIN Tail(todo) /\ Tail(todo)[i - 1] = c
          BY <3>1, <5>1, <5>2
        <5> HIDE DEF todo
        <5> QED BY <5>3, <5>4, <5>5 DEF ToCome
      <4> QED BY <4>1, <4>2
    <3>4. plan'[w].todo # <<>>
      <4>1. CASE pc'[w] = "code"
        <5>1. Len(Tail(todo)) = Len(todo) - 1 /\ Len(todo) > 1 /\ Len(todo) \in Nat
          BY <2>5, <3>1, <4>1
        <5> DEFINE rest == Len(Tail(todo))
                   all == Len(todo)
        <5> HIDE DEF rest, all
        <5>2. rest # 0
          <6>1. rest = all - 1 /\ all > 1 /\ all \in Nat BY <5>1 DEF rest, all
          <6> QED BY <6>1
        <5>3. Len(<<>>) = 0 OBVIOUS
        <5>4. Tail(todo) # <<>> BY <5>2, <5>3 DEF rest
        <5> QED BY <2>3, <2>4, <4>1, <5>4
      <4>2. CASE pc'[w] = "commit" BY <2>3, <2>4, <3>1, <4>2
      <4> QED BY <2>5, <4>1, <4>2
    <3> QED BY <2>3, <3>2, <3>3, <3>4 DEF CodesFree
  <2>9. DepartmentAsRead(w)'
    BY <2>2, <2>3, <2>4, <2>5 DEF WorkerInv, DepartmentAsRead, SharesOpen, Open
  <2>10. PhotoUnnamed(w)'
    BY <2>2, <2>3, <2>4, KeyStays DEF WorkerInv
  <2>11. CountHolds(w)' BY <2>1, <2>3, <2>4 DEF CountHolds, CountConfirmed
  <2> QED BY <2>6, <2>7, <2>8, <2>9, <2>10, <2>11 DEF WorkerInv
<1> QED BY <1>1, <1>2

LEMMA AfterFindImport ==
  ASSUME TypeOK, NEW w \in Workers, WorkerInv(w), LeavesOthers(w), FindImport(w)
  PROVE  WorkerInv(w)'
<1>1. CASE \E code : Refuse(w, code)
  BY <1>1, AfterRefusal DEF FindImport
<1>2. CASE ~\E code : Refuse(w, code)
  <2> DEFINE o == op[w]
             step == IF o.file.name = None THEN "code" ELSE "departments"
  <2>1. /\ Lock(w, {ImportKey(o.admin, o.request)}) /\ GoOn(w, step)
        /\ plan' = [plan EXCEPT ![w].todo = o.file.codes]
    BY <1>2 DEF FindImport
  <2>2. pc[w] = "batch" /\ o # None /\ o.kind = "IMPORT"
    BY DEF FindImport, WorkerInv, AtStep
  <2>3. /\ op'[w] = o /\ pc'[w] = step /\ shared'[w] = shared[w]
        /\ UNCHANGED <<employee, department, object>>
    BY <2>1 DEF Lock, GoOn, TypeOK, tables
  <2>4. /\ plan'[w].key = plan[w].key /\ plan'[w].make = plan[w].make
        /\ plan'[w].department = plan[w].department /\ plan'[w].todo = o.file.codes
    BY <2>1 DEF TypeOK, Plans
  <2>5. pc'[w] \in {"code", "departments"}
        /\ (pc'[w] = "departments" => o.file.name # None)
    BY <2>3
  <2>6. o.file.codes \in Seq(Codes) /\ o.file.codes # <<>>
    BY <2>2, RequestParts, ImportParts, FileParts
  <2>7. AtStep(w)' BY <2>2, <2>3, <2>4, <2>5 DEF WorkerInv, AtStep
  <2>8. EmployeesAsRead(w)' BY <2>2, <2>3 DEF EmployeesAsRead, AboutEmployees
  <2>9. CodesFree(w)'
    <3>1. NewCodes(w)' = {o.file.codes[i] : i \in DOMAIN o.file.codes}
      BY <2>2, <2>3 DEF NewCodes
    <3>2. \A c \in NewCodes(w)' : ToCome(w, c)'
      BY <2>4, <2>5, <3>1 DEF ToCome
    <3> QED BY <2>4, <2>6, <3>2 DEF CodesFree
  <2>10. DepartmentAsRead(w)'
    BY <2>2, <2>3, <2>4, <2>5 DEF WorkerInv, DepartmentAsRead, SharesOpen, Open
  <2>11. PhotoUnnamed(w)'
    BY <2>2, <2>3, <2>4, KeyStays DEF WorkerInv
  <2>12. CountHolds(w)' BY <2>5 DEF CountHolds
  <2> QED BY <2>7, <2>8, <2>9, <2>10, <2>11, <2>12 DEF WorkerInv
<1> QED BY <1>1, <1>2

LEMMA AfterFindDepartment ==
  ASSUME TypeOK, NEW w \in Workers, WorkerInv(w), LeavesOthers(w), FindDepartment(w)
  PROVE  WorkerInv(w)'
<1>1. CASE \E code : Refuse(w, code)
  BY <1>1, AfterRefusal DEF FindDepartment
<1>2. CASE ~\E code : Refuse(w, code)
  <2> DEFINE o == op[w]
             n == o.file.name
             rows == {DepartmentRow(d) : d \in {x \in Departments : department[x] # None}}
             dept == IF Named(n) = {} THEN None ELSE CHOOSE d \in Named(n) : TRUE
  <2>1. /\ \A d \in Named(n) : department[d].active
        /\ Share(w, rows) /\ GoOn(w, IF Named(n) = {} THEN "name" ELSE "code")
        /\ plan' = [plan EXCEPT ![w].make = Named(n) = {}, ![w].department = dept]
    BY <1>2 DEF FindDepartment
  <2>2. pc[w] = "departments" /\ o # None /\ o.kind = "IMPORT" /\ n # None
    BY DEF FindDepartment, WorkerInv, AtStep
  <2>3. /\ op'[w] = o /\ pc'[w] \in {"name", "code"} /\ held'[w] = held[w]
        /\ shared'[w] = shared[w] \cup rows
        /\ UNCHANGED <<employee, department, object>>
    BY <2>1 DEF Share, GoOn, TypeOK, tables
  <2>4. /\ plan'[w].key = plan[w].key /\ plan'[w].todo = plan[w].todo
        /\ plan'[w].department = dept
    BY <2>1 DEF TypeOK, Plans
  <2>5. dept # None => DepartmentRow(dept) \in rows /\ Open(dept)
    <3> SUFFICES ASSUME Named(n) # {} PROVE DepartmentRow(dept) \in rows /\ Open(dept)
      OBVIOUS
    <3>1. dept \in Named(n) OBVIOUS
    <3> HIDE DEF dept
    <3> QED BY <2>1, <3>1 DEF Named, Open
  <2> HIDE DEF rows, dept
  <2>6. AtStep(w)' BY <2>2, <2>3, <2>4 DEF WorkerInv, AtStep
  <2>7. EmployeesAsRead(w)' BY <2>2, <2>3 DEF EmployeesAsRead, AboutEmployees
  <2>8. CodesFree(w)'
    <3>1. NewCodes(w)' = NewCodes(w) BY <2>3 DEF NewCodes
    <3>2. \A c : ToCome(w, c) => ToCome(w, c)' BY <2>2, <2>3, <2>4 DEF ToCome
    <3> QED BY <2>2, <2>3, <2>4, <3>1, <3>2 DEF WorkerInv, CodesFree, Enrolling
  <2>9. DepartmentAsRead(w)'
    BY <2>2, <2>3, <2>4, <2>5 DEF DepartmentAsRead, SharesOpen, Open
  <2>10. PhotoUnnamed(w)'
    BY <2>2, <2>3, <2>4, KeyStays DEF WorkerInv
  <2>11. CountHolds(w)' BY <2>3 DEF CountHolds
  <2> QED BY <2>6, <2>7, <2>8, <2>9, <2>10, <2>11 DEF WorkerInv
<1> QED BY <1>1, <1>2

LEMMA AfterInsertName ==
  ASSUME TypeOK, NEW w \in Workers, WorkerInv(w), LeavesOthers(w), InsertName(w)
  PROVE  WorkerInv(w)'
<1>1. CASE \E code : Refuse(w, code)
  BY <1>1, AfterRefusal DEF InsertName
<1>2. CASE ~\E code : Refuse(w, code)
  <2> DEFINE n == IF op[w].kind = "IMPORT" THEN op[w].file.name ELSE op[w].name
  <2>1. /\ Lock(w, {NameKey(n)}) /\ plan' = plan
        /\ GoOn(w, IF op[w].kind = "IMPORT" THEN "code" ELSE "commit")
    BY <1>2 DEF InsertName
  <2>2. pc[w] = "name" /\ op[w] # None
        /\ op[w].kind \in {"IMPORT", "DEPARTMENT_CREATE", "DEPARTMENT_RENAME"}
    BY DEF InsertName, WorkerInv, AtStep
  <2>3. /\ op'[w] = op[w] /\ plan'[w] = plan[w] /\ shared'[w] = shared[w]
        /\ pc'[w] = IF op[w].kind = "IMPORT" THEN "code" ELSE "commit"
        /\ held[w] \subseteq held'[w] /\ UNCHANGED <<employee, department, object>>
    BY <2>1 DEF Lock, GoOn, TypeOK, tables
  <2>4. AtStep(w)' BY <2>2, <2>3 DEF WorkerInv, AtStep
  <2>5. EmployeesAsRead(w)' BY <2>2, <2>3 DEF EmployeesAsRead, AboutEmployees
  <2>6. CodesFree(w)'
    <3>1. NewCodes(w)' = NewCodes(w) BY <2>3 DEF NewCodes
    <3>2. CASE op[w].kind = "IMPORT"
      <4>1. \A c : ToCome(w, c) => ToCome(w, c)' BY <2>2, <2>3, <3>2 DEF ToCome
      <4> QED BY <2>2, <2>3, <3>1, <3>2, <4>1 DEF WorkerInv, CodesFree, Enrolling
    <3>3. CASE op[w].kind # "IMPORT"
      BY <2>2, <2>3, <3>3 DEF CodesFree, Enrolling
    <3> QED BY <3>2, <3>3
  <2>7. DepartmentAsRead(w)'
    BY <2>2, <2>3 DEF WorkerInv, DepartmentAsRead, SharesOpen, Open
  <2>8. PhotoUnnamed(w)'
    BY <2>2, <2>3, KeyStays DEF WorkerInv
  <2>9. CountHolds(w)' BY <2>2, <2>3 DEF CountHolds, CountConfirmed
  <2> QED BY <2>4, <2>5, <2>6, <2>7, <2>8, <2>9 DEF WorkerInv
<1> QED BY <1>1, <1>2

LEMMA AfterLockDepartment ==
  ASSUME TypeOK, NEW w \in Workers, WorkerInv(w), LeavesOthers(w), LockDepartment(w)
  PROVE  WorkerInv(w)'
<1>1. CASE \E code : Refuse(w, code)
  BY <1>1, AfterRefusal DEF LockDepartment
<1>2. CASE ~\E code : Refuse(w, code)
  <2> DEFINE o == op[w]
  <2>1. /\ department[o.department] # None
        /\ Lock(w, {DepartmentRow(o.department)}) /\ plan' = plan
        /\ GoOn(w, IF o.kind = "DEPARTMENT_RENAME" THEN "name" ELSE "commit")
    BY <1>2 DEF LockDepartment
  <2>2. pc[w] = "row" /\ o # None
        /\ o.kind \in {"DEPARTMENT_RENAME", "DEPARTMENT_ACTIVE"}
    BY DEF LockDepartment, WorkerInv, AtStep
  <2>3. /\ op'[w] = o /\ plan'[w] = plan[w] /\ shared'[w] = shared[w]
        /\ pc'[w] = IF o.kind = "DEPARTMENT_RENAME" THEN "name" ELSE "commit"
        /\ DepartmentRow(o.department) \in held'[w]
        /\ UNCHANGED <<employee, department, object>>
    BY <2>1 DEF Lock, GoOn, TypeOK, tables
  <2>4. AtStep(w)' BY <2>2, <2>3 DEF WorkerInv, AtStep
  <2>5. EmployeesAsRead(w)' BY <2>2, <2>3 DEF EmployeesAsRead, AboutEmployees
  <2>6. CodesFree(w)' BY <2>2, <2>3 DEF CodesFree, Enrolling
  <2>7. DepartmentAsRead(w)'
    BY <2>1, <2>2, <2>3 DEF DepartmentAsRead
  <2>8. PhotoUnnamed(w)'
    BY <2>2, <2>3, KeyStays DEF WorkerInv
  <2>9. CountHolds(w)' BY <2>2, <2>3 DEF CountHolds, CountConfirmed
  <2> QED BY <2>4, <2>5, <2>6, <2>7, <2>8, <2>9 DEF WorkerInv
<1> QED BY <1>1, <1>2

LEMMA AfterLockType ==
  ASSUME TypeOK, NEW w \in Workers, WorkerInv(w), LeavesOthers(w), LockType(w)
  PROVE  WorkerInv(w)'
<1>1. /\ op'[w] = op[w] /\ plan'[w] = plan[w] /\ shared'[w] = shared[w]
      /\ pc[w] = "type" /\ pc'[w] = "commit" /\ op[w] # None
      /\ op[w].kind = "TYPE_ACTIVE" /\ UNCHANGED <<employee, department, object>>
  BY DEF LockType, Lock, GoOn, TypeOK, tables, WorkerInv, AtStep
<1>2. AtStep(w)' BY <1>1 DEF WorkerInv, AtStep
<1>3. EmployeesAsRead(w)' BY <1>1 DEF EmployeesAsRead, AboutEmployees
<1>4. CodesFree(w)' BY <1>1 DEF CodesFree, Enrolling
<1>5. DepartmentAsRead(w)' BY <1>1 DEF DepartmentAsRead
<1>6. PhotoUnnamed(w)' BY <1>1, KeyStays DEF WorkerInv
<1>7. CountHolds(w)' BY <1>1 DEF CountHolds, CountConfirmed
<1> QED BY <1>2, <1>3, <1>4, <1>5, <1>6, <1>7 DEF WorkerInv

LEMMA AfterFindVisitors ==
  ASSUME TypeOK, NEW w \in Workers, WorkerInv(w), LeavesOthers(w), FindVisitors(w)
  PROVE  WorkerInv(w)'
<1>1. CASE \E code : Refuse(w, code)
  BY <1>1, AfterRefusal DEF FindVisitors
<1>2. CASE ~\E code : Refuse(w, code)
  <2>1. /\ op'[w] = op[w] /\ plan'[w] = plan[w] /\ shared'[w] = shared[w]
        /\ pc[w] = "visitors" /\ pc'[w] = "department" /\ op[w] # None
        /\ op[w].kind = "VISITORS" /\ UNCHANGED <<employee, department, object>>
    BY <1>2 DEF FindVisitors, GoOn, TypeOK, tables, WorkerInv, AtStep
  <2>2. AtStep(w)' BY <2>1 DEF WorkerInv, AtStep
  <2>3. EmployeesAsRead(w)' BY <2>1 DEF EmployeesAsRead, AboutEmployees
  <2>4. CodesFree(w)' BY <2>1 DEF CodesFree, Enrolling
  <2>5. DepartmentAsRead(w)' BY <2>1 DEF DepartmentAsRead
  <2>6. PhotoUnnamed(w)' BY <2>1, KeyStays DEF WorkerInv
  <2>7. CountHolds(w)' BY <2>1 DEF CountHolds, CountConfirmed
  <2> QED BY <2>2, <2>3, <2>4, <2>5, <2>6, <2>7 DEF WorkerInv
<1> QED BY <1>1, <1>2

LEMMA AfterLookAtEmployee ==
  ASSUME TypeOK, NEW w \in Workers, WorkerInv(w), LeavesOthers(w), LookAtEmployee(w)
  PROVE  WorkerInv(w)'
<1>1. CASE \E code : Refuse(w, code)
  BY <1>1, AfterRefusal DEF LookAtEmployee
<1>2. CASE ~\E code : Refuse(w, code)
  <2>1. /\ op'[w] = op[w] /\ plan'[w] = plan[w] /\ pc[w] = "look"
        /\ pc'[w] = "put" /\ op[w] # None /\ op[w].kind = "PHOTO"
        /\ UNCHANGED <<employee, department, object>>
    BY <1>2 DEF LookAtEmployee, GoOn, TypeOK, tables, WorkerInv, AtStep
  <2>2. AtStep(w)' BY <2>1 DEF WorkerInv, AtStep
  <2>3. EmployeesAsRead(w)' BY <2>1 DEF EmployeesAsRead
  <2>4. CodesFree(w)' BY <2>1 DEF CodesFree, Enrolling
  <2>5. DepartmentAsRead(w)' BY <2>1 DEF DepartmentAsRead
  <2>6. PhotoUnnamed(w)' BY <2>1, KeyStays DEF WorkerInv
  <2>7. CountHolds(w)' BY <2>1 DEF CountHolds
  <2> QED BY <2>2, <2>3, <2>4, <2>5, <2>6, <2>7 DEF WorkerInv
<1> QED BY <1>1, <1>2

LEMMA AfterPutPhoto ==
  ASSUME TypeOK, NEW w \in Workers, WorkerInv(w), LeavesOthers(w), PutPhoto(w)
  PROVE  WorkerInv(w)'
<1>1. CASE Finish(w, "ERROR") BY <1>1, AfterEnd
<1>2. CASE ~Finish(w, "ERROR")
  <2>1. PICK k \in UnusedKeys :
          /\ object' = object \cup {k} /\ plan' = [plan EXCEPT ![w].key = k]
          /\ pc' = [pc EXCEPT ![w] = "actor"] /\ UNCHANGED <<op, tables>>
    BY <1>2 DEF PutPhoto
  <2>2. /\ op'[w] = op[w] /\ pc'[w] = "actor" /\ plan'[w].key = k
        /\ plan'[w].make = plan[w].make
        /\ op[w] # None /\ op[w].kind = "PHOTO" /\ UNCHANGED employee
    BY <2>1 DEF PutPhoto, TypeOK, Plans, WorkerInv, AtStep, tables
  <2>3. AtStep(w)' BY <2>2 DEF WorkerInv, AtStep
  <2>4. EmployeesAsRead(w)' BY <2>2 DEF EmployeesAsRead
  <2>5. CodesFree(w)' BY <2>2 DEF CodesFree, Enrolling
  <2>6. DepartmentAsRead(w)' BY <2>2 DEF DepartmentAsRead
  <2>7. PhotoUnnamed(w)'
    <3>1. k # None BY NonePlaces DEF UnusedKeys
    <3>2. \A v \in Workers \ {w} : plan'[v].key # k
      BY DEF LeavesOthers, UnusedKeys
    <3> QED BY <2>1, <2>2, <3>1, <3>2 DEF PhotoUnnamed, UnusedKeys
  <2>8. CountHolds(w)' BY <2>2 DEF CountHolds
  <2> QED BY <2>3, <2>4, <2>5, <2>6, <2>7, <2>8 DEF WorkerInv
<1> QED BY <1>1, <1>2

LEMMA AfterStart ==
  ASSUME TypeOK, NEW w \in Workers, WorkerInv(w), LeavesOthers(w), Start(w)
  PROVE  WorkerInv(w)'
<1>1. /\ pc[w] = "idle" /\ plan[w] = NoPlan
      /\ UNCHANGED <<employee, department, object>>
  BY DEF Start, Begin, Submit, WorkerInv, AtStep, tables
<1>2. NoPlan.key = None /\ NoPlan.make = FALSE /\ NoPlan.department = None
  BY DEF NoPlan
<1>3. /\ op'[w] \in Operations \cup ImportRequests
      /\ pc'[w] = IF op'[w].kind = "PHOTO" THEN "look" ELSE "actor"
      /\ plan'[w].key = None /\ plan'[w].make = FALSE /\ plan'[w].department = None
  <2>1. CASE Begin(w)
    BY <1>1, <1>2, <2>1 DEF Begin, TypeOK, Plans
  <2>2. CASE \E a \in Admins : Submit(w, a)
    <3>1. PICK a \in Admins : Submit(w, a) BY <2>2
    <3>2. PICK f \in Files, r \in Requests :
            op' = [op EXCEPT ![w] =
                     [kind |-> "IMPORT", admin |-> a, request |-> r, file |-> f]]
      BY <3>1 DEF Submit
    <3>3. op'[w] \in ImportRequests /\ op'[w].kind = "IMPORT"
      BY <3>2 DEF TypeOK, ImportRequests
    <3>4. pc'[w] = "actor" /\ plan' = plan BY <3>1 DEF Submit, TypeOK
    <3> QED BY <1>1, <1>2, <3>3, <3>4
  <2> QED BY <2>1, <2>2 DEF Start
<1>4. op'[w] # None BY <1>3, OperationParts, NonePlaces
<1>5. AtStep(w)' BY <1>3, <1>4 DEF AtStep
<1>6. EmployeesAsRead(w)' BY <1>3 DEF EmployeesAsRead
<1>7. CodesFree(w)' BY <1>3 DEF CodesFree, Enrolling
<1>8. DepartmentAsRead(w)' BY <1>3 DEF DepartmentAsRead
<1>9. PhotoUnnamed(w)' BY <1>3 DEF PhotoUnnamed
<1>10. CountHolds(w)' BY <1>3 DEF CountHolds
<1> QED BY <1>5, <1>6, <1>7, <1>8, <1>9, <1>10 DEF WorkerInv

LEMMA AfterRollBack ==
  ASSUME TypeOK, NEW w \in Workers, WorkerInv(w), LeavesOthers(w), RollBack(w)
  PROVE  WorkerInv(w)'
<1>1. CASE Finish(w, "ERROR") BY <1>1, AfterEnd
<1>2. CASE ~Finish(w, "ERROR")
  <2>1. /\ op'[w] = op[w] /\ pc'[w] = "actor" /\ plan'[w] = NoPlan
        /\ op[w] # None /\ op[w].kind = "VISITORS"
    BY <1>2 DEF RollBack, TypeOK, WorkerInv, AtStep
  <2>2. NoPlan.key = None /\ NoPlan.make = FALSE BY DEF NoPlan
  <2>3. AtStep(w)' BY <2>1, <2>2 DEF AtStep
  <2>4. EmployeesAsRead(w)' BY <2>1 DEF EmployeesAsRead
  <2>5. CodesFree(w)' BY <2>1 DEF CodesFree, Enrolling
  <2>6. DepartmentAsRead(w)' BY <2>1 DEF DepartmentAsRead
  <2>7. PhotoUnnamed(w)' BY <2>1, <2>2 DEF PhotoUnnamed
  <2>8. CountHolds(w)' BY <2>1 DEF CountHolds
  <2> QED BY <2>3, <2>4, <2>5, <2>6, <2>7, <2>8 DEF WorkerInv
<1> QED BY <1>1, <1>2

LEMMA OwnHold ==
  ASSUME TypeOK, NEW w \in Workers, WorkerInv(w), LeavesOthers(w), Start(w) \/ Work(w)
  PROVE  WorkerInv(w)'
<1>1. CASE Start(w) BY <1>1, AfterStart
<1>2. CASE Lookup(w)
  BY <1>2, AfterLockActor, AfterLockEmployees, AfterShareDepartment,
     AfterInsertEmployee, AfterShareTypes, AfterFindImport, AfterFindDepartment,
     AfterInsertName, AfterLockDepartment, AfterLockType, AfterFindVisitors
     DEF Lookup
<1>3. CASE LookAtEmployee(w) \/ PutPhoto(w)
  BY <1>3, AfterLookAtEmployee, AfterPutPhoto
<1>4. CASE RefusePhoto(w) BY <1>4, AfterRefusal DEF RefusePhoto
<1>5. CASE DeletePhoto(w) BY <1>5, AfterEnd DEF DeletePhoto
<1>6. CASE Write(w) BY <1>6, CommitsFinish, Commits, AfterEnd
<1>7. CASE RollBack(w) BY <1>7, AfterRollBack
<1> QED BY <1>1, <1>2, <1>3, <1>4, <1>5, <1>6, <1>7 DEF Work, Upload

LEMMA WorkersHold ==
  ASSUME TypeOK, LocksExclude, \A v \in Workers : WorkerInv(v),
         NEW w \in Workers, Start(w) \/ Work(w)
  PROVE  LocksExclude' /\ \A v \in Workers : WorkerInv(v)'
<1>1. LeavesOthers(w) BY OthersKept
<1>2. WritesOwn(w) BY RowsProtected
<1> QED BY <1>1, <1>2, LocksStayExclusive, OthersHold, OwnHold

-----------------------------------------------------------------------------
(* Types                                                                   *)

TableTypes ==
  /\ employee \in [Codes -> EmployeeRows \cup {None}]
  /\ department \in [Departments -> DepartmentRows \cup {None}]
  /\ offered \subseteq Types /\ object \subseteq Keys
  /\ imports \in [Admins \X Requests -> Files \cup {None}]
  /\ trail = [c \in Codes |-> trail[c]]
WorkerTypes ==
  /\ op \in [Workers -> Operations \cup ImportRequests \cup {None}]
  /\ pc \in [Workers -> Steps] /\ plan \in [Workers -> Plans]
  /\ held \in [Workers -> SUBSET Rows] /\ shared \in [Workers -> SUBSET Rows]
BrowserTypes ==
  /\ page \in [Admins -> Pages] /\ known \subseteq Admins \X Requests
  /\ preview \in [Admins -> Previews \cup {None}]

LEMMA TypeParts == TypeOK <=> TableTypes /\ WorkerTypes /\ BrowserTypes
BY DEF TypeOK, TableTypes, WorkerTypes, BrowserTypes

LEMMA TypeNext ==
  ASSUME TableTypes', WorkerTypes', BrowserTypes'
  PROVE  TypeOK'
BY DEF TypeOK, TableTypes, WorkerTypes, BrowserTypes

LEMMA NoImportTyped == NoImport \in Pages
BY DEF NoImport, Pages

LEMMA AnsweredTyped ==
  ASSUME NEW p \in Pages, NEW answer
  PROVE  Answered(p, answer) \in Pages
BY NoImportTyped DEF Answered, Pages

LEMMA EndTypes ==
  ASSUME TypeOK, NEW w \in Workers, NEW answer, Finish(w, answer)
  PROVE  WorkerTypes' /\ BrowserTypes'
<1>1. WorkerTypes'
  BY Ends, NoPlanTyped DEF TypeOK, WorkerTypes, Steps
<1>2. Deliver(w, answer) BY DEF Finish
<1>3. page' \in [Admins -> Pages]
  BY <1>2, AnsweredTyped DEF Deliver, TypeOK
<1>4. known' \subseteq Admins \X Requests
  <2>1. \A a \in Waiting(w) : page[a].request \in Requests /\ a \in Admins
    BY NonePlaces DEF Waiting, TypeOK, Pages
  <2> QED BY <1>2, <2>1 DEF Deliver, TypeOK
<1>5. preview' \in [Admins -> Previews \cup {None}]
  BY <1>2 DEF Deliver, TypeOK
<1> QED BY <1>1, <1>3, <1>4, <1>5 DEF BrowserTypes

LEMMA RefusalTypes ==
  ASSUME TypeOK, NEW w \in Workers, NEW code, Refuse(w, code)
  PROVE  WorkerTypes' /\ BrowserTypes'
<1>1. CASE Finish(w, code) BY <1>1, EndTypes
<1>2. CASE /\ UNCHANGED <<op, plan, browser>>
           /\ pc' = [pc EXCEPT ![w] = "delete"]
           /\ held' = [held EXCEPT ![w] = {}]
           /\ shared' = [shared EXCEPT ![w] = {}]
  BY <1>2 DEF TypeOK, WorkerTypes, BrowserTypes, browser, Steps
<1> QED BY <1>1, <1>2, Refusals

(* A statement that goes on, locks or shares rows, and plans.              *)
LEMMA LockTypes ==
  ASSUME TypeOK, NEW w \in Workers, NEW rows \in SUBSET Rows, Lock(w, rows),
         NEW step \in Steps, GoOn(w, step),
         plan' = plan \/ \E p \in Plans : plan' = [plan EXCEPT ![w] = p]
  PROVE  WorkerTypes' /\ BrowserTypes'
<1>1. plan' \in [Workers -> Plans] BY DEF TypeOK
<1> QED BY <1>1 DEF Lock, GoOn, TypeOK, WorkerTypes, BrowserTypes, browser

LEMMA ShareTypesOfRows ==
  ASSUME TypeOK, NEW w \in Workers, NEW rows \in SUBSET Rows, Share(w, rows),
         NEW step \in Steps, GoOn(w, step),
         plan' = plan \/ \E p \in Plans : plan' = [plan EXCEPT ![w] = p]
  PROVE  WorkerTypes' /\ BrowserTypes'
<1>1. plan' \in [Workers -> Plans] BY DEF TypeOK
<1> QED BY <1>1 DEF Share, GoOn, TypeOK, WorkerTypes, BrowserTypes, browser

LEMMA GoOnTypes ==
  ASSUME TypeOK, NEW w \in Workers, NEW step \in Steps, GoOn(w, step),
         UNCHANGED <<plan, held, shared>>
  PROVE  WorkerTypes' /\ BrowserTypes'
BY DEF GoOn, TypeOK, WorkerTypes, BrowserTypes, browser

LEMMA PlanChanges ==
  ASSUME NEW p \in Plans
  PROVE  /\ \A read \in [Codes -> EmployeeRows \cup {None}] :
              [p EXCEPT !.read = read] \in Plans
         /\ \A todo \in Seq(Codes) : [p EXCEPT !.todo = todo] \in Plans
         /\ \A types \in SUBSET Types, todo \in Seq(Codes) :
              [p EXCEPT !.types = types, !.todo = todo] \in Plans
         /\ \A d \in Departments \cup {None}, todo \in Seq(Codes) :
              [p EXCEPT !.department = d, !.todo = todo] \in Plans
         /\ \A make \in BOOLEAN, d \in Departments \cup {None} :
              [p EXCEPT !.make = make, !.department = d] \in Plans
         /\ \A n \in Nat : [p EXCEPT !.count = n] \in Plans
         /\ \A k \in Keys : [p EXCEPT !.key = k] \in Plans
BY DEF Plans

LEMMA TypesOfLookups ==
  ASSUME TypeOK, NEW w \in Workers, WorkerInv(w), Lookup(w) \/ LookAtEmployee(w)
  PROVE  WorkerTypes' /\ BrowserTypes'
<1>1. CASE \E code : Refuse(w, code) BY <1>1, RefusalTypes
<1>2. CASE LockActor(w)
  <2>1. op[w] # None BY <1>2 DEF LockActor, WorkerInv, AtStep
  <2>2. {AdminRow(op[w].admin)} \in SUBSET Rows BY <2>1, RequestParts, RowsTyped
  <2>3. First(op[w].kind) \in Steps BY DEF First, Steps
  <2> QED BY <1>2, <2>2, <2>3, LockTypes DEF LockActor
<1>3. CASE LockEmployees(w) /\ ~\E code : Refuse(w, code)
  <2>1. op[w] # None /\ op[w].who \subseteq Codes
    BY <1>3, RequestParts, OperationParts DEF LockEmployees, WorkerInv, AtStep, AboutEmployees
  <2>2. EmployeesToLock(w) \in SUBSET Rows BY <2>1, RowsTyped DEF EmployeesToLock
  <2>3. PICK step \in Steps : GoOn(w, step) BY <1>3 DEF LockEmployees, Steps
  <2> DEFINE read == [c \in Codes |-> IF c \in op[w].who THEN employee[c] ELSE None]
  <2>4. plan' = [plan EXCEPT ![w] = [plan[w] EXCEPT !.read = read]]
    BY <1>3 DEF LockEmployees
  <2>5. [plan[w] EXCEPT !.read = read] \in Plans
    <3>1. read \in [Codes -> EmployeeRows \cup {None}] BY <2>1 DEF TypeOK
    <3> HIDE DEF read
    <3> QED BY <3>1, PlanParts, PlanChanges
  <2> HIDE DEF read
  <2> QED BY <1>3, <2>2, <2>3, <2>4, <2>5, LockTypes DEF LockEmployees
<1>4. CASE ShareDepartment(w) /\ ~\E code : Refuse(w, code)
  <2>1. /\ op[w] # None /\ op[w] \in Operations /\ op[w].department \in Departments
        /\ op[w].kind = "REGISTER" => \E c \in Codes : op[w].who = {c}
    BY <1>4, RequestParts, OperationParts DEF ShareDepartment, WorkerInv, AtStep
  <2>2. DepartmentToShare(w) \in SUBSET Rows BY <2>1, RowsTyped DEF DepartmentToShare
  <2>3. PICK step \in Steps : GoOn(w, step) BY <1>4 DEF ShareDepartment, Steps
  <2>4. Registering(op[w]) \in Seq(Codes)
    <3>1. CASE op[w].kind = "REGISTER"
      <4>1. PICK c \in Codes : op[w].who = {c} BY <2>1, <3>1, OperationParts
      <4>2. Registering(op[w]) = <<c>> BY <3>1, <4>1 DEF Registering
      <4> QED BY <4>2
    <3>2. CASE op[w].kind # "REGISTER" BY <3>2 DEF Registering
    <3> QED BY <3>1, <3>2
  <2>5. [plan[w] EXCEPT !.department = op[w].department,
                        !.todo = Registering(op[w])] \in Plans
    BY <2>1, <2>4, PlanParts, PlanChanges
  <2>6. plan' = [plan EXCEPT ![w] = [plan[w] EXCEPT !.department = op[w].department,
                                                    !.todo = Registering(op[w])]]
    BY <1>4 DEF ShareDepartment, TypeOK
  <2> QED BY <1>4, <2>2, <2>3, <2>5, <2>6, ShareTypesOfRows DEF ShareDepartment
<1>5. CASE InsertEmployee(w) /\ ~\E code : Refuse(w, code)
  <2> DEFINE c == Head(plan[w].todo)
  <2>1. plan[w].todo \in Seq(Codes) /\ plan[w].todo # <<>>
    BY <1>5, PlanParts DEF InsertEmployee, WorkerInv, AtStep, CodesFree, Enrolling
  <2>2. c \in Codes BY <2>1
  <2>3. {EmployeeRow(c)} \in SUBSET Rows BY <2>2, RowsTyped
  <2>4. "types" \in Steps BY DEF Steps
  <2> QED BY <1>5, <2>3, <2>4, LockTypes DEF InsertEmployee
<1>6. CASE ShareTypes(w) /\ ~\E code : Refuse(w, code)
  <2>1. op[w] # None /\ pc[w] = "types"
        /\ op[w].kind \in {"GRANT", "BULK", "REGISTER", "IMPORT", "VISITORS"}
    BY <1>6 DEF ShareTypes, WorkerInv, AtStep
  <2>2. TypesToShare(w) \subseteq offered BY <1>6 DEF ShareTypes
  <2>3. {TypeRow(t) : t \in TypesToShare(w)} \in SUBSET Rows
    BY <2>2, RowsTyped DEF TypeOK
  <2>4. AfterTypes(w) \in Steps BY DEF AfterTypes, Steps
  <2>5. Wanted(w) = None \/ Wanted(w) \in SUBSET Types
    BY <2>1, RequestParts, ImportParts, FileParts, OperationParts DEF Wanted
  <2>6. (IF AfterTypes(w) = "code" THEN Tail(plan[w].todo) ELSE plan[w].todo) \in Seq(Codes)
    <3>1. plan[w].todo \in Seq(Codes) BY PlanParts
    <3>2. AfterTypes(w) = "code" => plan[w].todo # <<>>
      BY <2>1 DEF AfterTypes, WorkerInv, CodesFree, Enrolling
    <3> QED BY <3>1, <3>2
  <2> DEFINE types == IF Wanted(w) = None THEN offered ELSE Wanted(w)
             todo == IF AfterTypes(w) = "code" THEN Tail(plan[w].todo) ELSE plan[w].todo
  <2>7. types \in SUBSET Types BY <2>5 DEF TypeOK
  <2>8. plan' = [plan EXCEPT ![w] = [plan[w] EXCEPT !.types = types, !.todo = todo]]
    BY <1>6 DEF ShareTypes, TypeOK
  <2> HIDE DEF types, todo
  <2>9. [plan[w] EXCEPT !.types = types, !.todo = todo] \in Plans
    BY <2>6, <2>7, PlanParts, PlanChanges DEF todo
  <2> QED BY <1>6, <2>3, <2>4, <2>8, <2>9, ShareTypesOfRows DEF ShareTypes
<1>7. CASE FindImport(w) /\ ~\E code : Refuse(w, code)
  <2>1. op[w] \in ImportRequests
    BY <1>7, RequestParts DEF FindImport, WorkerInv, AtStep
  <2>2. {ImportKey(op[w].admin, op[w].request)} \in SUBSET Rows
    BY <2>1, ImportParts, RowsTyped
  <2>3. PICK step \in Steps : GoOn(w, step) BY <1>7 DEF FindImport, Steps
  <2>4. op[w].file.codes \in Seq(Codes) BY <2>1, ImportParts, FileParts
  <2>5. [plan[w] EXCEPT !.todo = op[w].file.codes] \in Plans
    BY <2>4, PlanParts, PlanChanges
  <2>6. plan' = [plan EXCEPT ![w] = [plan[w] EXCEPT !.todo = op[w].file.codes]]
    BY <1>7 DEF FindImport
  <2> QED BY <1>7, <2>2, <2>3, <2>5, <2>6, LockTypes DEF FindImport
<1>8. CASE FindDepartment(w) /\ ~\E code : Refuse(w, code)
  <2> DEFINE n == op[w].file.name
             rows == {DepartmentRow(d) : d \in {x \in Departments : department[x] # None}}
             dept == IF Named(n) = {} THEN None ELSE CHOOSE d \in Named(n) : TRUE
  <2>1. rows \in SUBSET Rows BY RowsTyped
  <2>2. PICK step \in Steps : GoOn(w, step) BY <1>8 DEF FindDepartment, Steps
  <2>3. dept \in Departments \cup {None}
    <3>1. Named(n) # {} => (CHOOSE d \in Named(n) : TRUE) \in Named(n) OBVIOUS
    <3>2. Named(n) \subseteq Departments BY DEF Named
    <3> QED BY <3>1, <3>2
  <2>4. plan' = [plan EXCEPT ![w] = [plan[w] EXCEPT !.make = Named(n) = {},
                                                    !.department = dept]]
    BY <1>8 DEF FindDepartment, TypeOK
  <2>5. Share(w, rows) BY <1>8 DEF FindDepartment
  <2> DEFINE make == Named(n) = {}
  <2>6. make \in BOOLEAN OBVIOUS
  <2> HIDE DEF rows, dept, n, make
  <2>7. [plan[w] EXCEPT !.make = make, !.department = dept] \in Plans
    BY <2>3, <2>6, PlanParts, PlanChanges
  <2> QED BY <2>1, <2>2, <2>4, <2>5, <2>7, ShareTypesOfRows DEF make
<1>9. CASE InsertName(w) /\ ~\E code : Refuse(w, code)
  <2> DEFINE n == IF op[w].kind = "IMPORT" THEN op[w].file.name ELSE op[w].name
  <2>1. op[w] # None /\ pc[w] = "name"
        /\ op[w].kind \in {"IMPORT", "DEPARTMENT_CREATE", "DEPARTMENT_RENAME"}
    BY <1>9 DEF InsertName, WorkerInv, AtStep
  <2>2. op[w].kind = "IMPORT" => op[w].file.name # None
    BY <2>1 DEF WorkerInv, AtStep
  <2>3. n \in Names
    BY <2>1, <2>2, RequestParts, ImportParts, FileParts, OperationParts
  <2>4. {NameKey(n)} \in SUBSET Rows BY <2>3, RowsTyped
  <2>5. PICK step \in Steps : GoOn(w, step) BY <1>9 DEF InsertName, Steps
  <2> QED BY <1>9, <2>4, <2>5, LockTypes DEF InsertName
<1>10. CASE LockDepartment(w) /\ ~\E code : Refuse(w, code)
  <2>1. op[w].department \in Departments
    BY <1>10, RequestParts, OperationParts DEF LockDepartment, WorkerInv, AtStep
  <2>2. {DepartmentRow(op[w].department)} \in SUBSET Rows BY <2>1, RowsTyped
  <2>3. PICK step \in Steps : GoOn(w, step) BY <1>10 DEF LockDepartment, Steps
  <2> QED BY <1>10, <2>2, <2>3, LockTypes DEF LockDepartment
<1>11. CASE LockType(w)
  <2>1. op[w].types \in SUBSET Types
    BY <1>11, RequestParts, OperationParts DEF LockType, WorkerInv, AtStep
  <2>2. {TypeRow(t) : t \in op[w].types} \in SUBSET Rows BY <2>1, RowsTyped
  <2>3. "commit" \in Steps BY DEF Steps
  <2> QED BY <1>11, <2>2, <2>3, LockTypes DEF LockType
<1>12. CASE (FindVisitors(w) \/ LookAtEmployee(w)) /\ ~\E code : Refuse(w, code)
  <2>1. PICK step \in Steps : GoOn(w, step)
    BY <1>12 DEF FindVisitors, LookAtEmployee, Steps
  <2> QED BY <1>12, <2>1, GoOnTypes DEF FindVisitors, LookAtEmployee
<1> QED BY <1>1, <1>2, <1>3, <1>4, <1>5, <1>6, <1>7, <1>8, <1>9, <1>10, <1>11, <1>12
        DEF Lookup

LEMMA TypesOfUploads ==
  ASSUME TypeOK, NEW w \in Workers, RefusePhoto(w) \/ PutPhoto(w) \/ DeletePhoto(w)
  PROVE  WorkerTypes' /\ BrowserTypes'
<1>1. CASE Finish(w, "ERROR") BY <1>1, EndTypes
<1>2. CASE RefusePhoto(w) BY <1>2, RefusalTypes DEF RefusePhoto
<1>3. CASE PutPhoto(w) /\ ~Finish(w, "ERROR")
  <2>1. PICK k \in UnusedKeys :
          /\ plan' = [plan EXCEPT ![w].key = k]
          /\ pc' = [pc EXCEPT ![w] = "actor"] /\ UNCHANGED <<op, held, shared, browser>>
    BY <1>3 DEF PutPhoto
  <2>2. [plan[w] EXCEPT !.key = k] \in Plans
    BY PlanParts, PlanChanges DEF UnusedKeys
  <2>3. plan' \in [Workers -> Plans] BY <2>1, <2>2 DEF TypeOK
  <2> QED BY <2>1, <2>3 DEF TypeOK, WorkerTypes, BrowserTypes, browser, Steps
<1>4. CASE DeletePhoto(w) BY <1>1, <1>4 DEF DeletePhoto
<1> QED BY <1>1, <1>2, <1>3, <1>4

LEMMA TypesOfStarts ==
  ASSUME TypeOK, NEW w \in Workers, WorkerInv(w), Start(w)
  PROVE  WorkerTypes' /\ BrowserTypes'
<1>1. CASE Begin(w)
  <2>1. PICK o \in Operations :
       /\ o.kind = "BULK" => Confirmed(o)
       /\ op' = [op EXCEPT ![w] = o]
       /\ pc' = [pc EXCEPT ![w] = IF o.kind = "PHOTO" THEN "look" ELSE "actor"]
       /\ plan' = [plan EXCEPT ![w].count =
                     IF o.kind = "BULK" THEN preview[o.admin].count ELSE 0]
    BY <1>1 DEF Begin
  <2> DEFINE n == IF o.kind = "BULK" THEN preview[o.admin].count ELSE 0
  <2>2. n \in Nat
    BY <2>1, OperationParts DEF Confirmed, TypeOK, Previews
  <2>3. plan' = [plan EXCEPT ![w] = [plan[w] EXCEPT !.count = n]] BY <2>1
  <2> HIDE DEF n
  <2>4. [plan[w] EXCEPT !.count = n] \in Plans BY <2>2, PlanParts, PlanChanges
  <2>5. plan' \in [Workers -> Plans] BY <2>3, <2>4 DEF TypeOK
  <2>6. op' \in [Workers -> Operations \cup ImportRequests \cup {None}]
        /\ pc' \in [Workers -> Steps]
    BY <2>1 DEF TypeOK, Steps
  <2>7. UNCHANGED <<held, shared, browser>> BY <1>1 DEF Begin
  <2> QED BY <2>5, <2>6, <2>7 DEF TypeOK, WorkerTypes, BrowserTypes, browser
<1>2. CASE \E a \in Admins : Submit(w, a)
  <2>1. PICK a \in Admins : Submit(w, a) BY <1>2
  <2>2. PICK f \in Files, r \in Requests :
       /\ page' = [page EXCEPT ![a] = Marked(@, r, f, w)]
       /\ op' = [op EXCEPT ![w] =
             [kind |-> "IMPORT", admin |-> a, request |-> r, file |-> f]]
    BY <2>1, NonePlaces DEF Submit, TypeOK, Pages
  <2>3. [kind |-> "IMPORT", admin |-> a, request |-> r, file |-> f] \in ImportRequests
    BY DEF ImportRequests
  <2>4. Marked(page[a], r, f, w) \in Pages
    BY NonePlaces DEF Marked, Pages, TypeOK
  <2>5. op' \in [Workers -> Operations \cup ImportRequests \cup {None}]
        /\ page' \in [Admins -> Pages]
    BY <2>2, <2>3, <2>4 DEF TypeOK
  <2>6. pc' \in [Workers -> Steps] /\ UNCHANGED <<plan, held, shared, known, preview>>
    BY <2>1 DEF Submit, TypeOK, Steps
  <2> QED BY <2>5, <2>6 DEF TypeOK, WorkerTypes, BrowserTypes
<1> QED BY <1>1, <1>2 DEF Start

LEMMA TypesOfRollBack ==
  ASSUME TypeOK, NEW w \in Workers, RollBack(w)
  PROVE  WorkerTypes' /\ BrowserTypes'
<1>1. CASE Finish(w, "ERROR") BY <1>1, EndTypes
<1>2. CASE ~Finish(w, "ERROR")
  BY <1>2, NoPlanTyped DEF RollBack, TypeOK, WorkerTypes, BrowserTypes, browser, Steps
<1> QED BY <1>1, <1>2

(* At their commits, requests about employees have read them as they are.  *)
LEMMA ReadWhenWritten ==
  ASSUME TypeOK, NEW w \in Workers, WorkerInv(w),
         Grant(w) \/ Update(w) \/ SetActive(w) \/ Archive(w)
  PROVE  /\ pc[w] = "commit" /\ op[w] \in Operations
         /\ \A c \in op[w].who :
              /\ c \in Codes /\ Registered(c) /\ employee[c] \in EmployeeRows
              /\ plan[w].read[c] = employee[c]
<1>1. pc[w] = "commit" /\ op[w].kind \in AboutEmployees
  BY DEF Grant, Update, SetActive, Archive, Ready, AboutEmployees
<1>2. op[w] \in Operations
  BY <1>1, RequestParts DEF WorkerInv, AtStep, AboutEmployees
<1> QED BY <1>1, <1>2, OperationParts, ReadAtCommit DEF WorkerInv, Registered, TypeOK

(* A row that is changed keeps its type, its batch, and what the request   *)
(* is not about.                                                           *)
LEMMA KeptRow ==
  ASSUME TypeOK, NEW w \in Workers, WorkerInv(w),
         Grant(w) \/ Update(w) \/ SetActive(w) \/ Archive(w), NEW c \in op[w].who
  PROVE  /\ c \in Codes /\ employee[c] \in EmployeeRows
         /\ employee'[c] \in EmployeeRows
         /\ employee'[c].batch = employee[c].batch
         /\ employee'[c].grants = employee[c].grants \/ Grant(w)
         /\ employee'[c].department = employee[c].department \/ Update(w)
<1>1. /\ c \in Codes /\ employee[c] \in EmployeeRows /\ op[w] \in Operations
      /\ plan[w].read[c] = employee[c]
  BY ReadWhenWritten
<1>2. CASE Grant(w)
  <2> DEFINE o == op[w]
             Had(x) == plan[w].read[x].grants
             After == (employee[c].grants \ (Had(c) \ o.types)) \cup (o.types \ Had(c))
  <2>1. employee'[c] = IF c \in {x \in o.who : Had(x) # o.types}
                       THEN [employee[c] EXCEPT !.grants = After] ELSE employee[c]
    BY <1>1, <1>2 DEF Grant
  <2>2. o.types \in SUBSET Types BY <1>1, <1>2, OperationParts DEF Grant, Ready
  <2>3. employee[c].grants \in SUBSET Types BY <1>1 DEF EmployeeRows
  <2>4. After \in SUBSET Types BY <2>2, <2>3
  <2> HIDE DEF After, Had, o
  <2> QED BY <1>1, <1>2, <2>1, <2>4 DEF EmployeeRows
<1>3. CASE Update(w)
  <2> DEFINE D == IF op[w].kind = "MOVE" THEN op[w].department
                  ELSE plan[w].read[c].department
             K == IF op[w].kind = "PHOTO" THEN plan[w].key ELSE plan[w].read[c].photo
  <2>1. employee'[c] = [employee[c] EXCEPT !.department = D, !.photo = K]
    BY <1>1, <1>3 DEF Update
  <2>2. D \in Departments \cup {None}
    BY <1>1, OperationParts DEF EmployeeRows
  <2>3. K \in Keys \cup {None}
    BY <1>1, PlanParts DEF EmployeeRows
  <2>4. UNCHANGED trail BY <1>3 DEF Update
  <2> HIDE DEF D, K
  <2> QED BY <1>1, <1>3, <2>1, <2>2, <2>3 DEF EmployeeRows
<1>4. CASE SetActive(w) \/ Archive(w)
  <2>1. op[w].active \in BOOLEAN BY <1>1, OperationParts
  <2>2. employee'[c] \in {[employee[c] EXCEPT !.active = op[w].active],
                          [employee[c] EXCEPT !.removed = TRUE, !.active = FALSE]}
    BY <1>1, <1>4 DEF SetActive, Archive
  <2> QED BY <1>1, <2>1, <2>2 DEF EmployeeRows
<1> QED BY <1>2, <1>3, <1>4

(* What is written is of its type.                                         *)
LEMMA TypesOfEnrolment ==
  ASSUME TypeOK, NEW codes, NEW d \in Departments \cup {None},
         NEW types \in SUBSET Types, NEW batch \in (Admins \X Requests) \cup {None},
         Enrol(codes, d, types, batch)
  PROVE  /\ employee' \in [Codes -> EmployeeRows \cup {None}]
         /\ trail' = [c \in Codes |-> trail'[c]]
<1>1. NewEmployee(d, types, batch) \in EmployeeRows
  BY DEF NewEmployee, EmployeeRows
<1>2. employee' \in [Codes -> EmployeeRows \cup {None}]
  BY <1>1 DEF Enrol, TypeOK
<1>3. trail' = [c \in Codes |-> trail'[c]]
  BY DEF Enrol
<1> QED BY <1>2, <1>3

LEMMA TypesOfWrites ==
  ASSUME TypeOK, NEW w \in Workers, WorkerInv(w), Write(w)
  PROVE  TableTypes'
<1>1. pc[w] = "commit" /\ UNCHANGED object BY CommitsFinish
<1>2. op[w] # None BY <1>1 DEF WorkerInv, AtStep
<1>3. CASE Register(w)
  <2>1. op[w].department \in Departments
    BY <1>2, <1>3, RequestParts, OperationParts DEF Register, Ready
  <2>2. Enrol(op[w].who, op[w].department, plan[w].types, None) BY <1>3 DEF Register
  <2>3. plan[w].types \in SUBSET Types BY PlanParts
  <2>4. UNCHANGED <<department, offered, imports>> BY <1>3 DEF Register
  <2>5. /\ employee' \in [Codes -> EmployeeRows \cup {None}]
        /\ trail' = [c \in Codes |-> trail'[c]]
    BY <2>1, <2>2, <2>3, TypesOfEnrolment
  <2> QED BY <1>1, <2>4, <2>5 DEF TypeOK, TableTypes
<1>4. CASE Import(w)
  <2> DEFINE o == op[w]
  <2>1. o \in ImportRequests BY <1>2, <1>4, RequestParts DEF Import, Ready
  <2>2. o.admin \in Admins /\ o.request \in Requests /\ o.file \in Files
    BY <2>1, ImportParts
  <2>3. o.file.types \in SUBSET Types /\ o.file.name \in Names \cup {None}
    BY <2>2, FileParts
  <2>4. PICK d \in Departments \cup {None} :
       /\ IF plan[w].make
          THEN /\ d # None /\ department[d] = None
               /\ department' = [department EXCEPT ![d] =
                                   [name |-> o.file.name, active |-> TRUE]]
          ELSE d = plan[w].department /\ UNCHANGED department
       /\ Enrol({o.file.codes[i] : i \in DOMAIN o.file.codes}, d, o.file.types,
                <<o.admin, o.request>>)
    BY <1>4 DEF Import
  <2>5. /\ employee' \in [Codes -> EmployeeRows \cup {None}]
        /\ trail' = [c \in Codes |-> trail'[c]]
    <3>1. <<o.admin, o.request>> \in (Admins \X Requests) \cup {None} BY <2>2
    <3> HIDE DEF o
    <3> QED BY <2>3, <2>4, <3>1, TypesOfEnrolment
  <2>6. department' \in [Departments -> DepartmentRows \cup {None}]
    <3>1. CASE plan[w].make
      <4>1. o.file.name \in Names
        BY <1>2, <1>4, <2>3, <3>1 DEF WorkerInv, AtStep, Import, Ready
      <4>2. [name |-> o.file.name, active |-> TRUE] \in DepartmentRows
        BY <4>1 DEF DepartmentRows
      <4> QED BY <2>4, <3>1, <4>2 DEF TypeOK
    <3>2. CASE ~plan[w].make BY <2>4, <3>2 DEF TypeOK
    <3> QED BY <3>1, <3>2
  <2>7. imports' \in [Admins \X Requests -> Files \cup {None}]
    BY <1>4, <2>2 DEF Import, TypeOK
  <2>8. offered' = offered BY <1>4 DEF Import
  <2> QED BY <1>1, <2>5, <2>6, <2>7, <2>8 DEF TypeOK, TableTypes
<1>5. CASE Grant(w) \/ Update(w) \/ SetActive(w) \/ Archive(w)
  <2>1. UNCHANGED <<department, offered, imports>>
        /\ trail' = [c \in Codes |-> trail'[c]]
    BY <1>5 DEF Grant, Update, SetActive, Archive, TypeOK
  <2>2. \A c \in Codes : employee'[c] \in EmployeeRows \cup {None}
    <3> TAKE c \in Codes
    <3>1. CASE employee'[c] = employee[c] BY <3>1 DEF TypeOK
    <3>2. CASE c \in op[w].who BY <1>5, <3>2, KeptRow
    <3> QED BY <1>5, <3>1, <3>2, WritesToEmployees
  <2>3. employee' = [c \in Codes |-> employee'[c]]
    BY <1>5 DEF Grant, Update, SetActive, Archive
  <2> QED BY <1>1, <2>1, <2>2, <2>3 DEF TypeOK, TableTypes
<1>6. CASE CreateDepartment(w) \/ RenameDepartment(w) \/ SetDepartmentActive(w)
  <2>1. UNCHANGED <<employee, offered, imports, trail>>
    BY <1>6 DEF CreateDepartment, RenameDepartment, SetDepartmentActive, WriteDepartment
  <2>2. op[w] \in Operations
    BY <1>2, <1>6, RequestParts
       DEF CreateDepartment, RenameDepartment, SetDepartmentActive, Ready
  <2>3. CASE CreateDepartment(w)
    <3>1. op[w].name \in Names BY <2>2, <2>3, OperationParts DEF CreateDepartment, Ready
    <3>2. [name |-> op[w].name, active |-> TRUE] \in DepartmentRows
      BY <3>1 DEF DepartmentRows
    <3>3. department' \in [Departments -> DepartmentRows \cup {None}]
      BY <2>3, <3>2 DEF CreateDepartment, WriteDepartment, TypeOK
    <3> QED BY <1>1, <2>1, <3>3 DEF TypeOK, TableTypes
  <2>4. CASE RenameDepartment(w) \/ SetDepartmentActive(w)
    <3> DEFINE d == op[w].department
    <3>1. d \in Departments /\ department[d] # None
      BY <2>2, <2>4, OperationParts
         DEF RenameDepartment, SetDepartmentActive, Ready, WorkerInv, DepartmentAsRead
    <3>2. department[d] \in DepartmentRows BY <3>1 DEF TypeOK
    <3>3. op[w].active \in BOOLEAN BY <2>2, OperationParts
    <3>4. RenameDepartment(w) => op[w].name \in Names
      BY <2>2, OperationParts DEF RenameDepartment, Ready
    <3>5. PICK row \in DepartmentRows : department' = [department EXCEPT ![d] = row]
      BY <2>4, <3>2, <3>3, <3>4
         DEF RenameDepartment, SetDepartmentActive, WriteDepartment, DepartmentRows
    <3>6. department' \in [Departments -> DepartmentRows \cup {None}]
      BY <3>5 DEF TypeOK
    <3> QED BY <1>1, <2>1, <3>6 DEF TypeOK, TableTypes
  <2> QED BY <1>6, <2>3, <2>4
<1>7. CASE SetTypeActive(w)
  <2>1. op[w].types \in SUBSET Types
    BY <1>2, <1>7, RequestParts, OperationParts DEF SetTypeActive, Ready
  <2> QED BY <1>1, <1>7, <2>1 DEF SetTypeActive, TypeOK, TableTypes
<1>8. CASE CreateVisitors(w)
  BY <1>1, <1>8 DEF CreateVisitors, TypeOK, TableTypes
<1> QED BY <1>3, <1>4, <1>5, <1>6, <1>7, <1>8 DEF Write

LEMMA TypesHold ==
  ASSUME TypeOK, NEW w \in Workers, WorkerInv(w), Start(w) \/ Work(w)
  PROVE  TypeOK'
<1>1. WorkerTypes' /\ BrowserTypes'
  <2>1. CASE Write(w) BY <2>1, CommitsFinish, Commits, EndTypes
  <2> QED BY <2>1, TypesOfLookups, TypesOfUploads, TypesOfStarts, TypesOfRollBack
          DEF Work, Upload
<1>2. TableTypes'
  <2>1. CASE Write(w) BY <2>1, TypesOfWrites
  <2>2. CASE PutPhoto(w) \/ DeletePhoto(w)
    <3>1. UNCHANGED tables BY <2>2 DEF PutPhoto, DeletePhoto
    <3>2. object' \subseteq Keys
      BY <2>2, RegistryAssumption
         DEF PutPhoto, DeletePhoto, FailedPut, LocalPut, S3Put, VercelPut, UnusedKeys, TypeOK
    <3> QED BY <3>1, <3>2 DEF tables, TypeOK, TableTypes
  <2>3. CASE Start(w) \/ Lookup(w) \/ LookAtEmployee(w) \/ RefusePhoto(w) \/ RollBack(w)
    BY <2>3, LookupsWriteNothing DEF tables, TypeOK, TableTypes
  <2> QED BY <2>1, <2>2, <2>3 DEF Work, Upload
<1> QED BY <1>1, <1>2, TypeNext

-----------------------------------------------------------------------------
(* The invariant of the tables                                             *)

LEMMA PhotosStayStored ==
  ASSUME TypeOK, PhotosStored, NEW w \in Workers, WorkerInv(w), WritesOwn(w)
  PROVE  PhotosStored'
<1> SUFFICES ASSUME NEW c \in Codes, employee'[c] # None, employee'[c].photo # None
             PROVE  employee'[c].photo \in object'
  BY DEF PhotosStored
<1>1. \/ employee'[c].photo = plan[w].key
      \/ employee[c] # None /\ employee'[c].photo = employee[c].photo
  BY DEF WritesOwn
<1>2. CASE object \subseteq object'
  BY <1>1, <1>2 DEF PhotosStored, WorkerInv, PhotoUnnamed
<1>3. CASE UNCHANGED employee /\ object' = object \ {plan[w].key}
  BY <1>3 DEF PhotosStored, WorkerInv, PhotoUnnamed
<1> QED BY <1>2, <1>3 DEF WritesOwn

LEMMA TablesInit == Init => TablesInv
<1> SUFFICES ASSUME Init PROVE TablesInv
  OBVIOUS
<1>1. TypeOK
  <2>1. TableTypes BY RegistryAssumption DEF Init, TableTypes
  <2>2. WorkerTypes BY NoPlanTyped DEF Init, WorkerTypes, Steps
  <2>3. BrowserTypes BY NoImportTyped DEF Init, BrowserTypes
  <2> QED BY <2>1, <2>2, <2>3, TypeParts
<1>2. LocksExclude BY DEF Init, LocksExclude
<1>3. PhotosStored BY RegistryAssumption DEF Init, PhotosStored
<1>4. ASSUME NEW w \in Workers PROVE WorkerInv(w)
  <2>1. /\ op[w] = None /\ pc[w] = "idle" /\ plan[w] = NoPlan
        /\ held[w] = {} /\ shared[w] = {}
    BY DEF Init
  <2>2. NoPlan.key = None /\ NoPlan.make = FALSE BY DEF NoPlan
  <2>3. AtStep(w) BY <2>1, <2>2 DEF AtStep
  <2>4. EmployeesAsRead(w) BY <2>1 DEF EmployeesAsRead
  <2>5. CodesFree(w) BY <2>1 DEF CodesFree, Enrolling
  <2>6. DepartmentAsRead(w) BY <2>1 DEF DepartmentAsRead
  <2>7. PhotoUnnamed(w) BY <2>1, <2>2 DEF PhotoUnnamed
  <2>8. CountHolds(w) BY <2>1 DEF CountHolds
  <2> QED BY <2>3, <2>4, <2>5, <2>6, <2>7, <2>8 DEF WorkerInv
<1> QED BY <1>1, <1>2, <1>3, <1>4 DEF TablesInv

(* A step is one of a worker, or of a browser alone.                       *)
LEMMA StepsOfWorkers ==
  ASSUME Next
  PROVE  \/ \E w \in Workers : Start(w) \/ Work(w)
         \/ \E o \in Operations : Preview(o)
         \/ \E a \in Admins : Reload(a)
BY DEF Next, Start, Work

LEMMA BrowsersWriteNothing ==
  ASSUME UNCHANGED vars
         \/ (\E o \in Operations : Preview(o)) \/ (\E a \in Admins : Reload(a))
  PROVE  UNCHANGED <<tables, object, worker>>
BY DEF vars, Preview, Reload

LEMMA WorkersUnchanged ==
  ASSUME UNCHANGED <<tables, object, worker>>, NEW w \in Workers, WorkerInv(w)
  PROVE  WorkerInv(w)'
<1> USE DEF tables, worker
<1>1. AtStep(w)' BY DEF WorkerInv, AtStep
<1>2. EmployeesAsRead(w)' BY DEF WorkerInv, EmployeesAsRead, Registered
<1>3. CodesFree(w)' BY DEF WorkerInv, CodesFree, Enrolling, NewCodes, ToCome
<1>4. DepartmentAsRead(w)' BY DEF WorkerInv, DepartmentAsRead, SharesOpen, Open
<1>5. PhotoUnnamed(w)' BY DEF WorkerInv, PhotoUnnamed
<1>6. CountHolds(w)' BY DEF WorkerInv, CountHolds, CountConfirmed
<1> QED BY <1>1, <1>2, <1>3, <1>4, <1>5, <1>6 DEF WorkerInv

LEMMA TypesOfBrowsers ==
  ASSUME TypeOK,
         UNCHANGED vars
         \/ (\E o \in Operations : Preview(o)) \/ (\E a \in Admins : Reload(a))
  PROVE  TypeOK'
<1>1. TableTypes' /\ WorkerTypes'
  BY BrowsersWriteNothing DEF TypeOK, TableTypes, WorkerTypes, tables, worker
<1>2. BrowserTypes'
  <2>1. CASE UNCHANGED vars
    BY <2>1 DEF TypeOK, BrowserTypes, vars, browser
  <2>2. CASE \E o \in Operations : Preview(o)
    <3>1. PICK o \in Operations : Preview(o) BY <2>2
    <3> DEFINE p == [who |-> o.who, types |-> o.types,
                     count |-> Cardinality(Changing(o.who, o.types))]
    <3>2. o.who \subseteq Codes /\ o.types \in SUBSET Types
      BY <3>1, OperationParts DEF Preview
    <3>3. Cardinality(Changing(o.who, o.types)) \in Nat
      <4>1. Changing(o.who, o.types) \subseteq Codes BY <3>2 DEF Changing
      <4>2. IsFiniteSet(Changing(o.who, o.types))
        BY <4>1, RegistryAssumption, FS_Subset
      <4> QED BY <4>2, FS_CardinalityType
    <3>4. p \in Previews BY <3>2, <3>3 DEF Previews
    <3>5. preview' = [preview EXCEPT ![o.admin] = p] /\ UNCHANGED <<page, known>>
      BY <3>1 DEF Preview
    <3> HIDE DEF p
    <3> QED BY <3>4, <3>5 DEF TypeOK, BrowserTypes
  <2>3. CASE \E a \in Admins : Reload(a)
    <3>1. PICK a \in Admins : Reload(a) BY <2>3
    <3> DEFINE p == IF page[a].submitted
                    THEN [page[a] EXCEPT !.worker = None, !.first = FALSE] ELSE NoImport
    <3>2. page' = [page EXCEPT ![a] = p] /\ UNCHANGED <<known, preview>>
      BY <3>1 DEF Reload
    <3>3. page[a] \in Pages BY DEF TypeOK
    <3>4. p \in Pages BY <3>3, NoImportTyped DEF Pages
    <3> HIDE DEF p
    <3> QED BY <3>2, <3>4 DEF TypeOK, BrowserTypes
  <2> QED BY <2>1, <2>2, <2>3
<1> QED BY <1>1, <1>2, TypeNext

LEMMA TablesNext == TablesInv /\ [Next]_vars => TablesInv'
<1> SUFFICES ASSUME TablesInv, [Next]_vars PROVE TablesInv'
  OBVIOUS
<1>1. CASE \E w \in Workers : Start(w) \/ Work(w)
  <2>1. PICK w \in Workers : Start(w) \/ Work(w) BY <1>1
  <2>2. TypeOK' BY <2>1, TypesHold DEF TablesInv
  <2>3. LocksExclude' /\ \A v \in Workers : WorkerInv(v)'
    BY <2>1, WorkersHold DEF TablesInv
  <2>4. PhotosStored' BY <2>1, RowsProtected, PhotosStayStored DEF TablesInv
  <2> QED BY <2>2, <2>3, <2>4 DEF TablesInv
<1>2. CASE UNCHANGED vars
           \/ (\E o \in Operations : Preview(o)) \/ (\E a \in Admins : Reload(a))
  <2>1. UNCHANGED <<tables, object, worker>> BY <1>2, BrowsersWriteNothing
  <2>2. TypeOK' BY <1>2, TypesOfBrowsers DEF TablesInv
  <2>3. LocksExclude' BY <2>1 DEF TablesInv, LocksExclude, worker
  <2>4. PhotosStored' BY <2>1 DEF TablesInv, PhotosStored, tables
  <2>5. \A v \in Workers : WorkerInv(v)' BY <2>1, WorkersUnchanged DEF TablesInv
  <2> QED BY <2>2, <2>3, <2>4, <2>5 DEF TablesInv
<1> QED BY <1>1, <1>2, StepsOfWorkers

(* What transactions have read under their locks still holds, the locks    *)
(* exclude each other, and every variable keeps its type.                  *)
THEOREM TablesInvariant == Spec => []TablesInv
BY TablesInit, TablesNext, PTL DEF Spec

(* The photo an employee's row names is in the store, however uploads      *)
(* fail, are refused or lose their answers (employee_photo_upload).        *)
THEOREM PhotosAreStored == Spec => []PhotosStored
<1>1. TablesInv => PhotosStored BY DEF TablesInv
<1> QED BY <1>1, TablesInvariant, PTL

-----------------------------------------------------------------------------
(* What a step may never do                                                *)

(* Who writes to which employees.                                          *)
LEMMA WritersOfEmployees ==
  ASSUME TypeOK, NEW w \in Workers, Start(w) \/ Work(w)
  PROVE  \/ UNCHANGED <<employee, trail>>
         \/ Register(w) \/ Import(w) \/ Grant(w) \/ Update(w) \/ SetActive(w) \/ Archive(w)
<1>1. CASE Start(w) \/ Lookup(w) \/ LookAtEmployee(w) \/ RefusePhoto(w) \/ RollBack(w)
  BY <1>1, LookupsWriteNothing DEF tables
<1>2. CASE PutPhoto(w) \/ DeletePhoto(w)
  BY <1>2 DEF PutPhoto, DeletePhoto, tables
<1>3. CASE Write(w)
  BY <1>3 DEF Write, CreateDepartment, RenameDepartment, SetDepartmentActive,
       SetTypeActive, CreateVisitors, WriteDepartment
<1> QED BY <1>1, <1>2, <1>3 DEF Work, Upload

(* The codes of a registration are free when it writes them.               *)
LEMMA NewWhenWritten ==
  ASSUME NEW w \in Workers, WorkerInv(w), Register(w) \/ Import(w)
  PROVE  \E d, types, batch :
           /\ Enrol(NewCodes(w), d, types, batch)
           /\ \A c \in NewCodes(w) : employee[c] = None
<1>1. \A c \in NewCodes(w) : employee[c] = None
  BY CodesHeld DEF Register, Import, Ready, WorkerInv
<1>2. CASE Register(w)
  BY <1>1, <1>2 DEF Register, Ready, NewCodes
<1>3. CASE Import(w)
  BY <1>1, <1>3 DEF Import, Ready, NewCodes
<1> QED BY <1>2, <1>3

LEMMA RemovedUntouched ==
  ASSUME TypeOK, NEW w \in Workers, WorkerInv(w), Start(w) \/ Work(w),
         NEW c \in Codes, employee[c] # None, employee[c].removed
  PROVE  employee'[c] = employee[c]
<1>1. CASE Register(w) \/ Import(w)
  BY <1>1, NewWhenWritten DEF Enrol
<1>2. CASE Grant(w) \/ Update(w) \/ SetActive(w) \/ Archive(w)
  BY <1>2, ReadWhenWritten, WritesToEmployees DEF Registered
<1> QED BY <1>1, <1>2, WritersOfEmployees

(* What was removed is never written again: no grant, photo, department or *)
(* registration comes to it from a transaction that had read it before.    *)
THEOREM RemovedStay == Spec => RemovedStaysRemoved
<1>1. TablesInv /\ [Next]_vars =>
        [\A c \in Codes :
           employee[c] # None /\ employee[c].removed => employee'[c] = employee[c]]_vars
  <2> SUFFICES ASSUME TablesInv, Next, NEW c \in Codes,
                      employee[c] # None, employee[c].removed
               PROVE  employee'[c] = employee[c]
    OBVIOUS
  <2>1. CASE \E w \in Workers : Start(w) \/ Work(w)
    BY <2>1, RemovedUntouched DEF TablesInv
  <2>2. CASE (\E o \in Operations : Preview(o)) \/ (\E a \in Admins : Reload(a))
    BY <2>2, BrowsersWriteNothing DEF tables
  <2> QED BY <2>1, <2>2, StepsOfWorkers
<1> QED BY <1>1, TablesInvariant, PTL DEF Spec, RemovedStaysRemoved

(* What a change of meal types leaves: the types asked for, and a trail of *)
(* what the employee had.                                                  *)
LEMMA GrantWrites ==
  ASSUME TypeOK, NEW w \in Workers, WorkerInv(w), Grant(w), NEW c \in Codes
  PROVE  IF c \in op[w].who /\ employee[c].grants # op[w].types
         THEN /\ employee'[c].grants = op[w].types /\ employee'[c] # employee[c]
              /\ trail'[c] = [before |-> employee[c].grants, after |-> op[w].types]
              /\ employee[c] # None
         ELSE employee'[c] = employee[c] /\ trail'[c] = trail[c]
<1> DEFINE o == op[w]
           Had(x) == plan[w].read[x].grants
           changed == {x \in o.who : Had(x) # o.types}
<1>1. \A x \in o.who : /\ x \in Codes /\ employee[x] # None
                      /\ employee[x] \in EmployeeRows /\ plan[w].read[x] = employee[x]
  BY ReadWhenWritten DEF Registered
<1>2. c \in changed <=> c \in o.who /\ employee[c].grants # o.types
  BY <1>1
<1>3. /\ employee'[c] = IF c \in changed
        THEN [employee[c] EXCEPT !.grants =
               (employee[c].grants \ (Had(c) \ o.types)) \cup (o.types \ Had(c))]
        ELSE employee[c]
      /\ trail'[c] = IF c \in changed
        THEN [before |-> Had(c), after |-> o.types] ELSE trail[c]
  BY DEF Grant, TypeOK
<1>4. CASE c \in changed
  <2>1. /\ Had(c) = employee[c].grants /\ employee[c] \in EmployeeRows
        /\ employee[c] # None
    BY <1>1, <1>4
  <2>2. (employee[c].grants \ (Had(c) \ o.types)) \cup (o.types \ Had(c)) = o.types
    BY <2>1
  <2>3. employee'[c] = [employee[c] EXCEPT !.grants = o.types] BY <1>3, <1>4, <2>2
  <2>4. employee'[c].grants = o.types BY <2>1, <2>3 DEF EmployeeRows
  <2> QED BY <1>2, <1>3, <1>4, <2>1, <2>4
<1>5. CASE c \notin changed BY <1>2, <1>3, <1>5
<1> QED BY <1>4, <1>5

LEMMA ChangesAudited ==
  ASSUME TypeOK, NEW w \in Workers, WorkerInv(w), Start(w) \/ Work(w), NEW c \in Codes
  PROVE  \/ /\ trail'[c] = trail[c]
            /\ employee[c] # None => employee'[c].grants = employee[c].grants
         \/ trail'[c] = [before |-> IF employee[c] = None THEN {} ELSE employee[c].grants,
                         after |-> employee'[c].grants]
<1>1. CASE Register(w) \/ Import(w)
  <2>1. PICK d, types, batch :
          /\ Enrol(NewCodes(w), d, types, batch)
          /\ \A x \in NewCodes(w) : employee[x] = None
    BY <1>1, NewWhenWritten
  <2>2. NewEmployee(d, types, batch).grants = types BY DEF NewEmployee
  <2> QED BY <2>1, <2>2 DEF Enrol
<1>2. CASE Grant(w)
  BY <1>2, GrantWrites
<1>3. CASE Update(w) \/ SetActive(w) \/ Archive(w)
  <2>1. UNCHANGED trail BY <1>3 DEF Update, SetActive, Archive
  <2>2. c \notin op[w].who => employee'[c] = employee[c]
    BY <1>3 DEF Update, SetActive, Archive
  <2>3. c \in op[w].who /\ ~Grant(w) => employee'[c].grants = employee[c].grants
    BY <1>3, KeptRow
  <2> QED BY <1>2, <2>1, <2>2, <2>3
<1> QED BY <1>1, <1>2, <1>3, WritersOfEmployees

(* The audit trail tells every change of meal types as it was: what the    *)
(* employee had before it, and what was asked for (set_meal_types).        *)
THEOREM GrantsAreAudited == Spec => GrantsAudited
<1>1. TablesInv /\ [Next]_vars =>
        [\A c \in Codes :
           \/ trail'[c] = trail[c]
              /\ (employee[c] # None => employee'[c].grants = employee[c].grants)
           \/ trail'[c] = [before |-> IF employee[c] = None THEN {} ELSE employee[c].grants,
                           after |-> employee'[c].grants]]_vars
  <2> SUFFICES ASSUME TablesInv, Next, NEW c \in Codes
               PROVE  \/ trail'[c] = trail[c]
                         /\ (employee[c] # None => employee'[c].grants = employee[c].grants)
                      \/ trail'[c] = [before |-> IF employee[c] = None THEN {}
                                                 ELSE employee[c].grants,
                                      after |-> employee'[c].grants]
    OBVIOUS
  <2>1. CASE \E w \in Workers : Start(w) \/ Work(w)
    BY <2>1, ChangesAudited DEF TablesInv
  <2>2. CASE (\E o \in Operations : Preview(o)) \/ (\E a \in Admins : Reload(a))
    BY <2>2, BrowsersWriteNothing DEF tables
  <2> QED BY <2>1, <2>2, StepsOfWorkers
<1> QED BY <1>1, TablesInvariant, PTL DEF Spec, GrantsAudited

LEMMA BulkChangesCount ==
  ASSUME TypeOK, NEW v \in Workers, WorkerInv(v), Start(v) \/ Work(v), LeavesOthers(v),
         NEW w \in Workers, op[w] # None, op[w].kind = "BULK", pc[w] = "commit",
         employee' # employee, pc'[w] = "idle"
  PROVE  Cardinality({c \in Codes : employee'[c] # employee[c]}) = plan[w].count
<1>1. v = w
  <2>1. v # w => pc'[w] = pc[w] BY DEF LeavesOthers
  <2> QED BY <2>1
<1>2. Grant(w)
  BY <1>1, WritersOfEmployees DEF Register, Import, Update, SetActive, Archive, Ready
<1>3. op[w].who \subseteq Codes /\ \A c \in op[w].who : plan[w].read[c] = employee[c]
  BY <1>1, <1>2, ReadWhenWritten
<1>4. {c \in Codes : employee'[c] # employee[c]}
        = {c \in op[w].who : plan[w].read[c].grants # op[w].types}
  <2>1. \A c \in Codes : employee'[c] # employee[c] <=>
                          c \in op[w].who /\ employee[c].grants # op[w].types
    BY <1>1, <1>2, GrantWrites
  <2>2. \A c \in op[w].who : plan[w].read[c].grants = employee[c].grants BY <1>3
  <2> QED BY <1>3, <2>1, <2>2
<1>5. plan[w].count = Cardinality({c \in op[w].who : plan[w].read[c].grants # op[w].types})
  BY <1>1 DEF WorkerInv, CountHolds, CountConfirmed
<1> QED BY <1>4, <1>5

(* A bulk change changes exactly as many employees as were confirmed, for  *)
(* any number of them and of other requests (set_meal_types_bulk).         *)
THEOREM BulkIsAsConfirmed == Spec => BulkAsConfirmed
<1>1. TablesInv /\ [Next]_vars =>
        [\A w \in Workers :
           op[w] # None /\ op[w].kind = "BULK" /\ pc[w] = "commit"
           /\ employee' # employee /\ pc'[w] = "idle" =>
             Cardinality({c \in Codes : employee'[c] # employee[c]})
               = plan[w].count]_vars
  <2> SUFFICES ASSUME TablesInv, Next, NEW w \in Workers, op[w] # None,
                      op[w].kind = "BULK", pc[w] = "commit",
                      employee' # employee, pc'[w] = "idle"
               PROVE  Cardinality({c \in Codes : employee'[c] # employee[c]})
                        = plan[w].count
    OBVIOUS
  <2>1. CASE \E v \in Workers : Start(v) \/ Work(v)
    BY <2>1, OthersKept, BulkChangesCount DEF TablesInv
  <2>2. CASE (\E o \in Operations : Preview(o)) \/ (\E a \in Admins : Reload(a))
    BY <2>2, BrowsersWriteNothing DEF tables
  <2> QED BY <2>1, <2>2, StepsOfWorkers
<1> QED BY <1>1, TablesInvariant, PTL DEF Spec, BulkAsConfirmed

LEMMA JoinedIsOpen ==
  ASSUME TypeOK, NEW w \in Workers, WorkerInv(w), Start(w) \/ Work(w), NEW c \in Codes,
         employee'[c] # None, employee'[c].department # None,
         employee[c] = None \/ employee[c].department # employee'[c].department
  PROVE  department'[employee'[c].department].active
<1>1. employee'[c] # employee[c] OBVIOUS
<1>2. CASE Register(w)
  <2>1. op[w] # None /\ pc[w] = "commit" /\ op[w].kind = "REGISTER"
    BY <1>2 DEF Register, Ready, WorkerInv, AtStep
  <2>2. SharesOpen(w, op[w].department) BY <2>1 DEF WorkerInv, DepartmentAsRead
  <2>3. employee'[c] = NewEmployee(op[w].department, plan[w].types, None)
    BY <1>1, <1>2 DEF Register, Enrol
  <2>4. employee'[c].department = op[w].department /\ UNCHANGED department
    BY <1>2, <2>3 DEF Register, NewEmployee
  <2> QED BY <2>2, <2>4 DEF SharesOpen, Open
<1>3. CASE Import(w)
  <2> DEFINE o == op[w]
  <2>1. o # None /\ o.kind = "IMPORT"
    BY <1>3 DEF Import, Ready, WorkerInv, AtStep
  <2>2. PICK d \in Departments \cup {None} :
       /\ IF plan[w].make
          THEN /\ d # None /\ department[d] = None
               /\ department' = [department EXCEPT ![d] =
                                   [name |-> o.file.name, active |-> TRUE]]
          ELSE d = plan[w].department /\ UNCHANGED department
       /\ Enrol({o.file.codes[i] : i \in DOMAIN o.file.codes}, d, o.file.types,
                <<o.admin, o.request>>)
    BY <1>3 DEF Import
  <2>3. employee'[c] = NewEmployee(d, o.file.types, <<o.admin, o.request>>)
    BY <1>1, <2>2 DEF Enrol
  <2>4. employee'[c].department = d /\ d # None BY <2>3 DEF NewEmployee
  <2>5. CASE plan[w].make
    <3>1. department'[d] = [name |-> o.file.name, active |-> TRUE]
      BY <2>2, <2>4, <2>5 DEF TypeOK
    <3> QED BY <2>4, <3>1
  <2>6. CASE ~plan[w].make
    <3>1. SharesOpen(w, d) /\ UNCHANGED department
      BY <2>1, <2>2, <2>4, <2>6 DEF WorkerInv, DepartmentAsRead
    <3> QED BY <2>4, <3>1 DEF SharesOpen, Open
  <2> QED BY <2>5, <2>6
<1>4. CASE (Grant(w) \/ SetActive(w) \/ Archive(w)) /\ ~Update(w)
  <2>1. c \in op[w].who BY <1>1, <1>4, WritesToEmployees
  <2>2. employee[c] \in EmployeeRows /\ employee'[c].department = employee[c].department
    BY <1>4, <2>1, KeptRow
  <2> QED BY <2>2, NonePlaces
<1>5. CASE Update(w)
  <2>1. c \in op[w].who BY <1>1, <1>5 DEF Update
  <2>2. /\ employee[c] \in EmployeeRows /\ employee[c] # None /\ pc[w] = "commit"
        /\ plan[w].read[c] = employee[c]
    BY <1>5, <2>1, ReadWhenWritten DEF Registered
  <2>3. UNCHANGED department BY <1>5 DEF Update
  <2>4. employee'[c].department = IF op[w].kind = "MOVE" THEN op[w].department
                                  ELSE plan[w].read[c].department
    BY <1>5, <2>1, <2>2 DEF Update, EmployeeRows
  <2>5. op[w].kind = "MOVE" /\ plan[w].read[c].department # op[w].department
    BY <2>2, <2>4
  <2>6. SharesOpen(w, op[w].department)
    BY <2>1, <2>2, <2>5 DEF WorkerInv, DepartmentAsRead
  <2> QED BY <2>3, <2>4, <2>5, <2>6 DEF SharesOpen, Open
<1> QED BY <1>1, <1>2, <1>3, <1>4, <1>5, WritersOfEmployees

LEMMA InvitedToOpen ==
  ASSUME TypeOK, NEW w \in Workers, WorkerInv(w), Start(w) \/ Work(w),
         NEW v \in visitors' \ visitors
  PROVE  department'[v.content.department].active
<1>1. CreateVisitors(w)
  <2>1. CASE Start(w) \/ Lookup(w) \/ LookAtEmployee(w) \/ RefusePhoto(w) \/ RollBack(w)
    BY <2>1, LookupsWriteNothing DEF tables
  <2>2. CASE PutPhoto(w) \/ DeletePhoto(w)
    BY <2>2 DEF PutPhoto, DeletePhoto, tables
  <2>3. CASE Write(w)
    BY <2>3 DEF Write, Register, Import, Grant, Update, SetActive, Archive,
         CreateDepartment, RenameDepartment, SetDepartmentActive, SetTypeActive,
         WriteDepartment
  <2> QED BY <2>1, <2>2, <2>3 DEF Work, Upload
<1>2. pc[w] = "commit" /\ op[w].kind = "VISITORS" /\ UNCHANGED department
      /\ v.content = Content(op[w])
  BY <1>1 DEF CreateVisitors, Ready
<1>3. SharesOpen(w, op[w].department) BY <1>2 DEF WorkerInv, DepartmentAsRead
<1> QED BY <1>2, <1>3 DEF Content, SharesOpen, Open

(* Nobody joins a closed department: whoever takes people into it shares   *)
(* its row, which closing it needs for itself (_department).               *)
THEOREM NobodyJoinsClosed == Spec => NobodyJoinsClosedDepartment
<1>1. TablesInv /\ [Next]_vars =>
        [/\ \A c \in Codes :
              /\ employee'[c] # None /\ employee'[c].department # None
              /\ employee[c] = None \/ employee[c].department # employee'[c].department
              => department'[employee'[c].department].active
         /\ \A v \in visitors' \ visitors :
              department'[v.content.department].active]_vars
  <2> SUFFICES ASSUME TablesInv, Next
               PROVE  /\ \A c \in Codes :
                           /\ employee'[c] # None /\ employee'[c].department # None
                           /\ employee[c] = None
                              \/ employee[c].department # employee'[c].department
                           => department'[employee'[c].department].active
                      /\ \A v \in visitors' \ visitors :
                           department'[v.content.department].active
    OBVIOUS
  <2>1. CASE \E w \in Workers : Start(w) \/ Work(w)
    BY <2>1, JoinedIsOpen, InvitedToOpen DEF TablesInv
  <2>2. CASE (\E o \in Operations : Preview(o)) \/ (\E a \in Admins : Reload(a))
    BY <2>2, BrowsersWriteNothing DEF tables
  <2> QED BY <2>1, <2>2, StepsOfWorkers
<1> QED BY <1>1, TablesInvariant, PTL DEF Spec, NobodyJoinsClosedDepartment

-----------------------------------------------------------------------------
(* Imports and their pages                                                 *)

(* The employees of a file are as many as its rows.                        *)
LEMMA CodesCounted ==
  ASSUME NEW f \in Files
  PROVE  Cardinality({f.codes[i] : i \in DOMAIN f.codes}) = Len(f.codes)
<1> DEFINE codes == f.codes
           S == {codes[i] : i \in DOMAIN codes}
<1>1. /\ codes \in Seq(Codes) /\ Len(codes) \in Nat /\ DOMAIN codes = 1..Len(codes)
      /\ codes = [i \in DOMAIN codes |-> codes[i]]
      /\ \A i, j \in DOMAIN codes : codes[i] = codes[j] => i = j
  <2>1. codes \in Seq(Codes) /\ \A i, j \in DOMAIN codes : codes[i] = codes[j] => i = j
    BY FileParts
  <2> HIDE DEF codes
  <2> QED BY <2>1
<1> HIDE DEF codes
<1>2. codes \in [1..Len(codes) -> S] BY <1>1
<1>3. \A x \in S : \E i \in 1..Len(codes) : codes[i] = x BY <1>1
<1>4. codes \in Bijection(1..Len(codes), S)
  BY <1>1, <1>2, <1>3 DEF Bijection, Injection, Surjection, IsInjective
<1>5. ExistsBijection(1..Len(codes), S) BY <1>4 DEF ExistsBijection
<1> HIDE DEF S
<1>6. Cardinality(S) = Len(codes) BY <1>1, <1>5, FS_CountingElements
<1> QED BY <1>6 DEF S, codes

IsImport(w) == op[w] # None /\ op[w].kind = "IMPORT"
FarOn == {"departments", "name", "code", "types", "commit"}

(* A statement after which an import goes on.                              *)
Proceeds(w) ==
  /\ UNCHANGED <<op, page, known, imports>>
  /\ IsImport(w) =>
       /\ pc'[w] \in FarOn => ImportKey(op[w].admin, op[w].request) \in held'[w]
       /\ imports[Batch(w)] # None => pc'[w] \in {"actor", "batch"}

(* One that answers: for a committed import with its result, or an error   *)
(* the page does not take as the end of it.                                *)
Answers(w, answer) ==
  /\ Finish(w, answer)
  /\ IsImport(w) =>
       /\ answer = "OK" => imports'[Batch(w)] # None
       /\ imports'[Batch(w)] # None => answer \notin RejectedImports

LEMMA ImportRefused ==
  ASSUME TypeOK, NEW w \in Workers, WorkerInv(w), NEW code, Refuse(w, code),
         IsImport(w) => /\ code = "OK" => imports[Batch(w)] # None
                        /\ imports[Batch(w)] # None => code \notin RejectedImports
  PROVE  Proceeds(w) \/ Answers(w, code)
<1>1. UNCHANGED imports BY Refusals DEF tables
<1>2. CASE Finish(w, code) BY <1>1, <1>2 DEF Answers
<1>3. CASE plan[w].key # None /\ UNCHANGED <<op, plan, browser>>
  <2>1. ~IsImport(w) BY <1>3 DEF WorkerInv, AtStep, IsImport
  <2> QED BY <1>1, <1>3, <2>1 DEF Proceeds, browser
<1> QED BY <1>2, <1>3, Refusals

(* A refusal by a statement an import is not at, or not yet committed at.  *)
LEMMA RefusedBefore ==
  ASSUME TypeOK, NEW w \in Workers, WorkerInv(w), ImportAsSent(w),
         NEW code, Refuse(w, code), IsImport(w) => code # "OK" /\ pc[w] \in FarOn
  PROVE  Proceeds(w) \/ Answers(w, code)
<1>1. IsImport(w) => imports[Batch(w)] = None
  BY DEF IsImport, ImportAsSent, FarOn
<1> QED BY <1>1, ImportRefused

LEMMA GoneOn ==
  ASSUME TypeOK, NEW w \in Workers, ImportAsSent(w), NEW step, GoOn(w, step),
         IsImport(w) => pc[w] \in FarOn /\ held[w] \subseteq held'[w]
  PROVE  Proceeds(w)
<1>1. UNCHANGED <<op, page, known, imports>> BY DEF GoOn, browser, tables
<1>2. IsImport(w) => /\ ImportKey(op[w].admin, op[w].request) \in held'[w]
                     /\ imports[Batch(w)] = None
  BY DEF IsImport, ImportAsSent, FarOn
<1> QED BY <1>1, <1>2 DEF Proceeds

LEMMA ImportLookups ==
  ASSUME TypeOK, NEW w \in Workers, WorkerInv(w), ImportAsSent(w),
         Lookup(w) \/ LookAtEmployee(w)
  PROVE  Proceeds(w) \/ \E answer : Answers(w, answer)
<1>1. CASE LockActor(w)
  <2>1. UNCHANGED <<op, page, known, imports>> /\ pc' = [pc EXCEPT ![w] = First(op[w].kind)]
    BY <1>1 DEF LockActor, GoOn, browser, tables
  <2>2. IsImport(w) => pc'[w] = "batch"
    BY <2>1 DEF IsImport, First, AboutEmployees, TypeOK
  <2> QED BY <2>1, <2>2 DEF Proceeds, FarOn
<1>2. CASE FindImport(w)
  <2> DEFINE o == op[w]
             found == imports[Batch(w)]
  <2>1. IsImport(w) BY <1>2 DEF FindImport, WorkerInv, AtStep, IsImport
  <2>2. CASE found = None
    <3>1. UNCHANGED <<op, page, known, imports>>
      BY <1>2, <2>2 DEF FindImport, GoOn, browser, tables, Batch
    <3>2. ImportKey(o.admin, o.request) \in held'[w]
      BY <1>2, <2>2 DEF FindImport, Lock, TypeOK, Batch
    <3> QED BY <2>2, <3>1, <3>2 DEF Proceeds
  <2>3. CASE found # None
    <3>1. Refuse(w, Replay(o, found)) BY <1>2, <2>3 DEF FindImport, Batch
    <3>2. Replay(o, found) \notin RejectedImports BY DEF Replay, RejectedImports
    <3> QED BY <2>3, <3>1, <3>2, ImportRefused
  <2> QED BY <2>2, <2>3
<1>3. CASE InsertEmployee(w)
  <2>1. pc[w] \in FarOn BY <1>3 DEF InsertEmployee, FarOn
  <2>2. CASE Refuse(w, "EMPLOYEE_CODE_EXISTS") BY <2>1, <2>2, RefusedBefore
  <2>3. CASE \E step : GoOn(w, step) /\ held[w] \subseteq held'[w] BY <2>1, <2>3, GoneOn
  <2> QED BY <1>3, <2>2, <2>3 DEF InsertEmployee, Lock, TypeOK
<1>4. CASE ShareTypes(w)
  <2>1. pc[w] \in FarOn BY <1>4 DEF ShareTypes, FarOn
  <2>2. CASE \E code : Refuse(w, code) /\ code # "OK" BY <2>1, <2>2, RefusedBefore
  <2>3. CASE \E step : GoOn(w, step) /\ held[w] \subseteq held'[w] BY <2>1, <2>3, GoneOn
  <2> QED BY <1>4, <2>2, <2>3 DEF ShareTypes, Share
<1>5. CASE FindDepartment(w)
  <2>1. pc[w] \in FarOn BY <1>5 DEF FindDepartment, FarOn
  <2>2. CASE \E code : Refuse(w, code) /\ code # "OK" BY <2>1, <2>2, RefusedBefore
  <2>3. CASE \E step : GoOn(w, step) /\ held[w] \subseteq held'[w] BY <2>1, <2>3, GoneOn
  <2> QED BY <1>5, <2>2, <2>3 DEF FindDepartment, Share
<1>6. CASE InsertName(w)
  <2>1. pc[w] \in FarOn BY <1>6 DEF InsertName, FarOn
  <2>2. CASE \E code : Refuse(w, code) /\ code # "OK" BY <2>1, <2>2, RefusedBefore
  <2>3. CASE \E step : GoOn(w, step) /\ held[w] \subseteq held'[w] BY <2>1, <2>3, GoneOn
  <2> QED BY <1>6, <2>2, <2>3 DEF InsertName, Lock, TypeOK
<1>7. CASE \/ LockEmployees(w) \/ ShareDepartment(w) \/ LockDepartment(w)
           \/ LockType(w) \/ FindVisitors(w) \/ LookAtEmployee(w)
  <2>1. ~IsImport(w)
    BY <1>7 DEF LockEmployees, ShareDepartment, LockDepartment, LockType, FindVisitors,
         LookAtEmployee, WorkerInv, AtStep, AboutEmployees, IsImport
  <2>2. CASE \E code : Refuse(w, code) BY <2>1, <2>2, RefusedBefore
  <2>3. CASE \E step : GoOn(w, step) BY <2>1, <2>3, GoneOn
  <2> QED BY <1>7, <2>2, <2>3 DEF LockEmployees, ShareDepartment, LockDepartment,
         LockType, FindVisitors, LookAtEmployee
<1> QED BY <1>1, <1>2, <1>3, <1>4, <1>5, <1>6, <1>7 DEF Lookup

(* Every step of a worker lets its import go on, or answers for it.        *)
LEMMA ImportGoesOn ==
  ASSUME TypeOK, NEW w \in Workers, WorkerInv(w), ImportAsSent(w), Work(w)
  PROVE  Proceeds(w) \/ \E answer : Answers(w, answer)
<1>1. CASE Lookup(w) \/ LookAtEmployee(w) BY <1>1, ImportLookups
<1>2. CASE RefusePhoto(w) \/ PutPhoto(w) \/ DeletePhoto(w)
  <2>1. ~IsImport(w)
    BY <1>2 DEF RefusePhoto, PutPhoto, DeletePhoto, WorkerInv, AtStep, IsImport
  <2>2. CASE RefusePhoto(w) BY <2>1, <2>2, RefusedBefore DEF RefusePhoto
  <2>3. CASE \E answer : Finish(w, answer) BY <2>1, <2>3 DEF Answers
  <2>4. CASE PutPhoto(w) /\ UNCHANGED <<op, browser>>
    BY <2>1, <2>4 DEF PutPhoto, Proceeds, browser, tables
  <2> QED BY <1>2, <2>2, <2>3, <2>4 DEF PutPhoto, DeletePhoto
<1>3. CASE RollBack(w)
  <2>1. "ERROR" \notin RejectedImports BY DEF RejectedImports
  <2>2. CASE Finish(w, "ERROR") BY <2>1, <2>2 DEF Answers
  <2>3. CASE op[w].kind = "VISITORS" /\ UNCHANGED <<op, browser>>
    BY <1>3, <2>3 DEF RollBack, Proceeds, IsImport, browser, tables
  <2> QED BY <1>3, <2>2, <2>3 DEF RollBack
<1>4. CASE Write(w)
  <2>1. PICK answer \in {"OK", "ERROR"} : Finish(w, answer)
    BY <1>4, CommitsFinish, Commits
  <2>2. answer \notin RejectedImports BY DEF RejectedImports
  <2>3. IsImport(w) => imports'[Batch(w)] # None
    <3> SUFFICES ASSUME IsImport(w) PROVE imports'[Batch(w)] # None
      OBVIOUS
    <3>1. Import(w)
      BY <1>4 DEF Write, Register, Grant, Update, SetActive, Archive, CreateDepartment,
           RenameDepartment, SetDepartmentActive, SetTypeActive, CreateVisitors,
           Ready, IsImport
    <3>2. op[w] \in ImportRequests BY RequestParts DEF IsImport
    <3>3. op[w].admin \in Admins /\ op[w].request \in Requests /\ op[w].file # None
      BY <3>2, ImportParts, FileParts
    <3> QED BY <3>1, <3>3 DEF Import, Batch, TypeOK
  <2> QED BY <2>1, <2>2, <2>3 DEF Answers
<1> QED BY <1>1, <1>2, <1>3, <1>4 DEF Work, Upload

LEMMA ImportStep ==
  ASSUME TypeOK, NEW w \in Workers, WorkerInv(w), IsImport(w)
  PROVE  /\ pc[w] \in FarOn \cup {"actor", "batch"}
         /\ op[w].admin \in Admins /\ op[w].request \in Requests /\ op[w].file \in Files
         /\ op[w].file # None /\ Batch(w) \in Admins \X Requests
<1>1. op[w] \in ImportRequests BY RequestParts DEF IsImport
<1>2. op[w].admin \in Admins /\ op[w].request \in Requests /\ op[w].file \in Files
  BY <1>1, ImportParts
<1>3. pc[w] \in FarOn \cup {"actor", "batch"}
  BY DEF WorkerInv, AtStep, IsImport, TypeOK, Steps, FarOn, AboutEmployees
<1> QED BY <1>2, <1>3, FileParts DEF Batch

(* Only an import that commits adds a batch, with its own employees.       *)
LEMMA ImportCommits ==
  ASSUME TypeOK, NEW w \in Workers, WorkerInv(w), ImportAsSent(w), Import(w)
  PROVE  /\ IsImport(w) /\ imports[Batch(w)] = None
         /\ imports' = [imports EXCEPT ![Batch(w)] = op[w].file]
         /\ ImportKey(op[w].admin, op[w].request) \in held[w]
         /\ \A a \in Admins, r \in Requests :
              Enrolled(a, r)' = Enrolled(a, r) \cup
                IF <<a, r>> = Batch(w)
                THEN {op[w].file.codes[i] : i \in DOMAIN op[w].file.codes} ELSE {}
<1> DEFINE codes == {op[w].file.codes[i] : i \in DOMAIN op[w].file.codes}
<1>1. pc[w] = "commit" /\ IsImport(w)
  BY DEF Import, Ready, WorkerInv, AtStep, IsImport
<1>2. /\ imports[Batch(w)] = None
      /\ ImportKey(op[w].admin, op[w].request) \in held[w]
  BY <1>1 DEF ImportAsSent, IsImport
<1>3. imports' = [imports EXCEPT ![Batch(w)] = op[w].file] BY DEF Import, Batch
<1>4. NewCodes(w) = codes BY <1>1 DEF NewCodes, IsImport
<1>5. codes \subseteq Codes
  <2>1. op[w].file.codes \in Seq(Codes) BY <1>1, ImportStep, FileParts
  <2> QED BY <2>1
<1>6. \A c \in codes : employee[c] = None
  BY <1>1, <1>4, CodesHeld DEF WorkerInv, IsImport
<1>7. PICK d \in Departments \cup {None} : Enrol(codes, d, op[w].file.types, Batch(w))
  BY DEF Import, Batch
<1> DEFINE new == NewEmployee(d, op[w].file.types, Batch(w))
<1> HIDE DEF codes
<1>8. \A c \in Codes : employee'[c] = IF c \in codes THEN new ELSE employee[c]
  BY <1>7 DEF Enrol
<1>9. new.batch = Batch(w) /\ new # None
  <2>1. op[w].file.types \in SUBSET Types BY <1>1, ImportStep, FileParts
  <2>2. new \in EmployeeRows
    BY <1>1, <2>1, ImportStep DEF NewEmployee, EmployeeRows
  <2> QED BY <2>2, NonePlaces DEF NewEmployee
<1> HIDE DEF new
<1>10. ASSUME NEW a \in Admins, NEW r \in Requests
       PROVE  Enrolled(a, r)' = Enrolled(a, r) \cup
                IF <<a, r>> = Batch(w) THEN codes ELSE {}
  <2>1. ASSUME NEW c \in Codes
        PROVE  employee'[c] # None /\ employee'[c].batch = <<a, r>> <=>
                 \/ employee[c] # None /\ employee[c].batch = <<a, r>>
                 \/ <<a, r>> = Batch(w) /\ c \in codes
    BY <1>6, <1>8, <1>9
  <2> QED BY <1>5, <2>1 DEF Enrolled
<1> QED BY <1>1, <1>2, <1>3, <1>10 DEF codes

LEMMA BatchesStay ==
  ASSUME TypeOK, NEW w \in Workers, WorkerInv(w), Start(w) \/ Work(w), ~Import(w)
  PROVE  /\ UNCHANGED imports
         /\ \A a \in Admins, r \in Requests : Enrolled(a, r)' = Enrolled(a, r)
<1>1. UNCHANGED imports
  <2>1. CASE Start(w) \/ Lookup(w) \/ LookAtEmployee(w) \/ RefusePhoto(w) \/ RollBack(w)
    BY <2>1, LookupsWriteNothing DEF tables
  <2>2. CASE PutPhoto(w) \/ DeletePhoto(w)
    BY <2>2 DEF PutPhoto, DeletePhoto, tables
  <2>3. CASE Write(w)
    BY <2>3 DEF Write, Register, Grant, Update, SetActive, Archive,
         CreateDepartment, RenameDepartment, SetDepartmentActive, SetTypeActive,
         CreateVisitors, WriteDepartment
  <2> QED BY <2>1, <2>2, <2>3 DEF Work, Upload
<1>2. ASSUME NEW c \in Codes, NEW b \in Admins \X Requests
      PROVE  employee'[c] # None /\ employee'[c].batch = b <=>
             employee[c] # None /\ employee[c].batch = b
  <2>1. b # None BY NonePlaces
  <2>2. CASE UNCHANGED employee BY <2>2
  <2>3. CASE Register(w)
    <3>1. op[w].kind = "REGISTER" BY <2>3 DEF Register, Ready
    <3>2. c \in op[w].who => employee[c] = None
      BY <2>3, <3>1, CodesHeld DEF Register, Ready, WorkerInv, NewCodes
    <3>3. employee'[c] = IF c \in op[w].who
            THEN NewEmployee(op[w].department, plan[w].types, None) ELSE employee[c]
      BY <2>3 DEF Register, Enrol
    <3>4. NewEmployee(op[w].department, plan[w].types, None).batch = None
      BY DEF NewEmployee
    <3> QED BY <2>1, <3>2, <3>3, <3>4
  <2>4. CASE Grant(w) \/ Update(w) \/ SetActive(w) \/ Archive(w)
    <3>1. c \notin op[w].who => employee'[c] = employee[c] BY <2>4, WritesToEmployees
    <3>2. c \in op[w].who => /\ employee[c] \in EmployeeRows /\ employee'[c] \in EmployeeRows
                             /\ employee'[c].batch = employee[c].batch
      BY <2>4, KeptRow
    <3> QED BY <3>1, <3>2, NonePlaces
  <2> QED BY <2>2, <2>3, <2>4, WritersOfEmployees
<1>3. ASSUME NEW a \in Admins, NEW r \in Requests
      PROVE  Enrolled(a, r)' = Enrolled(a, r)
  BY <1>2 DEF Enrolled
<1> QED BY <1>1, <1>3

(* The page that waits for a worker waits for its import.                  *)
LEMMA WaitingPages ==
  ASSUME TypeOK, NEW w \in Workers, NEW a \in Admins, PageWaits(a), page[a].worker = w
  PROVE  /\ IsImport(w) /\ op[w].admin = a /\ op[w].request = page[a].request
         /\ Batch(w) = <<a, page[a].request>> /\ page[a].submitted
         /\ page[a].request \in Requests
<1>1. w # None BY NonePlaces
<1>2. /\ op[w] # None /\ op[w].kind = "IMPORT" /\ op[w].admin = a
      /\ op[w].request = page[a].request
  BY <1>1 DEF PageWaits
<1>3. page[a].submitted
  <2>1. ~page[a].submitted => page[a] = NoImport BY DEF PageWaits
  <2>2. NoImport.worker = None BY DEF NoImport
  <2> QED BY <1>1, <2>1, <2>2
<1>4. page[a].request # None BY <1>3 DEF PageWaits
<1>5. page[a].request \in Requests BY <1>4 DEF TypeOK, Pages
<1> QED BY <1>2, <1>3, <1>5 DEF IsImport, Batch

(* What an answer makes of a page.                                         *)
PageAfter(w, answer, a) ==
  \/ page[a].worker # w /\ page'[a] = page[a]
  \/ /\ page[a].worker = w /\ page'[a] = NoImport
     /\ answer = "OK" \/ (page[a].first /\ answer \in RejectedImports)
  \/ /\ page[a].worker = w /\ answer # "OK" /\ page'[a].worker = None
     /\ page'[a].first = FALSE /\ page'[a].request = page[a].request
     /\ page'[a].file = page[a].file /\ page'[a].submitted = page[a].submitted

LEMMA PageAnswered ==
  ASSUME TypeOK, NEW w \in Workers, NEW answer, Finish(w, answer), NEW a \in Admins
  PROVE  PageAfter(w, answer, a)
<1>1. page'[a] = IF a \in Waiting(w) THEN Answered(page[a], answer) ELSE page[a]
  BY DEF Finish, Deliver
<1>2. a \in Waiting(w) <=> page[a].worker = w BY DEF Waiting
<1>3. page[a] \in Pages BY DEF TypeOK
<1> QED BY <1>1, <1>2, <1>3 DEF PageAfter, Answered, Rejects, Pages

(* The results that reach a page are those of imports it waits for.        *)
LEMMA ResultsKnown ==
  ASSUME TypeOK, NEW w \in Workers, NEW answer, Finish(w, answer),
         \A a \in Admins : PageWaits(a)
  PROVE  /\ \A b \in known' : b \in known \/ (answer = "OK" /\ IsImport(w) /\ b = Batch(w))
         /\ \A a \in Admins : answer = "OK" /\ page[a].worker = w => Batch(w) \in known'
         /\ \A a \in Admins : page[a].worker # w /\ page[a].submitted =>
              (<<a, page[a].request>> \in known' <=> <<a, page[a].request>> \in known)
<1>1. known' = known \cup {<<a, page[a].request>> :
                            a \in {x \in Waiting(w) : answer = "OK"}}
  BY DEF Finish, Deliver
<1>2. \A a \in Admins : a \in Waiting(w) <=> page[a].worker = w BY DEF Waiting
<1>3. \A a \in Admins : page[a].worker = w => IsImport(w) /\ Batch(w) = <<a, page[a].request>>
  BY WaitingPages
<1>4. Waiting(w) \subseteq Admins BY DEF Waiting
<1> QED BY <1>1, <1>2, <1>3, <1>4

LEMMA OthersSent ==
  ASSUME TypeOK, LocksExclude, NEW w \in Workers, Work(w), LeavesOthers(w),
         WorkerInv(w), ImportAsSent(w), \A a \in Admins : PageWaits(a),
         NEW v \in Workers \ {w}, WorkerInv(v), ImportAsSent(v)
  PROVE  ImportAsSent(v)'
<1>1. op'[v] = op[v] /\ pc'[v] = pc[v] /\ held'[v] = held[v] BY DEF LeavesOthers
<1> SUFFICES ASSUME IsImport(v) PROVE ImportAsSent(v)'
  BY <1>1 DEF ImportAsSent, IsImport
<1> DEFINE a == op[v].admin
           r == op[v].request
<1>2. /\ a \in Admins /\ Batch(v) \in Admins \X Requests /\ Batch(v) = <<a, r>>
      /\ op[v].file # None /\ pc[v] \in FarOn \cup {"actor", "batch"}
  BY ImportStep DEF Batch
<1>3. /\ pc[v] \in FarOn => ImportKey(a, r) \in held[v]
      /\ imports[Batch(v)] # None =>
           imports[Batch(v)] = op[v].file /\ pc[v] \in {"actor", "batch"}
      /\ imports[Batch(v)] = None =>
           page[a].submitted /\ page[a].request = r /\ page[a].file = op[v].file
      /\ page[a].request = r /\ page[a].first => page[a].worker = v
  BY DEF ImportAsSent, IsImport, FarOn
<1>4. imports'[Batch(v)] = imports[Batch(v)]
      \/ (imports'[Batch(v)] = op[v].file /\ pc[v] \in {"actor", "batch"})
  <2>1. CASE ~Import(w) BY <2>1, BatchesStay
  <2>2. CASE Import(w)
    <3>1. /\ IsImport(w) /\ imports[Batch(w)] = None
          /\ imports' = [imports EXCEPT ![Batch(w)] = op[w].file]
          /\ ImportKey(op[w].admin, op[w].request) \in held[w]
      BY <2>2, ImportCommits
    <3>2. CASE Batch(w) # Batch(v) BY <1>2, <3>1, <3>2 DEF TypeOK
    <3>3. CASE Batch(w) = Batch(v)
      <4>1. op[w].admin = a /\ op[w].request = r BY <1>2, <3>3 DEF Batch
      <4>2. op[w].file = op[v].file
        BY <1>3, <3>1, <3>3, <4>1 DEF ImportAsSent, IsImport
      <4>3. imports'[Batch(v)] = op[v].file BY <1>2, <3>1, <3>3, <4>2 DEF TypeOK
      <4>4. pc[v] \notin FarOn BY <1>3, <3>1, <4>1 DEF LocksExclude
      <4> QED BY <1>2, <4>3, <4>4
    <3> QED BY <3>2, <3>3
  <2> QED BY <2>1, <2>2
<1>5. Proceeds(w) \/ \E answer : Answers(w, answer) BY ImportGoesOn
<1>6. imports'[Batch(v)] = None =>
        page'[a].submitted /\ page'[a].request = r /\ page'[a].file = op[v].file
  <2> SUFFICES ASSUME imports'[Batch(v)] = None
               PROVE  page'[a].submitted /\ page'[a].request = r /\ page'[a].file = op[v].file
    OBVIOUS
  <2>1. imports[Batch(v)] = None BY <1>2, <1>4
  <2>2. CASE Proceeds(w) BY <1>3, <2>1, <2>2 DEF Proceeds
  <2>3. CASE \E answer : Answers(w, answer)
    <3>1. PICK answer : Answers(w, answer) BY <2>3
    <3>2. PageAfter(w, answer, a) BY <1>2, <3>1, PageAnswered DEF Answers
    <3>3. page[a].submitted /\ page[a].request = r /\ page[a].file = op[v].file
      BY <1>3, <2>1
    <3>4. CASE page[a].worker = w
      <4>1. IsImport(w) /\ Batch(w) = Batch(v)
        BY <1>2, <1>3, <2>1, <3>4, WaitingPages
      <4>2. answer # "OK" BY <3>1, <4>1 DEF Answers
      <4>3. ~page[a].first BY <1>3, <2>1, <3>4
      <4> QED BY <3>2, <3>3, <3>4, <4>2, <4>3 DEF PageAfter
    <3>5. CASE page[a].worker # w
      <4>1. page'[a] = page[a] BY <3>2, <3>5 DEF PageAfter
      <4> QED BY <3>3, <4>1
    <3> QED BY <3>4, <3>5
  <2> QED BY <1>5, <2>2, <2>3
<1>7. page'[a].request = r /\ page'[a].first => page'[a].worker = v
  <2>1. CASE Proceeds(w) BY <1>3, <2>1 DEF Proceeds
  <2>2. CASE \E answer : Answers(w, answer)
    <3>1. NoImport.first = FALSE BY DEF NoImport
    <3> QED BY <1>2, <1>3, <2>2, <3>1, PageAnswered DEF Answers, PageAfter
  <2> QED BY <1>5, <2>1, <2>2
<1>8. Batch(v)' = Batch(v) BY <1>1 DEF Batch
<1>9. pc[v] \in {"departments", "name", "code", "types", "commit"} <=> pc[v] \in FarOn
  BY DEF FarOn
<1> QED BY <1>1, <1>3, <1>4, <1>6, <1>7, <1>8, <1>9 DEF ImportAsSent

LEMMA OwnSent ==
  ASSUME TypeOK, NEW w \in Workers, Work(w), WorkerInv(w), ImportAsSent(w)
  PROVE  ImportAsSent(w)'
<1>1. CASE Proceeds(w)
  <2>1. Batch(w)' = Batch(w) /\ op'[w] = op[w] BY <1>1 DEF Proceeds, Batch
  <2> QED BY <1>1, <2>1 DEF Proceeds, ImportAsSent, IsImport, FarOn
<1>2. CASE \E answer : Answers(w, answer)
  BY <1>2, Ends DEF Answers, ImportAsSent, TypeOK
<1> QED BY <1>1, <1>2, ImportGoesOn

LEMMA PagesWaitOn ==
  ASSUME TypeOK, NEW w \in Workers, Work(w), LeavesOthers(w), WorkerInv(w),
         ImportAsSent(w), \A x \in Admins : PageWaits(x), NEW a \in Admins
  PROVE  PageWaits(a)'
<1>1. CASE Proceeds(w) BY <1>1 DEF Proceeds, PageWaits
<1>2. CASE \E answer : Answers(w, answer)
  <2>1. PICK answer : Answers(w, answer) BY <1>2
  <2>2. Finish(w, answer) BY <2>1 DEF Answers
  <2>3. page[a] \in Pages /\ NoImport.worker = None /\ NoImport.submitted = FALSE
    BY DEF TypeOK, NoImport
  <2>4. CASE page[a].worker # w
    <3>1. page'[a] = page[a] BY <2>2, <2>4, PageAnswered DEF PageAfter
    <3>2. page[a].worker # None => op'[page[a].worker] = op[page[a].worker]
      BY <2>3, <2>4 DEF LeavesOthers, Pages
    <3>3. page[a].submitted =>
            (<<a, page[a].request>> \in known' <=> <<a, page[a].request>> \in known)
      <4>1. \A x \in Admins : page[x].worker # w /\ page[x].submitted =>
              (<<x, page[x].request>> \in known' <=> <<x, page[x].request>> \in known)
        BY <2>2, ResultsKnown
      <4> QED BY <2>4, <4>1
    <3> QED BY <3>1, <3>2, <3>3 DEF PageWaits
  <2>5. CASE page[a].worker = w
    <3>1. /\ page[a].submitted /\ page[a].request # None /\ page[a].file # None
          /\ <<a, page[a].request>> \notin known
      BY <2>5, WaitingPages DEF PageWaits
    <3>2. \/ page'[a] = NoImport
          \/ /\ answer # "OK" /\ page'[a].worker = None
             /\ page'[a].request = page[a].request
             /\ page'[a].file = page[a].file /\ page'[a].submitted = page[a].submitted
      <4>1. PageAfter(w, answer, a) BY <2>2, PageAnswered
      <4> QED BY <2>5, <4>1 DEF PageAfter
    <3>3. answer # "OK" => \A b \in known' : b \in known BY <2>2, ResultsKnown
    <3> QED BY <2>3, <3>1, <3>2, <3>3 DEF PageWaits
  <2> QED BY <2>4, <2>5
<1> QED BY <1>1, <1>2, ImportGoesOn

(* What is committed stays so, and is what an import commits.              *)
LEMMA ImportsStay ==
  ASSUME TypeOK, NEW w \in Workers, WorkerInv(w), Work(w), ImportAsSent(w),
         NEW b \in Admins \X Requests
  PROVE  \/ imports'[b] = imports[b]
         \/ /\ IsImport(w) /\ b = Batch(w) /\ imports[b] = None
            /\ imports'[b] = op[w].file /\ op[w].file # None
<1>1. CASE ~Import(w) BY <1>1, BatchesStay
<1>2. CASE Import(w)
  <2>1. /\ IsImport(w) /\ imports[Batch(w)] = None
        /\ imports' = [imports EXCEPT ![Batch(w)] = op[w].file]
    BY <1>2, ImportCommits
  <2>2. op[w].file # None BY <2>1, ImportStep
  <2> QED BY <2>1, <2>2 DEF TypeOK
<1> QED BY <1>1, <1>2

LEMMA BatchesKept ==
  ASSUME TypeOK, NEW w \in Workers, WorkerInv(w), Work(w), ImportAsSent(w),
         \A a \in Admins : PageWaits(a), BatchKept
  PROVE  BatchKept'
<1>1. ASSUME NEW b \in known' PROVE imports'[b] # None
  <2>1. ASSUME b \in known PROVE imports'[b] # None
    <3>1. b \in Admins \X Requests BY <2>1 DEF TypeOK
    <3>2. imports[b] # None BY <2>1 DEF BatchKept
    <3> QED BY <3>1, <3>2, ImportsStay
  <2>2. CASE Proceeds(w) BY <2>1, <2>2 DEF Proceeds
  <2>3. CASE \E answer : Answers(w, answer)
    <3>1. PICK answer : Answers(w, answer) BY <2>3
    <3>2. b \in known \/ (answer = "OK" /\ IsImport(w) /\ b = Batch(w))
      BY <3>1, ResultsKnown DEF Answers
    <3> QED BY <2>1, <3>1, <3>2 DEF Answers
  <2> QED BY <2>2, <2>3, ImportGoesOn
<1>2. ASSUME NEW a \in Admins, NEW r \in Requests
      PROVE  LET f == imports'[<<a, r>>] IN
             Enrolled(a, r)' = IF f = None THEN {} ELSE {f.codes[i] : i \in DOMAIN f.codes}
  <2>1. Enrolled(a, r) = IF imports[<<a, r>>] = None THEN {}
          ELSE {imports[<<a, r>>].codes[i] : i \in DOMAIN imports[<<a, r>>].codes}
    BY DEF BatchKept
  <2>2. CASE ~Import(w)
    <3>1. imports' = imports /\ Enrolled(a, r)' = Enrolled(a, r)
      BY <2>2, BatchesStay
    <3> QED BY <2>1, <3>1
  <2>3. CASE Import(w)
    <3>1. /\ IsImport(w) /\ imports[Batch(w)] = None
          /\ imports' = [imports EXCEPT ![Batch(w)] = op[w].file]
      BY <2>3, ImportCommits
    <3>2. \A x \in Admins, y \in Requests :
            Enrolled(x, y)' = Enrolled(x, y) \cup
              IF <<x, y>> = Batch(w)
              THEN {op[w].file.codes[i] : i \in DOMAIN op[w].file.codes} ELSE {}
      BY <2>3, ImportCommits
    <3>3. op[w].file # None BY <3>1, ImportStep
    <3>4. CASE <<a, r>> = Batch(w)
      <4>1. imports'[<<a, r>>] = op[w].file BY <3>1, <3>4 DEF TypeOK
      <4>2. Enrolled(a, r) = {} BY <2>1, <3>1, <3>4
      <4> QED BY <3>2, <3>3, <3>4, <4>1, <4>2
    <3>5. CASE <<a, r>> # Batch(w)
      <4>1. imports'[<<a, r>>] = imports[<<a, r>>] BY <3>1, <3>5 DEF TypeOK
      <4> QED BY <2>1, <3>2, <3>5, <4>1
    <3> QED BY <3>4, <3>5
  <2> QED BY <2>2, <2>3
<1> QED BY <1>1, <1>2 DEF BatchKept

LEMMA KeptByPage ==
  ASSUME TypeOK, NEW w \in Workers, WorkerInv(w), Work(w), ImportAsSent(w),
         \A a \in Admins : PageWaits(a), ImportKept
  PROVE  ImportKept'
<1> SUFFICES ASSUME NEW a \in Admins, NEW r \in Requests,
                    imports'[<<a, r>>] # None, <<a, r>> \notin known'
             PROVE  /\ page'[a].submitted /\ page'[a].request = r
                    /\ page'[a].file = imports'[<<a, r>>]
  BY DEF ImportKept
<1>1. <<a, r>> \notin known
  <2>1. CASE Proceeds(w) BY <2>1 DEF Proceeds
  <2>2. CASE \E answer : Answers(w, answer)
    BY <2>2 DEF Answers, Finish, Deliver
  <2> QED BY <2>1, <2>2, ImportGoesOn
<1>2. /\ page[a].submitted /\ page[a].request = r
      /\ page[a].file = imports'[<<a, r>>]
  <2>1. CASE imports'[<<a, r>>] = imports[<<a, r>>] BY <1>1, <2>1 DEF ImportKept
  <2>2. CASE /\ IsImport(w) /\ <<a, r>> = Batch(w) /\ imports[<<a, r>>] = None
             /\ imports'[<<a, r>>] = op[w].file
    BY <2>2 DEF ImportAsSent, IsImport, Batch
  <2> QED BY <2>1, <2>2, ImportsStay
<1>3. CASE Proceeds(w) BY <1>2, <1>3 DEF Proceeds
<1>4. CASE \E answer : Answers(w, answer)
  <2>1. PICK answer : Answers(w, answer) BY <1>4
  <2>2. Finish(w, answer) BY <2>1 DEF Answers
  <2>3. CASE page[a].worker # w
    <3>1. page'[a] = page[a] BY <2>2, <2>3, PageAnswered DEF PageAfter
    <3> QED BY <1>2, <3>1
  <2>4. CASE page[a].worker = w
    <3>1. IsImport(w) /\ Batch(w) = <<a, r>> BY <1>2, <2>4, WaitingPages
    <3>2. answer # "OK"
      <4>1. \A x \in Admins : answer = "OK" /\ page[x].worker = w => Batch(w) \in known'
        BY <2>2, ResultsKnown
      <4> QED BY <2>4, <3>1, <4>1
    <3>3. answer \notin RejectedImports BY <2>1, <3>1 DEF Answers
    <3>4. /\ page'[a].request = page[a].request
          /\ page'[a].file = page[a].file /\ page'[a].submitted = page[a].submitted
      BY <2>2, <2>4, <3>2, <3>3, PageAnswered DEF PageAfter
    <3> QED BY <1>2, <3>4
  <2> QED BY <2>3, <2>4
<1> QED BY <1>3, <1>4, ImportGoesOn

(* A request that is not an import leaves imports and pages alone.         *)
LEMMA AfterBegin ==
  ASSUME TypeOK, NEW w \in Workers, WorkerInv(w), LeavesOthers(w), ImportsInv, Begin(w)
  PROVE  ImportsInv'
<1>1. /\ op[w] = None /\ UNCHANGED <<page, known, imports, employee>>
      /\ op'[w] \in Operations
  BY DEF Begin, WorkerInv, AtStep, browser, tables, TypeOK
<1>2. op'[w].kind # "IMPORT" BY <1>1, OperationParts
<1>3. ASSUME NEW v \in Workers PROVE ImportAsSent(v)'
  <2>1. CASE v = w BY <1>2, <2>1 DEF ImportAsSent
  <2>2. CASE v # w
    <3>1. op'[v] = op[v] /\ pc'[v] = pc[v] /\ held'[v] = held[v]
      BY <2>2 DEF LeavesOthers
    <3> QED BY <1>1, <3>1 DEF ImportsInv, ImportAsSent, Batch
  <2> QED BY <2>1, <2>2
<1>4. ASSUME NEW a \in Admins PROVE PageWaits(a)'
  <2>1. PageWaits(a) BY DEF ImportsInv
  <2>2. page[a].worker # w BY <1>1, <2>1, WaitingPages DEF IsImport
  <2>3. page[a].worker # None => op'[page[a].worker] = op[page[a].worker]
    BY <2>2 DEF LeavesOthers, TypeOK, Pages
  <2> QED BY <1>1, <2>1, <2>3 DEF PageWaits
<1>5. BatchKept' BY <1>1 DEF ImportsInv, BatchKept, Enrolled
<1>6. ImportKept' BY <1>1 DEF ImportsInv, ImportKept
<1> QED BY <1>3, <1>4, <1>5, <1>6 DEF ImportsInv

(* What is sent is the import the page keeps, or a new one.                *)
LEMMA WhatIsSent ==
  ASSUME TypeOK, NEW w \in Workers, NEW a \in Admins, ImportsInv, Submit(w, a)
  PROVE  \E f \in Files, r \in Requests :
           /\ op'[w] = [kind |-> "IMPORT", admin |-> a, request |-> r, file |-> f]
           /\ page' = [page EXCEPT ![a] =
                [request |-> r, file |-> f, submitted |-> TRUE,
                 first |-> ~page[a].submitted, worker |-> w]]
           /\ f # None /\ r # None /\ <<a, r>> \notin known
           /\ IF page[a].submitted
              THEN f = page[a].file /\ r = page[a].request
              ELSE /\ imports[<<a, r>>] = None
                   /\ \A v \in Workers : op[v] # None => op[v].request # r
<1>1. PICK f \in Files, r \in Requests :
        /\ IF page[a].submitted THEN f = page[a].file /\ r = page[a].request
           ELSE Unused(r)
        /\ page' = [page EXCEPT ![a] = Marked(page[a], r, f, w)]
        /\ op' = [op EXCEPT ![w] =
             [kind |-> "IMPORT", admin |-> a, request |-> r, file |-> f]]
  BY DEF Submit
<1>2. f # None /\ r # None BY NonePlaces, FileParts
<1>3. ~page[a].submitted => /\ imports[<<a, r>>] = None
                            /\ \A v \in Workers : op[v] # None => op[v].request # r
  BY <1>1 DEF Unused
<1>4. <<a, r>> \notin known
  <2>1. CASE page[a].submitted BY <1>1, <2>1 DEF ImportsInv, PageWaits
  <2>2. CASE ~page[a].submitted BY <1>3, <2>2 DEF ImportsInv, BatchKept
  <2> QED BY <2>1, <2>2
<1>5. op'[w] = [kind |-> "IMPORT", admin |-> a, request |-> r, file |-> f]
  BY <1>1 DEF TypeOK
<1> QED BY <1>1, <1>2, <1>3, <1>4, <1>5 DEF Marked

LEMMA AfterSubmit ==
  ASSUME TypeOK, NEW w \in Workers, WorkerInv(w), LeavesOthers(w), ImportsInv,
         NEW a \in Admins, Submit(w, a)
  PROVE  ImportsInv'
<1>1. /\ op[w] = None /\ pc'[w] = "actor" /\ page[a].worker = None
      /\ UNCHANGED <<known, imports, employee>>
  BY DEF Submit, WorkerInv, AtStep, tables, TypeOK
<1>2. PICK f \in Files, r \in Requests :
        /\ op'[w] = [kind |-> "IMPORT", admin |-> a, request |-> r, file |-> f]
        /\ page' = [page EXCEPT ![a] =
             [request |-> r, file |-> f, submitted |-> TRUE,
              first |-> ~page[a].submitted, worker |-> w]]
        /\ f # None /\ r # None /\ <<a, r>> \notin known
        /\ IF page[a].submitted
           THEN f = page[a].file /\ r = page[a].request
           ELSE /\ imports[<<a, r>>] = None
                /\ \A v \in Workers : op[v] # None => op[v].request # r
  BY WhatIsSent
<1>3. /\ page'[a].request = r /\ page'[a].file = f /\ page'[a].submitted
      /\ page'[a].first = ~page[a].submitted /\ page'[a].worker = w
      /\ \A x \in Admins \ {a} : page'[x] = page[x]
  BY <1>2 DEF TypeOK
<1>4. ImportAsSent(w)'
  <2>1. imports[<<a, r>>] # None => imports[<<a, r>>] = f
    BY <1>2 DEF ImportsInv, ImportKept
  <2>2. op'[w].kind = "IMPORT" /\ op'[w].admin = a /\ op'[w].request = r /\ op'[w].file = f
    BY <1>2
  <2> QED BY <1>1, <1>3, <2>1, <2>2 DEF ImportAsSent, Batch
<1>5. ASSUME NEW v \in Workers \ {w} PROVE ImportAsSent(v)'
  <2>1. op'[v] = op[v] /\ pc'[v] = pc[v] /\ held'[v] = held[v]
    BY DEF LeavesOthers
  <2> SUFFICES ASSUME IsImport(v) PROVE ImportAsSent(v)'
    BY <2>1 DEF ImportAsSent, IsImport
  <2>2. op[v].admin \in Admins
    <3>1. op[v] \in ImportRequests BY RequestParts DEF IsImport
    <3> QED BY <3>1, ImportParts
  <2>3. ImportAsSent(v) BY DEF ImportsInv
  <2>4. CASE op[v].admin # a
    <3>1. page'[op[v].admin] = page[op[v].admin] BY <1>3, <2>2, <2>4
    <3> QED BY <1>1, <2>1, <2>3, <3>1 DEF ImportAsSent, Batch
  <2>5. CASE op[v].admin = a
    <3>1. imports[<<a, op[v].request>>] = None =>
            /\ page[a].submitted /\ page[a].request = op[v].request
            /\ page[a].file = op[v].file
      BY <2>3, <2>5 DEF ImportAsSent, IsImport, Batch
    <3>2. imports[<<a, op[v].request>>] = None =>
            /\ page'[a].submitted /\ page'[a].request = op[v].request
            /\ page'[a].file = op[v].file
      BY <1>2, <1>3, <3>1
    <3>3. ~(page'[a].request = op[v].request /\ page'[a].first)
      BY <1>2, <1>3 DEF IsImport
    <3> QED BY <1>1, <2>1, <2>3, <2>5, <3>2, <3>3 DEF ImportAsSent, Batch
  <2> QED BY <2>4, <2>5
<1>6. ASSUME NEW x \in Admins PROVE PageWaits(x)'
  <2>1. PageWaits(x) BY DEF ImportsInv
  <2>2. CASE x = a
    <3>1. op'[w] \in ImportRequests BY <1>2 DEF ImportRequests
    <3>2. op'[w] # None BY <3>1, NonePlaces
    <3>3. op'[w].kind = "IMPORT" /\ op'[w].admin = a /\ op'[w].request = r
      BY <1>2
    <3> QED BY <1>1, <1>2, <1>3, <2>2, <3>2, <3>3 DEF PageWaits
  <2>3. CASE x # a
    <3>1. page'[x] = page[x] BY <1>3, <2>3
    <3>2. page[x].worker # w BY <1>1, <2>1, WaitingPages DEF IsImport
    <3>3. page[x].worker # None => op'[page[x].worker] = op[page[x].worker]
      BY <3>2 DEF LeavesOthers, TypeOK, Pages
    <3> QED BY <1>1, <2>1, <3>1, <3>3 DEF PageWaits
  <2> QED BY <2>2, <2>3
<1>7. BatchKept' BY <1>1 DEF ImportsInv, BatchKept, Enrolled
<1>8. ImportKept' BY <1>1, <1>2, <1>3 DEF ImportsInv, ImportKept
<1> QED BY <1>4, <1>5, <1>6, <1>7, <1>8 DEF ImportsInv

(* A page that is loaded again keeps its import, and waits no longer.      *)
LEMMA AfterReload ==
  ASSUME TypeOK, ImportsInv, NEW a \in Admins, Reload(a)
  PROVE  ImportsInv'
<1>1. page[a].worker # None /\ UNCHANGED <<known, imports, employee, op, pc, held>>
  BY DEF Reload, tables, worker
<1>2. page[a].submitted
  <2>1. PageWaits(a) BY DEF ImportsInv
  <2>2. ~page[a].submitted => page[a] = NoImport BY <2>1 DEF PageWaits
  <2>3. NoImport.worker = None BY DEF NoImport
  <2> QED BY <1>1, <2>2, <2>3
<1>3. page' = [page EXCEPT ![a] = [page[a] EXCEPT !.worker = None, !.first = FALSE]]
  BY <1>2 DEF Reload
<1>4. /\ page'[a].request = page[a].request /\ page'[a].file = page[a].file
      /\ page'[a].submitted = page[a].submitted
      /\ page'[a].first = FALSE /\ page'[a].worker = None
      /\ \A x \in Admins \ {a} : page'[x] = page[x]
  BY <1>3 DEF TypeOK, Pages
<1>5. ASSUME NEW v \in Workers PROVE ImportAsSent(v)'
  <2> SUFFICES ASSUME IsImport(v) PROVE ImportAsSent(v)'
    BY <1>1 DEF ImportAsSent, IsImport
  <2>1. op[v].admin \in Admins
    <3>1. op[v] \in ImportRequests BY RequestParts DEF IsImport
    <3> QED BY <3>1, ImportParts
  <2>2. ImportAsSent(v) BY DEF ImportsInv
  <2>3. CASE op[v].admin = a BY <1>1, <1>4, <2>2, <2>3 DEF ImportAsSent, Batch
  <2>4. CASE op[v].admin # a
    <3>1. page'[op[v].admin] = page[op[v].admin] BY <1>4, <2>1, <2>4
    <3> QED BY <1>1, <2>2, <3>1 DEF ImportAsSent, Batch
  <2> QED BY <2>3, <2>4
<1>6. ASSUME NEW x \in Admins PROVE PageWaits(x)'
  <2>1. PageWaits(x) BY DEF ImportsInv
  <2>2. CASE x = a BY <1>1, <1>2, <1>4, <2>1, <2>2 DEF PageWaits
  <2>3. CASE x # a
    <3>1. page'[x] = page[x] BY <1>4, <2>3
    <3> QED BY <1>1, <2>1, <3>1 DEF PageWaits
  <2> QED BY <2>2, <2>3
<1>7. BatchKept' BY <1>1 DEF ImportsInv, BatchKept, Enrolled
<1>8. ImportKept' BY <1>1, <1>4 DEF ImportsInv, ImportKept
<1> QED BY <1>5, <1>6, <1>7, <1>8 DEF ImportsInv

LEMMA ImportsInit == Init => ImportsInv
<1> SUFFICES ASSUME Init PROVE ImportsInv
  OBVIOUS
<1>1. ASSUME NEW w \in Workers PROVE ImportAsSent(w) BY DEF Init, ImportAsSent
<1>2. ASSUME NEW a \in Admins PROVE PageWaits(a) BY DEF Init, PageWaits, NoImport
<1>3. ASSUME NEW a \in Admins, NEW r \in Requests PROVE Enrolled(a, r) = {}
  <2>1. <<a, r>> # None BY NonePlaces
  <2>2. \A c \in Codes : employee[c] # None => employee[c].batch = None
    BY RegistryAssumption DEF Init
  <2> QED BY <2>1, <2>2 DEF Enrolled
<1>4. BatchKept BY <1>3 DEF Init, BatchKept
<1>5. ImportKept BY DEF Init, ImportKept
<1> QED BY <1>1, <1>2, <1>4, <1>5 DEF ImportsInv

LEMMA ImportsNext == TablesInv /\ ImportsInv /\ [Next]_vars => ImportsInv'
<1> SUFFICES ASSUME TablesInv, ImportsInv, [Next]_vars PROVE ImportsInv'
  OBVIOUS
<1>1. TypeOK /\ LocksExclude /\ \A w \in Workers : WorkerInv(w) BY DEF TablesInv
<1>2. CASE \E w \in Workers : Work(w)
  <2>1. PICK w \in Workers : Work(w) BY <1>2
  <2>2. LeavesOthers(w) BY <1>1, <2>1, OthersKept
  <2>3. /\ \A v \in Workers : ImportAsSent(v)
        /\ \A a \in Admins : PageWaits(a)
        /\ BatchKept /\ ImportKept
    BY DEF ImportsInv
  <2>4. ASSUME NEW v \in Workers PROVE ImportAsSent(v)'
    <3>1. CASE v = w BY <1>1, <2>1, <2>3, <3>1, OwnSent
    <3>2. CASE v # w BY <1>1, <2>1, <2>2, <2>3, <3>2, OthersSent
    <3> QED BY <3>1, <3>2
  <2>5. \A a \in Admins : PageWaits(a)'
    BY <1>1, <2>1, <2>2, <2>3, PagesWaitOn
  <2>6. BatchKept' BY <1>1, <2>1, <2>3, BatchesKept
  <2>7. ImportKept' BY <1>1, <2>1, <2>3, KeptByPage
  <2> QED BY <2>4, <2>5, <2>6, <2>7 DEF ImportsInv
<1>3. CASE \E w \in Workers : Start(w)
  <2>1. PICK w \in Workers : Start(w) BY <1>3
  <2>2. LeavesOthers(w) BY <1>1, <2>1, OthersKept
  <2>3. CASE Begin(w) BY <1>1, <2>2, <2>3, AfterBegin
  <2>4. CASE \E a \in Admins : Submit(w, a) BY <1>1, <2>2, <2>4, AfterSubmit
  <2> QED BY <2>1, <2>3, <2>4 DEF Start
<1>4. CASE \E a \in Admins : Reload(a) BY <1>1, <1>4, AfterReload
<1>5. CASE UNCHANGED vars \/ (\E o \in Operations : Preview(o))
  <2>1. UNCHANGED <<page, known, imports, employee, op, pc, held>>
    BY <1>5 DEF vars, Preview, tables, worker, browser
  <2>2. ASSUME NEW v \in Workers PROVE ImportAsSent(v)'
    BY <2>1 DEF ImportsInv, ImportAsSent, Batch
  <2>3. ASSUME NEW a \in Admins PROVE PageWaits(a)'
    BY <2>1 DEF ImportsInv, PageWaits
  <2>4. BatchKept' BY <2>1 DEF ImportsInv, BatchKept, Enrolled
  <2>5. ImportKept' BY <2>1 DEF ImportsInv, ImportKept
  <2> QED BY <2>2, <2>3, <2>4, <2>5 DEF ImportsInv
<1> QED BY <1>2, <1>3, <1>4, <1>5, StepsOfWorkers

(* Every import under way is the one its page keeps or is committed, its   *)
(* key is locked while it goes on, and what an import has committed are    *)
(* the employees of its file.                                              *)
THEOREM ImportsInvariant == Spec => []ImportsInv
<1>1. Init => TablesInv /\ ImportsInv BY TablesInit, ImportsInit
<1>2. TablesInv /\ ImportsInv /\ [Next]_vars => (TablesInv /\ ImportsInv)'
  BY TablesNext, ImportsNext
<1> QED BY <1>1, <1>2, PTL DEF Spec

(* A committed import whose result never reached its page can only be sent *)
(* again as it was, however answers are lost and pages loaded again.       *)
THEOREM ImportsAreKept == Spec => []ImportKept
<1>1. ImportsInv => ImportKept BY DEF ImportsInv
<1> QED BY <1>1, ImportsInvariant, PTL

LEMMA AnsweredOnceCommitted == TablesInv /\ ImportsInv => CommittedImportIsAnswered
<1> SUFFICES ASSUME TablesInv, ImportsInv, NEW w \in Workers,
                    IsImport(w), imports[Batch(w)] # None
             PROVE  pc[w] \in {"actor", "batch"} /\ Replay(op[w], imports[Batch(w)]) = "OK"
  BY DEF CommittedImportIsAnswered, IsImport, Batch
<1>1. TypeOK /\ WorkerInv(w) BY DEF TablesInv
<1>2. imports[Batch(w)] = op[w].file /\ pc[w] \in {"actor", "batch"}
  BY DEF ImportsInv, ImportAsSent, IsImport
<1> DEFINE f == op[w].file
           codes == {f.codes[i] : i \in DOMAIN f.codes}
<1>3. op[w].admin \in Admins /\ op[w].request \in Requests /\ f \in Files
  BY <1>1, ImportStep
<1>4. Enrolled(op[w].admin, op[w].request) = codes
  BY <1>2, <1>3 DEF ImportsInv, BatchKept, Batch
<1>5. Cardinality(codes) = Len(f.codes) BY <1>3, CodesCounted
<1> QED BY <1>2, <1>4, <1>5 DEF Replay

(* An import that is sent again once it is committed is answered with what *)
(* it did: no department closed and no employee removed since refuses it.  *)
THEOREM CommittedImportsAreAnswered == Spec => []CommittedImportIsAnswered
BY AnsweredOnceCommitted, TablesInvariant, ImportsInvariant, PTL
=============================================================================
