------------------------- MODULE ServingLedgerProofs -------------------------
(***************************************************************************)
(* More about Serving for every value of its constants: an answer of       *)
(* APPROVED is honest, allowances count their servings, authorizations are *)
(* used in their scope, what was checked under a lock still holds when the *)
(* serving becomes visible, and the scan core implements MealLedger.       *)
(***************************************************************************)
EXTENDS ServingProofs, FiniteSetTheorems

-----------------------------------------------------------------------------
(* What others leave alone while a transaction holds its rows              *)

RequestHeld(r) ==
  /\ request'[r].status = request[r].status
  /\ request'[r].payload = request[r].payload
  /\ request'[r].prepared.state # "NONE" => request[r].prepared.state # "NONE"

TablesHeld(d) ==
  LET r == scan[d].request
  IN /\ RequestHeld(r)
     /\ AuthorizationRow(r) \in locks[d] =>
          request'[r].prepared.state = request[r].prepared.state
     /\ \A v \in servings' : v.request = r => v \in servings
     /\ \A q \in Credentials : CredentialRow(q) \in locks[d] => used'[q] = used[q]

PeopleHeld(d) ==
  /\ \A x \in Devices : DeviceRow(x) \in locks[d] /\ x \in online => x \in online'
  /\ \A m \in MealTypes :
       MealTypeRow(m) \in locks[d] /\ m \in offered => m \in offered'
  /\ \A e \in Employees : EmployeeRow(e) \in locks[d] =>
       (e \in active => e \in active') /\ eligible'[e] = eligible[e]
  /\ \A q \in Credentials :
       CredentialRow(q) \in locks[d] /\ q \in revoked' => q \in revoked
  /\ scan[d].staff \in actors => scan[d].staff \in actors'

(* An administrator's step waits for the rows it changes, and nobody       *)
(* deactivates an account that a transaction scans for.                    *)
LEMMA PeopleStayHeld ==
  ASSUME LedgerInv, [Next]_vars, NEW d \in Calls, locks[d] # {}
  PROVE  PeopleHeld(d)
<1>0. HandlerOK /\ PeopleOK
  BY DEF LedgerInv, ServingInv, TypeOK
<1>1. ASSUME NEW q \in Credentials, RevokeCredential(q)
      PROVE  PeopleHeld(d)
  BY <1>1 DEF RevokeCredential, PeopleHeld, Free, CredentialRow
<1>2. ASSUME NEW e \in Employees, SetEmployeeActive(e)
      PROVE  PeopleHeld(d)
  BY <1>2 DEF SetEmployeeActive, PeopleHeld, Free, EmployeeRow
<1>3. ASSUME NEW e \in Employees, NEW types \in SUBSET MealTypes, SetMealTypes(e, types)
      PROVE  PeopleHeld(d)
  BY <1>0, <1>3 DEF SetMealTypes, PeopleHeld, Free, EmployeeRow, PeopleOK
<1>4. ASSUME NEW x \in Devices, SetScannerActive(x)
      PROVE  PeopleHeld(d)
  BY <1>4 DEF SetScannerActive, PeopleHeld, Free, DeviceRow
<1>5. ASSUME NEW m \in MealTypes, SetMealTypeActive(m)
      PROVE  PeopleHeld(d)
  BY <1>5 DEF SetMealTypeActive, PeopleHeld, Free, MealTypeRow
<1>6. ASSUME NEW st \in Staff, DeactivateStaff(st)
      PROVE  PeopleHeld(d)
  BY <1>6 DEF DeactivateStaff, PeopleHeld
<1>7. ASSUME UNCHANGED <<revoked, active, eligible, online, offered, actors>>
      PROVE  PeopleHeld(d)
  BY <1>7 DEF PeopleHeld
<1>8. Change \/ UNCHANGED people
  BY <1>0, NextCases DEF Authenticate, Receive, ReceiveFails, Begin, BeginTooLate,
     LockDevice, LockEmployee, LockCredential, Commit, RollBack, MarkInterrupted,
     Crash, Select, Reconcile, Tick, vars
<1>9. CASE Change
  <2>1. CASE \E r \in Requests, s \in Scans : Authorize(r, s)
    BY <1>7, <2>1 DEF Authorize
  <2>2. CASE \E r \in Requests : RevokeAuthorization(r)
    BY <1>7, <2>2 DEF RevokeAuthorization
  <2>3. CASE \E x \in Devices, code \in ScannerCodes : RenameScanner(x, code)
    BY <1>7, <2>3 DEF RenameScanner
  <2> QED BY <1>1, <1>2, <1>3, <1>4, <1>5, <1>6, <1>9, <2>1, <2>2, <2>3 DEF Change
<1> QED BY <1>7, <1>8, <1>9 DEF people

LEMMA RowsDiffer ==
  /\ \A x, y : RequestRow(x) = RequestRow(y) => x = y
  /\ \A x, y : CredentialRow(x) = CredentialRow(y) => x = y
  /\ \A q \in Credentials : CredentialRow(q) \in ExclusiveRows
BY DEF RequestRow, CredentialRow, ExclusiveRows

(* A committing call writes its own request, serving and allowance only.   *)
LEMMA CommitElsewhere ==
  ASSUME LedgerInv, NEW c \in Calls, NEW heard \in BOOLEAN, Commit(c, heard),
         NEW d \in Calls, InTransaction(d), c # d
  PROVE  TablesHeld(d)
<1>0. /\ HandlerOK /\ TablesOK /\ ServingInv /\ Exclusive
      /\ InTransaction(c) /\ scan[c] \in Scans /\ scan[d] \in Scans
  BY LockDisciplineParts
  DEF LedgerInv, ServingInv, TypeOK, Commit, ReceiptKept, InTransaction
<1>1. scan[c].request \in Requests /\ scan[d].request \in Requests
  BY <1>0, ScanParts
<1>2. scan[d].request # scan[c].request
  <2>1. RequestRow(scan[c].request) \in locks[c] /\ RequestRow(scan[d].request) \in locks[d]
    BY <1>0, LockDisciplineParts DEF ServingInv, Holds
  <2> QED BY <1>0, <1>1, <2>1, RowKinds DEF Exclusive
<1>3. request'[scan[d].request] = request[scan[d].request]
  BY <1>0, <1>1, <1>2 DEF Commit, FinishRequest, TablesOK
<1>4. \A v \in servings' : v \in servings \/ v.request = scan[c].request
  BY DEF Commit, InsertServing
<1>5. ASSUME NEW q \in Credentials, CredentialRow(q) \in locks[d]
      PROVE  used'[q] = used[q]
  <2>1. CASE ~(plan[c].act = "SERVE" /\ Kind[scan[c].token] = "ALLOCATED")
    BY <2>1 DEF Commit, UseAllowance
  <2>2. CASE plan[c].act = "SERVE" /\ Kind[scan[c].token] = "ALLOCATED"
    <3>1. CredentialRow(scan[c].token) \in locks[c]
      BY <1>0, <2>2 DEF LedgerInv, CheckedUnderLock, CredentialHeld
    <3>2. scan[c].token # q
      BY <1>0, <1>5, <3>1, RowsDiffer DEF Exclusive
    <3>3. used' = [used EXCEPT ![scan[c].token][scan[c].mealType] = @ + 1]
      BY <2>2 DEF Commit, UseAllowance
    <3> QED BY <1>0, <3>2, <3>3 DEF TablesOK
  <2> QED BY <2>1, <2>2
<1> QED BY <1>2, <1>3, <1>4, <1>5 DEF TablesHeld, RequestHeld

(* Nobody else decides a request whose row is locked, and an authorization *)
(* is revoked only when nobody uses it.                                    *)
LEMMA TablesStayHeld ==
  ASSUME LedgerInv, [Next]_vars, NEW d \in Calls, InTransaction(d),
         \A heard \in BOOLEAN : ~Commit(d, heard)
  PROVE  TablesHeld(d)
<1> DEFINE r == scan[d].request
<1>0. /\ HandlerOK /\ TablesOK /\ ServingInv
      /\ r \in Requests /\ RequestRow(r) \in locks[d]
  BY LockDisciplineParts, ScanParts
  DEF LedgerInv, ServingInv, TypeOK, ReceiptKept, Holds, InTransaction
<1>1. request[r] \in RequestRows
  BY <1>0 DEF TablesOK
<1>2. ASSUME NEW c \in Calls, NEW heard \in BOOLEAN, Receive(c, heard)
      PROVE  TablesHeld(d)
  <2>1. UNCHANGED <<servings, used>>
    BY <1>2 DEF Receive
  <2>2. request'[r] = request[r]
    <3>1. CASE RejectReceipt(c)
      BY <3>1 DEF RejectReceipt
    <3>2. CASE WriteReceipt(c)
      <4>1. Free(RequestRow(scan[c].request))
              /\ Reserve(scan[c].request, ReceiptPayload(scan[c]))
        BY <3>2 DEF WriteReceipt
      <4>2. scan[c].request # r
        BY <1>0, <4>1 DEF Free
      <4> QED BY <1>0, <4>1, <4>2 DEF Reserve, TablesOK
    <3> QED BY <1>2, <3>1, <3>2 DEF Receive
  <2> QED BY <2>1, <2>2 DEF TablesHeld, RequestHeld
<1>3. ASSUME NEW c \in Calls, NEW heard \in BOOLEAN, Commit(c, heard)
      PROVE  TablesHeld(d)
  BY <1>3, CommitElsewhere
<1>4. ASSUME NEW x \in Requests, NEW s \in Scans, Authorize(x, s)
      PROVE  TablesHeld(d)
  <2>1. x # r
    BY <1>0, <1>4 DEF Authorize, Free
  <2>2. request'[r] = request[r] /\ UNCHANGED <<servings, used>>
    BY <1>0, <1>4, <2>1 DEF Authorize, TablesOK, tables
  <2> QED BY <1>4, <2>2 DEF TablesHeld, RequestHeld
<1>5. ASSUME NEW x \in Requests, RevokeAuthorization(x)
      PROVE  TablesHeld(d)
  <2>1. UNCHANGED <<servings, used>>
    BY <1>5 DEF RevokeAuthorization
  <2>2. x # r => request'[r] = request[r]
    BY <1>0, <1>5 DEF RevokeAuthorization, TablesOK
  <2>3. RequestHeld(r)
    BY <1>0, <1>1, <1>5 DEF RevokeAuthorization, RequestHeld, TablesOK, RequestRows
  <2>4. AuthorizationRow(r) \in locks[d] => x # r
    BY <1>5 DEF RevokeAuthorization, Free
  <2> QED BY <2>1, <2>2, <2>3, <2>4 DEF TablesHeld
<1>6. ASSUME UNCHANGED <<request, servings, used>>
      PROVE  TablesHeld(d)
  BY <1>6 DEF TablesHeld, RequestHeld
<1>7. \/ \E c \in Calls, heard \in BOOLEAN : Receive(c, heard) \/ Commit(c, heard)
      \/ Change
      \/ UNCHANGED <<request, servings, used>>
  BY <1>0, NextCases DEF Authenticate, ReceiveFails, Begin, BeginTooLate,
     LockDevice, LockEmployee, LockCredential, RollBack, MarkInterrupted,
     Crash, Select, Reconcile, Tick, vars, tables
<1> QED BY <1>2, <1>3, <1>4, <1>5, <1>6, <1>7, ChangeCases DEF tables

-----------------------------------------------------------------------------
(* What a transaction has read stays true                                  *)

LEMMA ReadSame ==
  ASSUME LedgerInv, NEW d \in Calls, InTransaction(d), Same(d),
         TablesHeld(d), PeopleHeld(d)
  PROVE  RequestRead(d)' /\ CheckedUnderLock(d)'
<1> DEFINE s == scan[d]
<1>0. /\ RequestRead(d) /\ CheckedUnderLock(d) /\ ServingInv /\ Current(d)
      /\ scan[d] \in Scans /\ Holds(d)
  BY LockDisciplineParts, PlanCurrentParts
  DEF LedgerInv, ServingInv, ReceiptKept, InTransaction
<1>1. /\ s.request \in Requests /\ s.mealType \in MealTypes
      /\ scan'[d] = s /\ plan'[d] = plan[d] /\ payload'[d] = payload[d]
      /\ pc'[d] = pc[d] /\ locks'[d] = locks[d]
  BY <1>0, ScanParts DEF Same
<1>2. RequestRead(d)'
  BY <1>0, <1>1 DEF RequestRead, TablesHeld, RequestHeld, PeopleHeld, Deferred
<1>3. pc[d] \in {"placed", "admitted"} \/ plan[d].act = "SERVE" =>
        s.token \in Credentials /\ payload[d].device \in Devices
  BY <1>0 DEF Current, InTransaction
<1>4. ScannerHeld(d) /\ payload[d].device \in Devices => ScannerHeld(d)'
  BY <1>1 DEF ScannerHeld, PeopleHeld
<1>5. (pc[d] = "admitted" \/ plan[d].act = "SERVE") /\ OfEmployee(s.token) =>
        /\ Owner[s.token] \in Employees /\ EmployeeRow(Owner[s.token]) \in locks[d]
  <2>1. OfEmployee(s.token) => Owner[s.token] \in Employees
    BY ServingAssumption DEF OfEmployee
  <2>2. plan[d].act = "SERVE" => pc[d] = "committing"
    BY <1>0 DEF Current, InTransaction
  <2> QED BY <1>0, <2>1, <2>2 DEF Holds
<1>6. (pc[d] = "admitted" \/ plan[d].act = "SERVE") /\ OfEmployee(s.token) =>
        /\ Owner[s.token] \in active => Owner[s.token] \in active'
        /\ eligible'[Owner[s.token]] = eligible[Owner[s.token]]
  BY <1>5 DEF PeopleHeld
<1>7. plan[d].act = "SERVE" => CredentialHeld(d)'
  <2> SUFFICES ASSUME plan[d].act = "SERVE" PROVE CredentialHeld(d)'
    OBVIOUS
  <2>1. CredentialHeld(d) /\ s.token \in Credentials
    BY <1>0, <1>3 DEF CheckedUnderLock
  <2>2. s.token \notin revoked' /\ used'[s.token] = used[s.token]
    BY <2>1 DEF CredentialHeld, PeopleHeld, TablesHeld
  <2>3. AuthorizationRow(s.request) \in locks[d] =>
          request'[s.request].prepared.state = request[s.request].prepared.state
    BY DEF TablesHeld
  <2> QED BY <1>1, <1>6, <2>1, <2>2, <2>3 DEF CredentialHeld, OfEmployee
<1> QED BY <1>0, <1>1, <1>2, <1>3, <1>4, <1>6, <1>7 DEF CheckedUnderLock, OfEmployee

-----------------------------------------------------------------------------
(* What a transaction reads                                                *)

LEMMA FaultsAreNotApproved ==
  ASSUME NEW s, NEW c, NEW d
  PROVE  /\ ActorFault(s) # "APPROVED" /\ InputFault(s) # "APPROVED"
         /\ ReceiptFault(s) # "APPROVED" /\ DeviceFault(c, d) # "APPROVED"
         /\ ServingFault(c) # "APPROVED"
<1>1. /\ EmployeeFault(scan[c]) # "APPROVED" /\ AllocationFault(scan[c]) # "APPROVED"
      /\ AuthorizationFault(c) # "APPROVED"
  BY DEF EmployeeFault, AllocationFault, AuthorizationFault
<1>2. ServingFault(c) # "APPROVED"
  BY <1>1 DEF ServingFault, SharedFault
<1> QED BY <1>2 DEF ActorFault, InputFault, ReceiptFault, DeviceFault

LEMMA BeginReads ==
  ASSUME LedgerInv, NEW c \in Calls, Begin(c)
  PROVE  InTransaction(c)' /\ RequestRead(c)' /\ CheckedUnderLock(c)'
<1> DEFINE s == scan[c]
           q == request[s.request]
<1>0. HandlerOK /\ s \in Scans /\ ServingInv /\ RequestsSettled /\ ServedOnce
  BY DEF LedgerInv, ServingInv, TypeOK, Begin, ReceiptKept
<1>1. s.request \in Requests
  BY <1>0, ScanParts
<1>2. /\ scan'[c] = s /\ payload' = payload /\ plan'[c] = EarlyPlan(c)
      /\ UNCHANGED <<tables, actors>>
      /\ pc'[c] = IF EarlyPlan(c).act = "NONE" THEN "locked" ELSE "committing"
  BY <1>0 DEF Begin, HandlerOK, people
<1>3. EarlyPlan(c).act = "REJECT" => EarlyPlan(c).code # "APPROVED"
  BY <1>0, <1>1, FaultsAreNotApproved
  DEF EarlyPlan, Act, NoPlan, RequestsSettled
<1>4. EarlyPlan(c).binds => EarlyPlan(c).act = "NONE" /\ ~Deferred(s)
  BY DEF EarlyPlan, Act, NoPlan
<1>5. EarlyPlan(c).act \in {"NONE", "DUPLICATE"} =>
        q.payload = payload[c] /\ s.staff \in actors
  BY DEF EarlyPlan, Act, NoPlan, ActorFault
<1>6. ASSUME EarlyPlan(c).act = "DUPLICATE", ~s.reading,
             NEW v \in servings, v.request = s.request
      PROVE  v.authorization = s.authorization /\ v.visitor = s.visitor
  <2>1. /\ ~ProofDiffers(q, s) /\ q.status = "SUCCEEDED"
        /\ ServingOf(s.request).authorization = s.authorization
    BY <1>6 DEF EarlyPlan, Act, NoPlan
  <2>2. ServingOf(s.request) = v
    <3>1. ServingOf(s.request) \in servings /\ ServingOf(s.request).request = s.request
      BY <1>6 DEF ServingOf
    <3> QED BY <1>0, <1>6, <3>1 DEF ServedOnce
  <2>3. q.visitor = s.visitor
    BY <1>6, <2>1 DEF ProofDiffers
  <2> QED BY <1>0, <1>6, <2>1, <2>2, <2>3 DEF RequestsSettled
<1>7. EarlyPlan(c).act = "NONE" =>
        (q.prepared.state # "NONE" => s.authorization = s.request)
  BY DEF EarlyPlan, Act, NoPlan
<1>8. EarlyPlan(c).act \in {"NONE", "REJECT", "DUPLICATE"}
  BY EarlyActs
<1>9. RequestRead(c)'
  BY <1>2, <1>3, <1>4, <1>5, <1>6, <1>7, <1>8 DEF RequestRead, tables, Deferred
<1>10. CheckedUnderLock(c)'
  BY <1>2, <1>8 DEF CheckedUnderLock
<1> QED BY <1>2, <1>9, <1>10 DEF InTransaction

(* A plan that goes on, or is refused with what it had read.               *)
LEMMA GoOnReads ==
  ASSUME LedgerInv, NEW c \in Calls, InTransaction(c), plan[c].act = "NONE",
         UNCHANGED <<request, scan, payload, actors>>,
         \/ plan'[c] = plan[c]
         \/ /\ plan'[c].act = "REFUSE" /\ plan'[c].code # "APPROVED"
            /\ plan'[c].binds = plan[c].binds
  PROVE  RequestRead(c)'
<1>1. RequestRead(c)
  BY DEF LedgerInv
<1> QED BY <1>1 DEF RequestRead, Deferred

LEMMA LockDeviceReads ==
  ASSUME LedgerInv, NEW c \in Calls, LockDevice(c)
  PROVE  InTransaction(c)' /\ RequestRead(c)' /\ CheckedUnderLock(c)'
<1> DEFINE d == DeviceOf(scan[c].scanner)
           code == DeviceFault(c, d)
           rows == {MealTypeRow(scan[c].mealType)}
                     \cup {DeviceRow(e) : e \in {d} \ {None}}
<1>0. /\ HandlerOK /\ scan[c] \in Scans /\ Current(c) /\ InTransaction(c)
      /\ Exclusive
  BY PlanCurrentParts, LockDisciplineParts
  DEF LedgerInv, ServingInv, TypeOK, LockDevice, ReceiptKept, InTransaction
<1>1. plan[c].act = "NONE"
  BY <1>0 DEF LockDevice, Current
<1>2. /\ scan' = scan /\ payload' = payload /\ UNCHANGED <<tables, people>>
      /\ IF code = "NONE"
           THEN /\ plan'[c] = plan[c]
                /\ pc'[c] = IF OfEmployee(scan[c].token) THEN "placed" ELSE "admitted"
           ELSE /\ plan'[c].act = "REFUSE" /\ pc'[c] = "committing"
                /\ plan'[c].code = code /\ plan'[c].binds = plan[c].binds
  BY <1>0 DEF LockDevice, GoOn, HandlerOK, Act, Plans
<1>3. code # "APPROVED"
  BY FaultsAreNotApproved
<1>4. RequestRead(c)'
  BY <1>0, <1>1, <1>2, <1>3, GoOnReads DEF tables, people
<1>5. Lock(c, rows)
  BY DEF LockDevice
<1>6. locks'[c] = locks[c] \cup rows
  <2> HIDE DEF rows
  <2> QED BY <1>0, <1>5, LockExclusive
<1>7. code = "NONE" => /\ d \in online /\ payload[c].device = d /\ d # None
                       /\ scan[c].mealType \in offered
  BY DEF DeviceFault
<1>8. code = "NONE" => ScannerHeld(c)'
  BY <1>2, <1>6, <1>7 DEF ScannerHeld, people
<1>9. CheckedUnderLock(c)'
  BY <1>1, <1>2, <1>8 DEF CheckedUnderLock, OfEmployee
<1> QED BY <1>2, <1>4, <1>9 DEF InTransaction

LEMMA LockEmployeeReads ==
  ASSUME LedgerInv, NEW c \in Calls, LockEmployee(c)
  PROVE  InTransaction(c)' /\ RequestRead(c)' /\ CheckedUnderLock(c)'
<1> DEFINE e == Owner[scan[c].token]
<1>0. /\ HandlerOK /\ Current(c) /\ InTransaction(c) /\ Exclusive
      /\ pc[c] = "placed" /\ ScannerHeld(c)
  BY PlanCurrentParts, LockDisciplineParts
  DEF LedgerInv, ServingInv, TypeOK, LockEmployee, InTransaction, CheckedUnderLock
<1>1. plan[c].act = "NONE"
  BY <1>0 DEF Current
<1>2. /\ scan' = scan /\ payload' = payload /\ UNCHANGED <<tables, people>>
      /\ \/ /\ plan'[c] = plan[c] /\ pc'[c] = "admitted" /\ e \in active
         \/ /\ plan'[c].act = "REFUSE" /\ pc'[c] = "committing"
            /\ plan'[c].code = "EMPLOYEE_INACTIVE" /\ plan'[c].binds = plan[c].binds
  BY <1>0 DEF LockEmployee, GoOn, HandlerOK, Act, Plans
<1>3. RequestRead(c)'
  BY <1>0, <1>1, <1>2, GoOnReads DEF tables, people
<1>4. locks'[c] = locks[c] \cup {EmployeeRow(e)}
  BY <1>0, LockExclusive DEF LockEmployee
<1>5. ScannerHeld(c)'
  BY <1>0, <1>2, <1>4 DEF ScannerHeld, people
<1>6. CheckedUnderLock(c)'
  BY <1>1, <1>2, <1>5 DEF CheckedUnderLock, OfEmployee, people
<1> QED BY <1>2, <1>3, <1>6 DEF InTransaction

(* A serving is decided only with everything it needs.                     *)
LEMMA DecisionServes ==
  ASSUME LedgerInv, NEW c \in Calls, pc[c] = "admitted", Decision(c).act = "SERVE"
  PROVE  LET s == scan[c]
         IN /\ s.token \notin revoked
            /\ OfEmployee(s.token) => s.mealType \in eligible[Owner[s.token]]
            /\ Kind[s.token] = "ALLOCATED" => /\ s.mealType \in Allowed[s.token]
                                              /\ used[s.token][s.mealType] < Limit[s.token]
            /\ s.authorization # None =>
                 /\ ByAuthorization(s)
                 /\ s.authorization = s.request
                 /\ request[s.request].prepared.state = "VALID"
<1> DEFINE s == scan[c]
<1>0. /\ s \in Scans /\ InputFault(s) = "NONE" /\ InTransaction(c)
      /\ s.token \in Credentials /\ TablesOK
  BY PlanCurrentParts
  DEF LedgerInv, ServingInv, TypeOK, ReceiptKept, InTransaction, InputValid, Current
<1>1. ServingFault(c) = "NONE"
  BY DEF Decision, Act, NeedsDetails
<1>2. s.token \notin revoked
  BY <1>1 DEF ServingFault
<1>3. CASE Kind[s.token] = "EMPLOYEE"
  <2>1. EmployeeFault(s) = "NONE"
    BY <1>1, <1>3 DEF ServingFault
  <2> QED BY <1>2, <1>3, <2>1 DEF EmployeeFault
<1>4. CASE Kind[s.token] = "ALLOCATED"
  <2>1. AllocationFault(s) = "NONE"
    BY <1>1, <1>4 DEF ServingFault
  <2>2. s.authorization = None /\ s.mealType \in Allowed[s.token]
          /\ ~(used[s.token][s.mealType] >= Limit[s.token])
    BY <2>1 DEF AllocationFault
  <2>3. used[s.token][s.mealType] \in Nat /\ Limit[s.token] \in Nat
    BY <1>0, ScanParts, ServingAssumption DEF TablesOK
  <2>4. used[s.token][s.mealType] < Limit[s.token]
    BY <2>2, <2>3
  <2> QED BY <1>2, <1>4, <2>2, <2>4 DEF OfEmployee
<1>5. CASE Kind[s.token] = "SHARED"
  <2>1. SharedFault(c) = "NONE"
    BY <1>1, <1>5 DEF ServingFault
  <2>2. ASSUME s.authorization # None
        PROVE  /\ ByAuthorization(s) /\ s.authorization = s.request
               /\ request[s.request].prepared.state = "VALID"
    <3>1. s.visitor = None /\ ~s.reading
      BY <1>0, <2>2 DEF InputFault
    <3>2. ByAuthorization(s)
      BY <1>5, <2>2, <3>1 DEF ByAuthorization
    <3>3. AuthorizationFault(c) = "NONE"
      BY <2>1, <3>2 DEF SharedFault
    <3>4. /\ s.authorization = s.request
          /\ request[s.request].prepared.state \notin {"NONE", "REVOKED"}
      BY <3>3 DEF AuthorizationFault
    <3>5. s.request \in Requests
      BY <1>0, ScanParts
    <3>6. request[s.request].prepared.state \in {"NONE", "VALID", "REVOKED"}
      BY <1>0, <3>5 DEF TablesOK, RequestRows
    <3> QED BY <3>2, <3>4, <3>6
  <2> QED BY <1>2, <1>5, <2>2 DEF OfEmployee
<1> QED BY <1>0, <1>3, <1>4, <1>5, ServingAssumption

LEMMA DecisionFields ==
  ASSUME NEW c
  PROVE  /\ Decision(c).act \in {"SERVE", "REFUSE", "REJECT", "AWAIT"}
         /\ Decision(c).binds = plan[c].binds
         /\ Decision(c).act # "SERVE" => Decision(c).code # "APPROVED"
         /\ Decision(c).act \in {"REJECT", "AWAIT"} => Deferred(scan[c])
BY FaultsAreNotApproved DEF Decision, Act, NeedsDetails, Deferred

LEMMA LockCredentialReads ==
  ASSUME LedgerInv, NEW c \in Calls, LockCredential(c)
  PROVE  InTransaction(c)' /\ RequestRead(c)' /\ CheckedUnderLock(c)'
<1> DEFINE s == scan[c]
           rows == {CredentialRow(s.token)} \cup
                     (IF ByAuthorization(s) THEN {AuthorizationRow(s.authorization)}
                                            ELSE {})
<1>0. /\ HandlerOK /\ Current(c) /\ InTransaction(c) /\ Exclusive
      /\ pc[c] = "admitted" /\ RequestRead(c) /\ CheckedUnderLock(c)
  BY PlanCurrentParts, LockDisciplineParts
  DEF LedgerInv, ServingInv, TypeOK, LockCredential, InTransaction
<1>1. plan[c].act = "NONE" /\ s.token \in Credentials
  BY <1>0 DEF Current
<1>2. /\ scan' = scan /\ payload' = payload /\ UNCHANGED <<tables, people>>
      /\ plan'[c] = Decision(c) /\ pc'[c] = "committing"
  BY <1>0 DEF LockCredential, HandlerOK
<1>3. RequestRead(c)'
  <2>1. /\ request[s.request].payload = payload[c] /\ s.staff \in actors
        /\ request[s.request].prepared.state # "NONE" => s.authorization = s.request
        /\ plan[c].binds => ~Deferred(s)
    BY <1>0, <1>1 DEF RequestRead
  <2> QED BY <1>2, <2>1, DecisionFields DEF RequestRead, Deferred, tables, people
<1>4. Lock(c, rows)
  BY DEF LockCredential
<1>5. locks'[c] = locks[c] \cup rows
  <2> HIDE DEF rows
  <2> QED BY <1>0, <1>4, LockExclusive
<1>6. ScannerHeld(c)' /\ (OfEmployee(s.token) => Owner[s.token] \in active')
  <2>1. ScannerHeld(c) /\ (OfEmployee(s.token) => Owner[s.token] \in active)
    BY <1>0 DEF CheckedUnderLock
  <2> QED BY <1>2, <1>5, <2>1 DEF ScannerHeld, people
<1>7. ASSUME plan'[c].act = "SERVE"
      PROVE  CredentialHeld(c)'
  <2>1. /\ s.token \notin revoked
        /\ OfEmployee(s.token) => s.mealType \in eligible[Owner[s.token]]
        /\ Kind[s.token] = "ALLOCATED" => /\ s.mealType \in Allowed[s.token]
                                          /\ used[s.token][s.mealType] < Limit[s.token]
        /\ s.authorization # None =>
             /\ ByAuthorization(s)
             /\ s.authorization = s.request
             /\ request[s.request].prepared.state = "VALID"
    BY <1>0, <1>2, <1>7, DecisionServes
  <2>2. CredentialRow(s.token) \in locks'[c]
    BY <1>5
  <2>3. s.authorization # None => AuthorizationRow(s.request) \in locks'[c]
    BY <1>5, <2>1
  <2> QED BY <1>2, <2>1, <2>2, <2>3 DEF CredentialHeld, OfEmployee, tables, people
<1>8. CheckedUnderLock(c)'
  BY <1>2, <1>6, <1>7 DEF CheckedUnderLock, OfEmployee
<1> QED BY <1>2, <1>3, <1>8 DEF InTransaction

(* What open transactions have read is true after every step.              *)
TransactionsSound ==
  \A d \in Calls : InTransaction(d) => RequestRead(d) /\ CheckedUnderLock(d)

LEMMA TransactionsStep ==
  ASSUME LedgerInv, [Next]_vars
  PROVE  TransactionsSound'
<1>0. HandlerOK /\ \A d \in Calls : Holds(d)
  BY LockDisciplineParts DEF LedgerInv, ServingInv, TypeOK
<1>1. ASSUME NEW d \in Calls, Same(d), InTransaction(d)'
      PROVE  RequestRead(d)' /\ CheckedUnderLock(d)'
  <2>1. InTransaction(d) /\ pc'[d] = pc[d]
    BY <1>1 DEF Same, InTransaction
  <2>2. \A heard \in BOOLEAN : ~Commit(d, heard)
    BY <1>0, <2>1 DEF Commit, HandlerOK
  <2>3. TablesHeld(d)
    BY <2>1, <2>2, TablesStayHeld
  <2>4. PeopleHeld(d)
    BY <1>0, <2>1, PeopleStayHeld DEF Holds
  <2> QED BY <1>1, <2>1, <2>3, <2>4, ReadSame
<1>2. ASSUME NEW c \in Calls,
             Begin(c) \/ LockDevice(c) \/ LockEmployee(c) \/ LockCredential(c)
      PROVE  TransactionsSound'
  <2>1. \A d \in Calls \ {c} : Same(d)
    BY <1>0, <1>2 DEF Begin, LockDevice, LockEmployee, LockCredential, Lock, GoOn,
       Same, HandlerOK
  <2>2. RequestRead(c)' /\ CheckedUnderLock(c)'
    BY <1>2, BeginReads, LockDeviceReads, LockEmployeeReads, LockCredentialReads
  <2> QED BY <1>1, <2>1, <2>2 DEF TransactionsSound
<1>3. ASSUME NEW c \in Calls,
             \/ \E s \in Scans : Authenticate(c, s)
             \/ \E heard \in BOOLEAN : Receive(c, heard) \/ Commit(c, heard)
             \/ \E retry \in BOOLEAN : ReceiveFails(c, retry) \/ RollBack(c, retry)
             \/ \E works \in BOOLEAN : MarkInterrupted(c, works)
             \/ BeginTooLate(c) \/ Crash(c)
      PROVE  TransactionsSound'
  <2>1. \A d \in Calls \ {c} : Same(d)
    BY <1>0, <1>3 DEF Authenticate, Receive, RejectReceipt, WriteReceipt, Commit,
       ReceiveFails, RollBack, MarkInterrupted, BeginTooLate, Crash, Unlock, Same,
       HandlerOK
  <2>2. ~InTransaction(c)'
    BY <1>0, <1>3 DEF Authenticate, Receive, ReceiveFails, RollBack, Commit,
       MarkInterrupted, BeginTooLate, Crash, HandlerOK, InTransaction
  <2> QED BY <1>1, <2>1, <2>2 DEF TransactionsSound
<1>4. ASSUME UNCHANGED handler
      PROVE  TransactionsSound'
  BY <1>1, <1>4, HandlerSame DEF TransactionsSound
<1> QED BY <1>0, <1>2, <1>3, <1>4, NextCases, OtherStepsFrame

-----------------------------------------------------------------------------
(* Requests                                                                *)

(* A commit binds the request exactly when it decides it.                  *)
LEMMA CommitRow ==
  ASSUME LedgerInv, NEW c \in Calls, NEW heard \in BOOLEAN, Commit(c, heard)
  PROVE  LET s == scan[c]
             q == request[s.request]
             n == request'[s.request]
         IN /\ n.prepared = q.prepared
            /\ plan[c].act \in {"SERVE", "REFUSE"} =>
                 /\ ~q.bound /\ n.bound
                 /\ n.authorization = s.authorization /\ n.visitor = s.visitor
                 /\ plan[c].act = "REFUSE" => n.code # "APPROVED"
                 /\ plan[c].act = "SERVE" => n.code = q.code
            /\ plan[c].act \notin {"SERVE", "REFUSE"} =>
                 /\ n.bound = q.bound /\ n.code = q.code
                 /\ n.authorization = q.authorization /\ n.visitor = q.visitor
<1> DEFINE s == scan[c]
           q == request[s.request]
           n == request'[s.request]
<1>0. /\ TablesOK /\ s \in Scans /\ InTransaction(c) /\ RequestRead(c)
      /\ RequestsSettled
  BY DEF LedgerInv, ServingInv, TypeOK, Commit, ReceiptKept, InTransaction
<1>1. s.request \in Requests /\ q \in RequestRows
  BY <1>0, ScanParts DEF TablesOK
<1>2. /\ n.prepared = q.prepared
      /\ n.bound = (q.bound \/ Binds(c))
      /\ n.code = IF plan[c].act = "REFUSE" THEN plan[c].code ELSE q.code
      /\ n.authorization = IF Binds(c) THEN s.authorization ELSE q.authorization
      /\ n.visitor = IF Binds(c) THEN s.visitor ELSE q.visitor
  BY <1>0, <1>1 DEF Commit, FinishRequest, TablesOK, RequestRows
<1>3. CASE plan[c].act \in {"SERVE", "REFUSE"}
  <2>1. q.status = "PENDING"
    BY <1>3, CommitEffect DEF LedgerInv
  <2>2. ~q.bound
    BY <1>0, <1>1, <2>1 DEF RequestsSettled, Final
  <2>3. Binds(c)
    BY <1>3, <2>2 DEF Binds
  <2>4. plan[c].act = "REFUSE" => plan[c].code # "APPROVED"
    BY <1>0 DEF RequestRead
  <2>5. n.bound
    BY <1>2, <2>3, Zenon
  <2> QED BY <1>2, <1>3, <2>2, <2>3, <2>4, <2>5
<1>4. CASE plan[c].act \notin {"SERVE", "REFUSE"}
  <2>1. plan[c].act # "NONE"
    BY PlanCurrentParts, <1>0 DEF LedgerInv, ServingInv, Current, Commit
  <2>2. ~plan[c].binds
    BY <1>0, <1>4, <2>1 DEF RequestRead
  <2>3. ~Binds(c)
    BY <1>4, <2>2 DEF Binds
  <2>4. q.bound \in BOOLEAN
    BY <1>1 DEF RequestRows
  <2>5. n.bound = q.bound
    BY <1>2, <2>3, <2>4
  <2> QED BY <1>2, <1>4, <2>3, <2>5
<1> QED BY <1>2, <1>3, <1>4

(* The two halves of RequestsSettled, for one request and one serving.     *)
SettledRow(r) ==
  /\ request[r].bound <=> Final(r)
  /\ request[r].code # "APPROVED"
  /\ request[r].prepared.state # "NONE" =>
       /\ request[r].status # "NONE"
       /\ request[r].prepared.scope = request[r].payload

SettledServing(v) ==
  /\ request[v.request].payload = v.payload
  /\ request[v.request].authorization = v.authorization
  /\ request[v.request].visitor = v.visitor

LEMMA SettledParts ==
  RequestsSettled <=> /\ \A r \in Requests : SettledRow(r)
                      /\ \A v \in servings : SettledServing(v)
BY DEF RequestsSettled, SettledRow, SettledServing

LEMMA SettledSame ==
  ASSUME NEW r, SettledRow(r), request'[r] = request[r]
  PROVE  SettledRow(r)'
BY DEF SettledRow, Final

(* A step that leaves what servings are bound to alone.                    *)
LEMMA ServingsStaySettled ==
  ASSUME LedgerInv, servings' = servings,
         \A r \in Requests : request[r].status = "SUCCEEDED" =>
           /\ request'[r].payload = request[r].payload
           /\ request'[r].authorization = request[r].authorization
           /\ request'[r].visitor = request[r].visitor
  PROVE  \A v \in servings' : SettledServing(v)'
<1>1. \A v \in servings : v.request \in Requests
  BY DEF LedgerInv, ServingInv, TypeOK, TablesOK, ServingRows
<1>2. \A v \in servings : request[v.request].status = "SUCCEEDED"
  BY <1>1 DEF LedgerInv, ServingInv, ServedOnce
<1> QED BY <1>1, <1>2, SettledParts DEF LedgerInv, SettledServing

LEMMA CommitSettles ==
  ASSUME LedgerInv, NEW c \in Calls, NEW heard \in BOOLEAN, Commit(c, heard)
  PROVE  RequestsSettled'
<1> DEFINE r == scan[c].request
           row == [call |-> c, request |-> r, payload |-> payload[c],
                   visitor |-> scan[c].visitor,
                   authorization |-> scan[c].authorization, at |-> plan[c].at]
<1>0. /\ ServingInv /\ TablesOK /\ InTransaction(c) /\ RequestRead(c)
      /\ \A x \in Requests : SettledRow(x)
      /\ \A v \in servings : SettledServing(v) /\ v.request \in Requests
  BY SettledParts
  DEF LedgerInv, ServingInv, TypeOK, TablesOK, ServingRows, Commit, InTransaction
<1>1. /\ r \in Requests
      /\ \A x \in Requests \ {r} : request'[x] = request[x]
      /\ request'[r].payload = request[r].payload
      /\ request'[r].status = IF plan[c].act = "SERVE" THEN "SUCCEEDED"
                              ELSE IF plan[c].act = "REFUSE" THEN "REJECTED"
                              ELSE request[r].status
      /\ plan[c].act \in {"SERVE", "REFUSE"} => request[r].status = "PENDING"
  BY <1>0, CommitEffect
<1>2. servings' = IF plan[c].act = "SERVE" THEN servings \cup {row} ELSE servings
  BY <1>0, CommitEffect
<1>3. ASSUME NEW x \in Requests, x = r
      PROVE  SettledRow(x)'
  <2>1. /\ SettledRow(x)
        /\ request'[r].prepared = request[r].prepared
    BY <1>0, <1>1, <1>3, CommitRow
  <2>2. CASE plan[c].act = "SERVE"
    <3>1. /\ request'[r].bound /\ request'[r].code = request[r].code
          /\ request'[r].status = "SUCCEEDED" /\ request[r].status = "PENDING"
      BY <1>1, <2>2, CommitRow
    <3> QED BY <1>1, <1>3, <2>1, <3>1 DEF SettledRow, Final
  <2>3. CASE plan[c].act = "REFUSE"
    <3>1. /\ request'[r].bound /\ request'[r].code # "APPROVED"
          /\ request'[r].status = "REJECTED" /\ request[r].status = "PENDING"
      BY <1>1, <2>3, CommitRow
    <3> QED BY <1>1, <1>3, <2>1, <3>1 DEF SettledRow, Final
  <2>4. CASE plan[c].act \notin {"SERVE", "REFUSE"}
    <3>1. /\ request'[r].bound = request[r].bound
          /\ request'[r].code = request[r].code
          /\ request'[r].status = request[r].status
      BY <1>1, <2>4, CommitRow
    <3> QED BY <1>1, <1>3, <2>1, <3>1 DEF SettledRow, Final
  <2> QED BY <2>2, <2>3, <2>4
<1>4. ASSUME NEW x \in Requests
      PROVE  SettledRow(x)'
  <2>1. CASE x = r
    BY <1>3, <2>1
  <2>2. CASE x # r
    <3>1. SettledRow(x) /\ request'[x] = request[x]
      BY <1>0, <1>1, <2>2
    <3> QED BY <3>1, SettledSame
  <2> QED BY <2>1, <2>2
<1>5. ASSUME NEW v \in servings
      PROVE  SettledServing(v)'
  <2>1. CASE v.request # r
    BY <1>0, <1>1, <2>1 DEF SettledServing
  <2>2. CASE v.request = r
    <3>1. request[r].status = "SUCCEEDED"
      BY <1>0, <1>1, <2>2 DEF ServingInv, ServedOnce
    <3>2. plan[c].act \notin {"SERVE", "REFUSE"}
      BY <1>1, <3>1
    <3> QED BY <1>0, <1>1, <2>2, <3>2, CommitRow DEF SettledServing
  <2> QED BY <2>1, <2>2
<1>6. ASSUME plan[c].act = "SERVE"
      PROVE  /\ request'[r].payload = payload[c]
             /\ request'[r].authorization = scan[c].authorization
             /\ request'[r].visitor = scan[c].visitor
  <2>1. request[r].payload = payload[c]
    BY <1>0, <1>6 DEF RequestRead
  <2>2. /\ request'[r].authorization = scan[c].authorization
        /\ request'[r].visitor = scan[c].visitor
    BY <1>6, CommitRow
  <2> QED BY <1>1, <2>1, <2>2
<1>7. ASSUME NEW v \in servings'
      PROVE  SettledServing(v)'
  <2>1. CASE v \in servings
    BY <1>5, <2>1
  <2>2. CASE v \notin servings
    <3>1. plan[c].act = "SERVE" /\ v = row
      BY <1>2, <2>2
    <3> QED BY <1>6, <3>1 DEF SettledServing
  <2> QED BY <2>1, <2>2
<1> QED BY <1>4, <1>7, SettledParts DEF RequestsSettled, SettledRow, SettledServing, Final

LEMMA SettledStep ==
  ASSUME LedgerInv, [Next]_vars
  PROVE  RequestsSettled'
<1> USE DEF tables
<1>0. /\ HandlerOK /\ \A r \in Requests : SettledRow(r)
      /\ request \in [Requests -> RequestRows]
  BY SettledParts DEF LedgerInv, ServingInv, TypeOK, TablesOK
<1>1. ASSUME servings' = servings, \A r \in Requests : SettledRow(r)',
             \A r \in Requests : request[r].status = "SUCCEEDED" =>
               /\ request'[r].payload = request[r].payload
               /\ request'[r].authorization = request[r].authorization
               /\ request'[r].visitor = request[r].visitor
      PROVE  RequestsSettled'
  <2>1. \A v \in servings' : SettledServing(v)'
    BY <1>1, ServingsStaySettled
  <2> QED BY <1>1, <2>1 DEF RequestsSettled, SettledRow, SettledServing, Final
<1>2. ASSUME request' = request, servings' = servings
      PROVE  RequestsSettled'
  BY <1>0, <1>1, <1>2, SettledSame
<1>3. ASSUME NEW x \in Requests, NEW p, Reserve(x, p), servings' = servings
      PROVE  RequestsSettled'
  <2>1. ASSUME NEW r \in Requests
        PROVE  /\ SettledRow(r)'
               /\ request[r].status = "SUCCEEDED" => request'[r] = request[r]
    <3>1. CASE request'[r] = request[r]
      BY <1>0, <3>1, SettledSame
    <3>2. CASE request'[r] # request[r]
      <4>1. r = x /\ request[r].status = "NONE"
        BY <1>0, <1>3, <3>2 DEF Reserve
      <4>2. /\ request'[r].status = "PENDING"
            /\ request'[r].bound = request[r].bound
            /\ request'[r].code = request[r].code
            /\ request'[r].prepared = request[r].prepared
        BY <1>0, <1>3, <4>1 DEF Reserve, RequestRows
      <4> QED BY <1>0, <4>1, <4>2 DEF SettledRow, Final
    <3> QED BY <3>1, <3>2
  <2> QED BY <1>1, <1>3, <2>1
<1>4. ASSUME NEW x \in Requests, NEW s \in Scans, Authorize(x, s)
      PROVE  RequestsSettled'
  <2>1. ASSUME NEW r \in Requests
        PROVE  /\ SettledRow(r)'
               /\ request[r].status = "SUCCEEDED" => request'[r] = request[r]
    <3>1. CASE r # x
      BY <1>0, <1>4, <3>1, SettledSame DEF Authorize
    <3>2. CASE r = x
      <4>1. request[r].status \in {"NONE", "PENDING"}
        BY <1>4, <3>2 DEF Authorize
      <4>2. /\ request'[r].status = "PENDING"
            /\ request'[r].bound = request[r].bound
            /\ request'[r].code = request[r].code
            /\ request'[r].prepared.scope = request'[r].payload
        BY <1>0, <1>4, <3>2 DEF Authorize, RequestRows
      <4> QED BY <1>0, <4>1, <4>2 DEF SettledRow, Final
    <3> QED BY <3>1, <3>2
  <2>2. servings' = servings
    BY <1>4 DEF Authorize
  <2> QED BY <1>1, <2>1, <2>2
<1>5. ASSUME NEW x \in Requests, RevokeAuthorization(x)
      PROVE  RequestsSettled'
  <2>1. ASSUME NEW r \in Requests
        PROVE  /\ request'[r].status = request[r].status
               /\ request'[r].payload = request[r].payload
               /\ request'[r].bound = request[r].bound
               /\ request'[r].code = request[r].code
               /\ request'[r].authorization = request[r].authorization
               /\ request'[r].visitor = request[r].visitor
               /\ request'[r].prepared.scope = request[r].prepared.scope
               /\ request'[r].prepared.state # "NONE" =>
                    request[r].prepared.state # "NONE"
    BY <1>0, <1>5 DEF RevokeAuthorization, RequestRows
  <2>2. servings' = servings
    BY <1>5 DEF RevokeAuthorization
  <2>3. \A r \in Requests : SettledRow(r)'
    BY <1>0, <2>1 DEF SettledRow, Final
  <2> QED BY <1>1, <2>1, <2>2, <2>3
<1>6. ASSUME NEW c \in Calls, NEW heard \in BOOLEAN, Receive(c, heard)
      PROVE  RequestsSettled'
  <2>1. servings' = servings /\ (RejectReceipt(c) \/ WriteReceipt(c))
    BY <1>6 DEF Receive
  <2>2. RejectReceipt(c) => request' = request
    BY DEF RejectReceipt
  <2>3. WriteReceipt(c) => Reserve(scan[c].request, ReceiptPayload(scan[c]))
    BY DEF WriteReceipt
  <2>4. scan[c].request \in Requests
    BY <1>6, ScanParts DEF Receive, LedgerInv, ServingInv, ReceiptKept
  <2> QED BY <1>2, <1>3, <2>1, <2>2, <2>3, <2>4
<1>7. \/ \E c \in Calls, heard \in BOOLEAN : Receive(c, heard) \/ Commit(c, heard)
      \/ Change
      \/ request' = request /\ servings' = servings
  BY <1>0, NextCases DEF Authenticate, ReceiveFails, Begin, BeginTooLate, LockDevice,
     LockEmployee, LockCredential, RollBack, MarkInterrupted, Crash, Select,
     Reconcile, Tick, vars
<1> QED BY <1>2, <1>4, <1>5, <1>6, <1>7, CommitSettles, ChangeCases

-----------------------------------------------------------------------------
(* Inputs and answers                                                      *)

LEMMA ValidSame ==
  ASSUME NEW d, InputValid(d), Same(d), response'[d] = response[d]
  PROVE  InputValid(d)'
BY DEF InputValid, Same, InTransaction, InputFault

LEMMA ValidStep ==
  ASSUME LedgerInv, [Next]_vars
  PROVE  \A d \in Calls : InputValid(d)'
<1>0. HandlerOK /\ \A d \in Calls : InputValid(d)
  BY DEF LedgerInv, ServingInv, TypeOK
<1>1. ASSUME NEW c \in Calls, InputValid(c)',
             \A d \in Calls \ {c} : Same(d) /\ response'[d] = response[d]
      PROVE  \A d \in Calls : InputValid(d)'
  BY <1>0, <1>1, ValidSame
<1>2. ASSUME NEW c \in Calls, NEW s \in Scans, Authenticate(c, s)
      PROVE  \A d \in Calls : InputValid(d)'
  <2>1. \A d \in Calls \ {c} : Same(d) /\ response'[d] = response[d]
    BY <1>0, <1>2 DEF Authenticate, Same, HandlerOK
  <2>2. /\ pc'[c] = "authenticated" /\ scan'[c] = s /\ response'[c] = response[c]
        /\ fault'[c] = IF ActorFault(s) # "NONE" THEN ActorFault(s) ELSE InputFault(s)
        /\ pc[c] = "idle"
    BY <1>0, <1>2 DEF Authenticate, HandlerOK
  <2>3. InputValid(c)'
    <3>1. fault'[c] # "APPROVED" /\ (fault'[c] = "NONE" => InputFault(s) = "NONE")
      BY <2>2, FaultsAreNotApproved
    <3>2. response[c].code # "APPROVED"
      BY <1>0, <2>2 DEF InputValid
    <3>3. InputFault(s)' = InputFault(s)
      BY DEF InputFault
    <3> QED BY <2>2, <3>1, <3>2 DEF InputValid, InTransaction, InputFault
  <2> QED BY <1>1, <2>1, <2>3
<1>3. ASSUME NEW c \in Calls, NEW heard \in BOOLEAN, Receive(c, heard)
      PROVE  \A d \in Calls : InputValid(d)'
  <2>1. \A d \in Calls \ {c} : Same(d) /\ response'[d] = response[d]
    BY <1>0, <1>3 DEF Receive, RejectReceipt, WriteReceipt, Answer, Same, HandlerOK
  <2>2. /\ scan'[c] = scan[c] /\ fault'[c] = fault[c] /\ pc[c] = "authenticated"
        /\ pc'[c] \in {"received", "done"}
        /\ pc'[c] = "received" => /\ fault[c] = "NONE" /\ response'[c] = response[c]
    BY <1>0, <1>3 DEF Receive, HandlerOK, ReceiptAnswer
  <2>3. InputValid(c)
    BY <1>0
  <2>4. InputValid(c)'
    BY <2>2, <2>3 DEF InputValid, InTransaction, InputFault
  <2> QED BY <1>1, <2>1, <2>4
<1>4. ASSUME NEW c \in Calls, NEW retry \in BOOLEAN, ReceiveFails(c, retry)
      PROVE  \A d \in Calls : InputValid(d)'
  <2>1. \A d \in Calls \ {c} : Same(d) /\ response'[d] = response[d]
    BY <1>0, <1>4 DEF ReceiveFails, Answer, Same, HandlerOK
  <2>2. /\ fault'[c] = fault[c] /\ pc[c] = "authenticated"
        /\ pc'[c] \in {"idle", "done"}
        /\ pc'[c] = "idle" => response'[c] = response[c]
    BY <1>0, <1>4 DEF ReceiveFails, HandlerOK
  <2>3. InputValid(c)
    BY <1>0
  <2>4. InputValid(c)'
    BY <2>2, <2>3 DEF InputValid, InTransaction
  <2> QED BY <1>1, <2>1, <2>4
<1>5. ASSUME NEW c \in Calls,
             Begin(c) \/ BeginTooLate(c) \/ LockDevice(c) \/ LockEmployee(c)
               \/ LockCredential(c) \/ Crash(c)
               \/ (\E retry \in BOOLEAN : RollBack(c, retry))
      PROVE  \A d \in Calls : InputValid(d)'
  <2>1. \A d \in Calls \ {c} : Same(d) /\ response'[d] = response[d]
    BY <1>0, <1>5 DEF Begin, BeginTooLate, LockDevice, LockEmployee, LockCredential,
       Crash, RollBack, GoOn, Lock, Unlock, Same, HandlerOK
  <2>2. /\ scan'[c] = scan[c] /\ fault'[c] = fault[c] /\ response'[c] = response[c]
        /\ pc[c] # "done" /\ pc'[c] # "authenticated"
        /\ pc'[c] = "received" \/ InTransaction(c)' => pc[c] = "received" \/ InTransaction(c)
    BY <1>0, <1>5 DEF Begin, BeginTooLate, LockDevice, LockEmployee, LockCredential,
       Crash, RollBack, GoOn, HandlerOK, InTransaction
  <2>3. InputValid(c)
    BY <1>0
  <2>4. InputValid(c)'
    BY <2>2, <2>3 DEF InputValid, InputFault
  <2> QED BY <1>1, <2>1, <2>4
<1>6. ASSUME NEW c \in Calls, NEW heard \in BOOLEAN, Commit(c, heard)
      PROVE  \A d \in Calls : InputValid(d)'
  <2>1. \A d \in Calls \ {c} : Same(d) /\ response'[d] = response[d]
    BY <1>0, <1>6 DEF Commit, Unlock, Same, HandlerOK
  <2>2. /\ fault'[c] = fault[c] /\ pc[c] = "committing"
        /\ \/ pc'[c] = "done"
           \/ pc'[c] = "interrupted" /\ response'[c] = response[c]
    <3>1. fault'[c] = fault[c] /\ pc[c] = "committing"
      BY <1>6 DEF Commit
    <3>2. heard => pc'[c] = "done"
      BY <1>0, <1>6 DEF Commit, HandlerOK
    <3>3. ~heard => pc'[c] = "interrupted" /\ response'[c] = response[c]
      BY <1>0, <1>6 DEF Commit, HandlerOK
    <3> QED BY <3>1, <3>2, <3>3
  <2>3. InputValid(c)
    BY <1>0
  <2>4. InputValid(c)'
    BY <2>2, <2>3 DEF InputValid, InTransaction
  <2> QED BY <1>1, <2>1, <2>4
<1>7. ASSUME NEW c \in Calls, NEW works \in BOOLEAN, MarkInterrupted(c, works)
      PROVE  \A d \in Calls : InputValid(d)'
  <2>1. \A d \in Calls \ {c} : Same(d) /\ response'[d] = response[d]
    BY <1>0, <1>7 DEF MarkInterrupted, Answer, Same, HandlerOK
  <2>2. fault'[c] = fault[c] /\ pc'[c] = "done"
    BY <1>0, <1>7 DEF MarkInterrupted, HandlerOK
  <2>3. InputValid(c)'
    BY <1>0, <2>2 DEF InputValid, InTransaction
  <2> QED BY <1>1, <2>1, <2>3
<1>8. ASSUME UNCHANGED handler
      PROVE  \A d \in Calls : InputValid(d)'
  BY <1>0, <1>8, HandlerSame, ValidSame DEF handler
<1> QED
  BY <1>0, <1>2, <1>3, <1>4, <1>5, <1>6, <1>7, <1>8, OtherStepsFrame, NextCases

(* What ApprovalIsHonest says of one call.                                 *)
Honest(c) ==
  response[c].code = "APPROVED" =>
    \E v \in servings :
      /\ v.call = response[c].serving
      /\ v.request = scan[c].request
      /\ v.payload = PayloadOf(scan[c], v.payload.device)
      /\ ~scan[c].reading => /\ v.authorization = scan[c].authorization
                             /\ v.visitor = scan[c].visitor

LEMMA HonestParts ==
  ApprovalIsHonest <=> \A c \in Calls : Honest(c)
BY DEF ApprovalIsHonest, Honest

LEMMA HonestSame ==
  ASSUME NEW d, Honest(d), response'[d] = response[d], scan'[d] = scan[d],
         servings \subseteq servings'
  PROVE  Honest(d)'
BY DEF Honest, PayloadOf

(* What a call answers when its plan commits.                              *)
LEMMA CommitHonest ==
  ASSUME LedgerInv, NEW c \in Calls, NEW heard \in BOOLEAN, Commit(c, heard),
         response'[c] = ProcessAnswer(c)
  PROVE  Honest(c)'
<1> DEFINE s == scan[c]
           row == [call |-> c, request |-> s.request, payload |-> payload[c],
                   visitor |-> s.visitor,
                   authorization |-> s.authorization, at |-> plan[c].at]
<1>0. /\ ServingInv /\ InTransaction(c) /\ RequestRead(c) /\ RequestsSettled
      /\ s.request \in Requests /\ pc[c] = "committing" /\ Current(c)
      /\ scan'[c] = s
  BY ScanParts, PlanCurrentParts
  DEF LedgerInv, ServingInv, Commit, ReceiptKept, InTransaction
<1>1. PICK x \in Devices \cup {None} : payload[c] = PayloadOf(s, x)
  BY <1>0 DEF ServingInv, ReceiptKept
<1>2. payload[c] = PayloadOf(s, payload[c].device)
  BY <1>1 DEF PayloadOf
<1>3. servings' = IF plan[c].act = "SERVE" THEN servings \cup {row} ELSE servings
  BY <1>0, CommitEffect
<1>4. CASE plan[c].act = "SERVE"
  <2>1. /\ row \in servings' /\ row.call = c /\ row.request = s.request
        /\ row.payload = payload[c] /\ row.visitor = s.visitor
        /\ row.authorization = s.authorization
    BY <1>3, <1>4
  <2>2. response'[c].serving = c
    BY <1>4 DEF ProcessAnswer
  <2> HIDE DEF row
  <2> QED BY <1>0, <1>2, <2>1, <2>2 DEF Honest, PayloadOf
<1>5. CASE plan[c].act = "DUPLICATE"
  <2> DEFINE v == ServingOf(s.request)
  <2>1. \E w \in servings : w.request = s.request
    BY <1>0, <1>5 DEF Current, ServingInv, ServedOnce
  <2>2. v \in servings /\ v.request = s.request
    BY <2>1 DEF ServingOf
  <2>3. v.payload = payload[c]
    BY <1>0, <1>5, <2>2 DEF RequestRead, RequestsSettled
  <2>4. ~s.reading => v.authorization = s.authorization /\ v.visitor = s.visitor
    BY <1>0, <1>5, <2>2 DEF RequestRead
  <2>5. servings' = servings /\ response'[c].serving = v.call
    BY <1>3, <1>5 DEF ProcessAnswer
  <2> HIDE DEF v
  <2> QED BY <1>0, <1>2, <2>2, <2>3, <2>4, <2>5 DEF Honest, PayloadOf
<1>6. CASE plan[c].act \notin {"SERVE", "DUPLICATE"}
  <2>1. plan[c].act \in {"REFUSE", "REJECT", "AWAIT"}
    BY <1>0, <1>6 DEF Current, LedgerInv, ServingInv, TypeOK, HandlerOK, Plans
  <2>2. response'[c].code # "APPROVED"
    BY <1>0, <1>6, <2>1 DEF RequestRead, ProcessAnswer
  <2> QED BY <2>2 DEF Honest
<1> QED BY <1>4, <1>5, <1>6

LEMMA HonestStep ==
  ASSUME LedgerInv, [Next]_vars
  PROVE  ApprovalIsHonest'
<1> USE DEF tables
<1>0. HandlerOK /\ ServingInv /\ \A d \in Calls : Honest(d) /\ InputValid(d)
  BY HonestParts DEF LedgerInv, ServingInv, TypeOK
<1>1. servings \subseteq servings'
  <2>1. \A c \in Calls, heard \in BOOLEAN : Commit(c, heard) =>
          servings \subseteq servings'
    BY DEF Commit, InsertServing
  <2> QED BY <1>0, <2>1, ServingsKeptUnlessCommit
<1>2. ASSUME NEW c \in Calls, Honest(c)',
             \A d \in Calls \ {c} : response'[d] = response[d] /\ scan'[d] = scan[d]
      PROVE  \A d \in Calls : Honest(d)'
  BY <1>0, <1>1, <1>2, HonestSame
<1>3. ASSUME NEW c \in Calls, NEW s \in Scans, Authenticate(c, s)
      PROVE  \A d \in Calls : Honest(d)'
  <2>1. \A d \in Calls \ {c} : response'[d] = response[d] /\ scan'[d] = scan[d]
    BY <1>0, <1>3 DEF Authenticate, HandlerOK
  <2>2. response'[c].code # "APPROVED"
    BY <1>0, <1>3 DEF Authenticate, InputValid
  <2> QED BY <1>2, <2>1, <2>2 DEF Honest
<1>4. ASSUME NEW c \in Calls, NEW code, code # "APPROVED", Answer(c, code, None),
             scan' = scan
      PROVE  \A d \in Calls : Honest(d)'
  <2>1. \A d \in Calls \ {c} : response'[d] = response[d] /\ scan'[d] = scan[d]
    BY <1>0, <1>4 DEF Answer, HandlerOK
  <2>2. response'[c].code # "APPROVED"
    BY <1>0, <1>4 DEF Answer, HandlerOK
  <2> QED BY <1>2, <2>1, <2>2 DEF Honest
<1>5. ASSUME UNCHANGED <<response, scan>>
      PROVE  \A d \in Calls : Honest(d)'
  BY <1>0, <1>1, <1>5, HonestSame
<1>6. ASSUME NEW c \in Calls, NEW heard \in BOOLEAN, Commit(c, heard)
      PROVE  \A d \in Calls : Honest(d)'
  <2>1. CASE heard
    <3>1. /\ response'[c] = ProcessAnswer(c)
          /\ \A d \in Calls \ {c} : response'[d] = response[d] /\ scan'[d] = scan[d]
      BY <1>0, <1>6, <2>1 DEF Commit, HandlerOK
    <3> QED BY <1>2, <1>6, <3>1, CommitHonest
  <2>2. CASE ~heard
    BY <1>5, <1>6, <2>2 DEF Commit
  <2> QED BY <2>1, <2>2
<1>7. ASSUME NEW c \in Calls, NEW heard \in BOOLEAN, Receive(c, heard)
      PROVE  \A d \in Calls : Honest(d)'
  <2>1. ReceiptAnswer(c) # "APPROVED"
    BY <1>0, FaultsAreNotApproved DEF ReceiptAnswer, InputValid
  <2> QED BY <1>4, <1>5, <1>7, <2>1 DEF Receive
<1>8. ASSUME NEW c \in Calls, NEW retry \in BOOLEAN, ReceiveFails(c, retry)
      PROVE  \A d \in Calls : Honest(d)'
  BY <1>4, <1>5, <1>8 DEF ReceiveFails
<1>9. ASSUME NEW c \in Calls, NEW works \in BOOLEAN, MarkInterrupted(c, works)
      PROVE  \A d \in Calls : Honest(d)'
  BY <1>4, <1>9 DEF MarkInterrupted
<1>10. \A d \in Calls : Honest(d)'
  <2>1. \/ \E c \in Calls, s \in Scans : Authenticate(c, s)
        \/ \E c \in Calls, heard \in BOOLEAN : Receive(c, heard) \/ Commit(c, heard)
        \/ \E c \in Calls, retry \in BOOLEAN : ReceiveFails(c, retry)
        \/ \E c \in Calls, works \in BOOLEAN : MarkInterrupted(c, works)
        \/ UNCHANGED <<response, scan>>
    BY <1>0, NextCases DEF Begin, BeginTooLate, LockDevice, LockEmployee,
       LockCredential, RollBack, Crash, Select, Reconcile, Change, Tick, vars, handler
  <2> QED BY <1>3, <1>5, <1>6, <1>7, <1>8, <1>9, <2>1
<1> QED BY <1>10 DEF ApprovalIsHonest, Honest, PayloadOf

-----------------------------------------------------------------------------
(* Allowances                                                              *)

Meals(q, m) == {v \in servings : v.payload.token = q /\ v.payload.mealType = m}

(* What AllowanceExact says of one allocated credential.                   *)
Exact(q) ==
  /\ \A m \in MealTypes :
       used[q][m] = Cardinality(Meals(q, m)) /\ used[q][m] <= Limit[q]
  /\ \E m \in Allowed[q] : used[q][m] = spent[q]
  /\ \A m \in Allowed[q] : used[q][m] >= spent[q]
  /\ q \in closed <=> \A m \in Allowed[q] : used[q][m] = Limit[q]

LEMMA ExactParts ==
  AllowanceExact <=> \A q \in Credentials : Kind[q] = "ALLOCATED" => Exact(q)
BY DEF AllowanceExact, Exact, Meals

LEMMA ExactSame ==
  ASSUME NEW q \in Credentials, Exact(q), used'[q] = used[q], spent'[q] = spent[q],
         q \in closed' <=> q \in closed,
         \A m \in MealTypes : Meals(q, m)' = Meals(q, m)
  PROVE  Exact(q)'
<1>1. \A m \in MealTypes : Cardinality(Meals(q, m))' = Cardinality(Meals(q, m))
  BY Zenon
<1> QED BY <1>1 DEF Exact

(* A serving is new: its call had recorded nothing before.                 *)
LEMMA ServingIsNew ==
  ASSUME LedgerInv, NEW c \in Calls, NEW heard \in BOOLEAN, Commit(c, heard)
  PROVE  \A v \in servings : v.call # c
<1>1. attempt[c].outcome = "RECEIVED"
  BY CommitEffect DEF LedgerInv
<1> QED BY <1>1 DEF LedgerInv, ServingInv, RowsLinked

(* One more meal of the allowance is used up, and no other count moves.    *)
LEMMA CommitMeals ==
  ASSUME LedgerInv, NEW c \in Calls, NEW heard \in BOOLEAN, Commit(c, heard),
         NEW q \in Credentials, NEW m \in MealTypes
  PROVE  IF plan[c].act = "SERVE" /\ scan[c].token = q /\ scan[c].mealType = m
           THEN Cardinality(Meals(q, m)') = Cardinality(Meals(q, m)) + 1
           ELSE Meals(q, m)' = Meals(q, m)
<1> DEFINE row == [call |-> c, request |-> scan[c].request, payload |-> payload[c],
                   visitor |-> scan[c].visitor,
                   authorization |-> scan[c].authorization, at |-> plan[c].at]
<1>1. /\ servings' = IF plan[c].act = "SERVE" THEN servings \cup {row} ELSE servings
      /\ row.call = c /\ row.payload = payload[c]
  BY CommitEffect DEF LedgerInv
<1>2. payload[c].token = scan[c].token /\ payload[c].mealType = scan[c].mealType
  BY CommittedPayload DEF LedgerInv, Commit
<1> HIDE DEF row
<1>3. CASE plan[c].act = "SERVE" /\ scan[c].token = q /\ scan[c].mealType = m
  <2>1. Meals(q, m)' = Meals(q, m) \cup {row}
    BY <1>1, <1>2, <1>3 DEF Meals
  <2>2. row \notin Meals(q, m)
    BY <1>1, ServingIsNew DEF Meals
  <2>3. IsFiniteSet(Meals(q, m))
    BY FS_Subset DEF Meals, LedgerInv
  <2>4. Cardinality(Meals(q, m) \cup {row}) = Cardinality(Meals(q, m)) + 1
    BY <2>2, <2>3, FS_AddElement
  <2> QED BY <1>3, <2>1, <2>4
<1>4. CASE ~(plan[c].act = "SERVE" /\ scan[c].token = q /\ scan[c].mealType = m)
  <2>1. Meals(q, m)' = Meals(q, m)
    BY <1>1, <1>2, <1>4 DEF Meals
  <2> QED BY <1>4, <2>1
<1> QED BY <1>3, <1>4

LEMMA CommitExact ==
  ASSUME LedgerInv, NEW c \in Calls, NEW heard \in BOOLEAN, Commit(c, heard),
         NEW q \in Credentials, NEW m \in MealTypes,
         q = scan[c].token, m = scan[c].mealType,
         plan[c].act = "SERVE", Kind[q] = "ALLOCATED"
  PROVE  Exact(q)'
<1>1. /\ m \in Allowed[q] /\ used[q][m] < Limit[q]
      /\ used \in [Credentials -> [MealTypes -> Nat]]
      /\ spent \in [Credentials -> Nat]
  <2>1. InTransaction(c) /\ CheckedUnderLock(c) /\ TablesOK
    BY DEF LedgerInv, ServingInv, TypeOK, Commit, InTransaction
  <2> QED BY <2>1 DEF CheckedUnderLock, CredentialHeld, TablesOK
<1>2. Exact(q) /\ Limit[q] \in Nat /\ Allowed[q] \subseteq MealTypes
  BY <1>1, ExactParts, ServingAssumption DEF LedgerInv
<1>3. \A k \in MealTypes : used'[q][k] = IF k = m THEN used[q][k] + 1 ELSE used[q][k]
  BY <1>1 DEF Commit, UseAllowance
<1>4. PICK n \in Allowed[q] :
        /\ \A k \in Allowed[q] : used'[q][n] <= used'[q][k]
        /\ spent' = [spent EXCEPT ![q] = used'[q][n]]
        /\ closed' = IF used'[q][n] = Limit[q] THEN closed \cup {q} ELSE closed
  BY DEF Commit, UseAllowance, LeastUsed
<1>5. spent'[q] = used'[q][n]
  BY <1>1, <1>4
<1>6. ASSUME NEW k \in MealTypes
      PROVE  used'[q][k] = Cardinality(Meals(q, k)') /\ used'[q][k] <= Limit[q]
  <2>1. used[q][k] = Cardinality(Meals(q, k)) /\ used[q][k] <= Limit[q]
          /\ used[q][k] \in Nat
    BY <1>1, <1>2 DEF Exact
  <2>2. CASE k = m
    <3>1. Cardinality(Meals(q, k)') = Cardinality(Meals(q, k)) + 1
      BY <1>1, <2>2, CommitMeals
    <3> QED BY <1>1, <1>2, <1>3, <2>1, <2>2, <3>1
  <2>3. CASE k # m
    <3>1. Meals(q, k)' = Meals(q, k)
      BY <1>1, <2>3, CommitMeals
    <3> QED BY <1>3, <2>1, <2>3, <3>1
  <2> QED BY <2>2, <2>3
<1>7. \A k \in Allowed[q] : used'[q][k] >= spent'[q]
  BY <1>1, <1>2, <1>3, <1>4, <1>5
<1>8. q \notin closed
  BY <1>1, <1>2 DEF Exact
<1>9. q \in closed' <=> used'[q][n] = Limit[q]
  BY <1>4, <1>8
<1>10. used'[q][n] = Limit[q] <=> \A k \in Allowed[q] : used'[q][k] = Limit[q]
  <2>1. \A k \in Allowed[q] : used'[q][k] \in Nat /\ used'[q][k] <= Limit[q]
    BY <1>1, <1>2, <1>3, <1>6
  <2> QED BY <1>2, <1>4, <2>1
<1> QED BY <1>1, <1>4, <1>5, <1>6, <1>7, <1>9, <1>10 DEF Exact

LEMMA ExactStep ==
  ASSUME LedgerInv, [Next]_vars
  PROVE  AllowanceExact'
<1> USE DEF tables
<1>0. HandlerOK /\ TablesOK
  BY DEF LedgerInv, ServingInv, TypeOK
<1> SUFFICES ASSUME NEW q \in Credentials, Kind[q] = "ALLOCATED" PROVE Exact(q)'
  BY DEF AllowanceExact, Exact, Meals
<1>1. Exact(q)
  BY ExactParts DEF LedgerInv
<1>2. ASSUME NEW c \in Calls, NEW heard \in BOOLEAN, Commit(c, heard)
      PROVE  Exact(q)'
  <2>1. CASE plan[c].act = "SERVE" /\ scan[c].token = q
    <3>1. scan[c].mealType \in MealTypes
      BY <1>2, ScanParts DEF LedgerInv, ServingInv, Commit, ReceiptKept
    <3> QED BY <1>2, <2>1, <3>1, CommitExact
  <2>2. CASE ~(plan[c].act = "SERVE" /\ scan[c].token = q)
    <3>1. \A m \in MealTypes : Meals(q, m)' = Meals(q, m)
      BY <1>2, <2>2, CommitMeals
    <3>2. used'[q] = used[q] /\ spent'[q] = spent[q] /\ (q \in closed' <=> q \in closed)
      <4>1. CASE plan[c].act = "SERVE" /\ Kind[scan[c].token] = "ALLOCATED"
        <5>1. /\ used' = [used EXCEPT ![scan[c].token][scan[c].mealType] = @ + 1]
              /\ \E n \in Allowed[scan[c].token] :
                   /\ spent' = [spent EXCEPT ![scan[c].token] = used'[scan[c].token][n]]
                   /\ closed' = IF used'[scan[c].token][n] = Limit[scan[c].token]
                                  THEN closed \cup {scan[c].token} ELSE closed
          BY <1>2, <4>1 DEF Commit, UseAllowance
        <5> QED BY <1>0, <2>2, <4>1, <5>1 DEF TablesOK
      <4>2. CASE ~(plan[c].act = "SERVE" /\ Kind[scan[c].token] = "ALLOCATED")
        BY <1>2, <4>2 DEF Commit, UseAllowance
      <4> QED BY <4>1, <4>2
    <3> QED BY <1>1, <3>1, <3>2, ExactSame
  <2> QED BY <2>1, <2>2
<1>3. ASSUME UNCHANGED <<servings, used, spent, closed>>
      PROVE  Exact(q)'
  <2>1. \A m \in MealTypes : Meals(q, m)' = Meals(q, m)
    BY <1>3 DEF Meals
  <2> QED BY <1>1, <1>3, <2>1, ExactSame
<1>4. \/ \E c \in Calls, heard \in BOOLEAN : Commit(c, heard)
      \/ UNCHANGED <<servings, used, spent, closed>>
  BY <1>0, NextCases, ChangeCases DEF Authenticate, Receive, ReceiveFails, Begin,
     BeginTooLate, LockDevice, LockEmployee, LockCredential, RollBack,
     MarkInterrupted, Crash, Select, Reconcile, Authorize, RevokeAuthorization,
     Tick, vars
<1> QED BY <1>2, <1>3, <1>4

-----------------------------------------------------------------------------
(* Authorizations                                                          *)

(* Nobody prepares an authorization for a request that has been served.    *)
LEMMA PreparedKept ==
  ASSUME LedgerInv, [Next]_vars, NEW r \in Requests, request[r].status = "SUCCEEDED"
  PROVE  /\ request'[r].prepared.scope = request[r].prepared.scope
         /\ request'[r].prepared.state # "NONE" => request[r].prepared.state # "NONE"
<1> USE DEF tables
<1>0. HandlerOK /\ request \in [Requests -> RequestRows]
  BY DEF LedgerInv, ServingInv, TypeOK, TablesOK
<1>1. ASSUME NEW c \in Calls, NEW heard \in BOOLEAN, Receive(c, heard)
      PROVE  request'[r] = request[r]
  BY <1>0, <1>1 DEF Receive, RejectReceipt, WriteReceipt, Reserve
<1>2. ASSUME NEW c \in Calls, NEW heard \in BOOLEAN, Commit(c, heard)
      PROVE  request'[r].prepared = request[r].prepared
  <2>1. CASE r = scan[c].request
    BY <1>2, <2>1, CommitRow
  <2>2. CASE r # scan[c].request
    <3>1. request'[r] = request[r]
      BY <1>2, <2>2, CommitEffect DEF LedgerInv
    <3> QED BY <3>1
  <2> QED BY <2>1, <2>2
<1>3. ASSUME NEW x \in Requests, NEW s \in Scans, Authorize(x, s)
      PROVE  request'[r] = request[r]
  BY <1>0, <1>3 DEF Authorize
<1>4. ASSUME NEW x \in Requests, RevokeAuthorization(x)
      PROVE  /\ request'[r].prepared.scope = request[r].prepared.scope
             /\ request'[r].prepared.state # "NONE" => request[r].prepared.state # "NONE"
  BY <1>0, <1>4 DEF RevokeAuthorization, RequestRows
<1>5. \/ \E c \in Calls, heard \in BOOLEAN : Receive(c, heard) \/ Commit(c, heard)
      \/ Change
      \/ request' = request
  BY <1>0, NextCases DEF Authenticate, ReceiveFails, Begin, BeginTooLate, LockDevice,
     LockEmployee, LockCredential, RollBack, MarkInterrupted, Crash, Select,
     Reconcile, Tick, vars
<1> QED BY <1>1, <1>2, <1>3, <1>4, <1>5, ChangeCases

(* What AuthorizedScope says of one serving.                               *)
Scoped(v) ==
  /\ request[v.request].prepared.state # "NONE" => v.authorization = v.request
  /\ v.authorization # None => /\ v.authorization = v.request
                               /\ v.payload = request[v.request].prepared.scope

LEMMA ScopedParts ==
  AuthorizedScope <=> \A v \in servings : Scoped(v)
BY DEF AuthorizedScope, Scoped

LEMMA CommitScoped ==
  ASSUME LedgerInv, NEW c \in Calls, NEW heard \in BOOLEAN, Commit(c, heard),
         plan[c].act = "SERVE", NEW v, v.request = scan[c].request,
         v.payload = payload[c], v.authorization = scan[c].authorization
  PROVE  Scoped(v)'
<1> DEFINE s == scan[c]
<1>1. /\ s.request \in Requests /\ RequestRead(c) /\ CredentialHeld(c)
      /\ RequestsSettled
  BY ScanParts DEF LedgerInv, ServingInv, Commit, ReceiptKept, InTransaction,
     CheckedUnderLock
<1>2. request'[s.request].prepared = request[s.request].prepared
  BY CommitRow
<1>3. /\ request[s.request].prepared.state # "NONE" => s.authorization = s.request
      /\ request[s.request].payload = payload[c]
  BY <1>1 DEF RequestRead
<1>4. s.authorization # None =>
        s.authorization = s.request /\ request[s.request].prepared.state = "VALID"
  BY <1>1 DEF CredentialHeld
<1>5. request[s.request].prepared.state # "NONE" =>
        request[s.request].prepared.scope = request[s.request].payload
  BY <1>1 DEF RequestsSettled
<1> QED BY <1>2, <1>3, <1>4, <1>5 DEF Scoped

LEMMA ScopeStep ==
  ASSUME LedgerInv, [Next]_vars
  PROVE  AuthorizedScope'
<1>1. ASSUME NEW v \in servings
      PROVE  Scoped(v)'
  <2>1. v.request \in Requests /\ request[v.request].status = "SUCCEEDED"
    BY DEF LedgerInv, ServingInv, TypeOK, TablesOK, ServingRows, ServedOnce
  <2>2. Scoped(v)
    BY ScopedParts DEF LedgerInv
  <2> QED BY <2>1, <2>2, PreparedKept DEF Scoped
<1>2. ASSUME NEW v \in servings', v \notin servings
      PROVE  Scoped(v)'
  <2>1. PICK c \in Calls, heard \in BOOLEAN : Commit(c, heard)
    BY <1>2, ServingsKeptUnlessCommit DEF LedgerInv
  <2>2. /\ plan[c].act = "SERVE" /\ v.request = scan[c].request
        /\ v.payload = payload[c] /\ v.authorization = scan[c].authorization
    BY <1>2, <2>1 DEF Commit, InsertServing
  <2> QED BY <2>1, <2>2, CommitScoped
<1>3. \A v \in servings' : Scoped(v)'
  BY <1>1, <1>2
<1> QED BY <1>3 DEF AuthorizedScope, Scoped

-----------------------------------------------------------------------------
(* The theorems                                                            *)

LEMMA FiniteStep ==
  ASSUME LedgerInv, [Next]_vars
  PROVE  IsFiniteSet(servings')
<1>1. CASE servings' = servings
  BY <1>1 DEF LedgerInv
<1>2. ASSUME NEW c \in Calls, NEW heard \in BOOLEAN, Commit(c, heard)
      PROVE  IsFiniteSet(servings')
  <2>1. PICK row : servings' = servings \cup {row} \/ servings' = servings
    BY <1>2 DEF Commit, InsertServing
  <2> QED BY <2>1, FS_AddElement DEF LedgerInv
<1> QED BY <1>1, <1>2, ServingsKeptUnlessCommit DEF LedgerInv

LEMMA InitLedgerInv == Init => LedgerInv
<1> SUFFICES ASSUME Init PROVE LedgerInv
  OBVIOUS
<1>1. ServingInv
  BY InitInv
<1>2. None # "APPROVED"
  BY NullAssumption DEF Codes
<1>3. RequestsSettled
  BY <1>2 DEF Init, RequestsSettled, NoRequest, NoAuthorization, Final
<1>4. \A c \in Calls : InputValid(c) /\ ~InTransaction(c) /\ response[c].code = None
  BY <1>2 DEF Init, InputValid, InTransaction, NoResponse
<1>5. IsFiniteSet(servings)
  BY FS_EmptySet DEF Init
<1>6. ApprovalIsHonest
  BY <1>2, <1>4 DEF ApprovalIsHonest
<1>7. AllowanceExact
  <2> SUFFICES ASSUME NEW q \in Credentials, Kind[q] = "ALLOCATED" PROVE Exact(q)
    BY ExactParts
  <2>1. /\ \A m \in MealTypes : used[q][m] = 0
        /\ spent[q] = 0 /\ closed = {}
    BY DEF Init
  <2>2. \A m \in MealTypes : Meals(q, m) = {}
    BY DEF Init, Meals
  <2>3. Limit[q] \in Nat \ {0} /\ Allowed[q] \subseteq MealTypes /\ Allowed[q] # {}
    BY ServingAssumption
  <2> QED BY <2>1, <2>2, <2>3, FS_EmptySet DEF Exact
<1>8. AuthorizedScope
  BY DEF Init, AuthorizedScope
<1> QED BY <1>1, <1>3, <1>4, <1>5, <1>6, <1>7, <1>8 DEF LedgerInv

(* LedgerInv is inductive.                                                 *)
THEOREM LedgerInductive == Spec => []LedgerInv
<1>1. LedgerInv /\ [Next]_vars => LedgerInv'
  <2> SUFFICES ASSUME LedgerInv, [Next]_vars PROVE LedgerInv'
    OBVIOUS
  <2>1. ServingInv'
    BY TypeStep, LockStep, ReceiptStep, PlanStep, RowsStep, ServedStep, WindowStep
    DEF LedgerInv, ServingInv
  <2>2. /\ RequestsSettled' /\ \A c \in Calls : InputValid(c)'
        /\ TransactionsSound' /\ IsFiniteSet(servings')
    BY SettledStep, ValidStep, TransactionsStep, FiniteStep
  <2>3. ApprovalIsHonest' /\ AllowanceExact' /\ AuthorizedScope'
    BY HonestStep, ExactStep, ScopeStep
  <2> QED BY <2>1, <2>2, <2>3 DEF LedgerInv, TransactionsSound
<1> QED BY InitLedgerInv, <1>1, PTL DEF Spec

(* Whatever a client hears as APPROVED names a serving of its own request, *)
(* made with the input of its own scan.                                    *)
THEOREM ApprovalsHonest == Spec => []ApprovalIsHonest
<1>1. LedgerInv => ApprovalIsHonest
  BY DEF LedgerInv
<1> QED BY LedgerInductive, <1>1, PTL

(* The counters of every allowance count its servings and stay in limits.  *)
THEOREM AllowancesExact == Spec => []AllowanceExact
<1>1. LedgerInv => AllowanceExact
  BY DEF LedgerInv
<1> QED BY LedgerInductive, <1>1, PTL

(* An authorized request is served under its own authorization and in the  *)
(* scope the administrator approved, or not at all.                        *)
THEOREM AuthorizationsScoped == Spec => []AuthorizedScope
<1>1. LedgerInv => AuthorizedScope
  BY DEF LedgerInv
<1> QED BY LedgerInductive, <1>1, PTL

(* What ServedUnderLock says of one new serving.                           *)
UnderLock(v) ==
  LET p == v.payload
  IN /\ p.token \notin revoked
     /\ p.staff \in actors /\ p.device \in online
     /\ p.mealType \in offered
     /\ OfEmployee(p.token) => /\ Owner[p.token] \in active
                               /\ p.mealType \in eligible[Owner[p.token]]
     /\ v.authorization # None =>
          request[v.authorization].prepared.state = "VALID"

LEMMA CommitUnderLock ==
  ASSUME LedgerInv, [Next]_vars, NEW v \in servings' \ servings
  PROVE  UnderLock(v)
<1>1. PICK c \in Calls, heard \in BOOLEAN : Commit(c, heard)
  BY ServingsKeptUnlessCommit DEF LedgerInv
<1>2. /\ plan[c].act = "SERVE" /\ v.payload = payload[c]
      /\ v.authorization = scan[c].authorization
  BY <1>1 DEF Commit, InsertServing
<1>3. InTransaction(c) /\ RequestRead(c) /\ CheckedUnderLock(c)
  BY <1>1 DEF LedgerInv, Commit, InTransaction
<1>4. PICK d \in Devices \cup {None} : payload[c] = PayloadOf(scan[c], d)
  BY <1>3 DEF LedgerInv, ServingInv, ReceiptKept
<1>5. /\ v.payload.token = scan[c].token /\ v.payload.staff = scan[c].staff
      /\ v.payload.mealType = scan[c].mealType
  BY <1>2, <1>4 DEF PayloadOf
<1>6. scan[c].staff \in actors
  BY <1>2, <1>3 DEF RequestRead
<1>7. /\ ScannerHeld(c) /\ CredentialHeld(c)
      /\ OfEmployee(scan[c].token) => Owner[scan[c].token] \in active
  BY <1>2, <1>3 DEF CheckedUnderLock
<1> QED BY <1>2, <1>5, <1>6, <1>7 DEF ScannerHeld, CredentialHeld, UnderLock

(* What was checked several steps earlier is still true at the commit.     *)
THEOREM ServingsUnderLock == Spec => ServedUnderLock
<1>1. LedgerInv /\ [Next]_vars => [\A v \in servings' \ servings : UnderLock(v)]_vars
  BY CommitUnderLock
<1> QED BY LedgerInductive, <1>1, PTL DEF Spec, ServedUnderLock, UnderLock

-----------------------------------------------------------------------------
(* The scan core implements MealLedger                                     *)

(* The ledger that a state of the scan core stands for.                    *)
Verdict(r) == IF request[r].status = "SUCCEEDED" THEN "SERVED"
              ELSE IF request[r].status = "REJECTED" THEN "REFUSED" ELSE "OPEN"

Entry(v) == [request |-> v.request, token |-> v.payload.token,
             mealType |-> v.payload.mealType, at |-> v.at]

Verdicts == [r \in Requests |-> Verdict(r)]
Entries == {Entry(v) : v \in servings}

LEMMA EntryFields ==
  ASSUME NEW v
  PROVE  /\ Entry(v).request = v.request /\ Entry(v).token = v.payload.token
         /\ Entry(v).mealType = v.payload.mealType /\ Entry(v).at = v.at
BY DEF Entry

(* No more entries of a kind than servings.                                *)
LEMMA EntriesCounted ==
  ASSUME IsFiniteSet(servings), NEW q, NEW m
  PROVE  LET T == {e \in Entries : e.token = q /\ e.mealType = m}
         IN Cardinality(T) \in Nat /\ Cardinality(T) <= Cardinality(Meals(q, m))
<1> DEFINE S == Meals(q, m)
           T == {e \in Entries : e.token = q /\ e.mealType = m}
           f == [v \in S |-> Entry(v)]
<1>1. IsFiniteSet(S)
  BY FS_Subset DEF Meals
<1>2. ASSUME NEW v \in S PROVE Entry(v) \in T
  BY EntryFields DEF Meals, Entries
<1>3. ASSUME NEW e \in T PROVE \E v \in S : Entry(v) = e
  <2>1. PICK v \in servings : e = Entry(v)
    BY DEF Entries
  <2>2. v \in S
    BY <2>1, EntryFields DEF Meals
  <2> QED BY <2>1, <2>2
<1>4. f \in Surjection(S, T)
  <2>1. f \in [S -> T]
    BY <1>2
  <2>2. ASSUME NEW e \in T PROVE \E v \in S : f[v] = e
    BY <1>3
  <2> HIDE DEF f, S, T
  <2> QED BY <2>1, <2>2 DEF Surjection
<1> HIDE DEF S, T, f
<1>5. Cardinality(T) \in Nat /\ Cardinality(T) <= Cardinality(S)
  BY <1>1, <1>4, FS_Surjection, FS_CardinalityType
<1> QED BY <1>5 DEF S, T

LEMMA LedgerCardinality ==
  ASSUME NEW S
  PROVE  Ledger!Cardinality(S) = Cardinality(S)
BY DEF Ledger!Cardinality, Cardinality

(* What the plan of a committing call says, the ledger says too.           *)
LEMMA CommitAdmitted ==
  ASSUME LedgerInv, NEW c \in Calls, NEW heard \in BOOLEAN, Commit(c, heard),
         plan[c].act = "SERVE"
  PROVE  /\ scan[c].token \in Credentials /\ scan[c].mealType \in MealTypes
         /\ plan[c].at \in 0..clock
         /\ Ledger!Admits(scan[c].token, scan[c].mealType, plan[c].at)
<1> DEFINE q == scan[c].token
           m == scan[c].mealType
           t == plan[c].at
<1>0. /\ InTransaction(c) /\ Current(c) /\ CredentialHeld(c) /\ TablesOK
      /\ clock \in Nat /\ t \in Nat /\ scan[c] \in Scans
  BY PlanCurrentParts DEF LedgerInv, ServingInv, TypeOK, HandlerOK, Plans, Commit,
     InTransaction, CheckedUnderLock, ReceiptKept
<1>1. /\ q \in Credentials /\ m \in MealTypes /\ t <= clock
      /\ OfEmployee(q) =>
           \A v \in servings : Rivals(c, v) => v.at + LockTime <= t
  BY <1>0, ScanParts DEF Current
<1>2. ASSUME OfEmployee(q), Owner[q] # None, NEW e \in Entries,
             (IF OfEmployee(e.token) THEN Owner[e.token] ELSE None) = Owner[q],
             e.mealType = m
      PROVE  t >= e.at + LockTime
  <2>1. PICK v \in servings : e = Entry(v)
    BY DEF Entries
  <2>2. Rivals(c, v)
    BY <1>2, <2>1, EntryFields DEF Rivals
  <2>3. v.at \in Nat /\ LockTime \in Nat
    BY <1>0, ServingAssumption DEF TablesOK, ServingRows
  <2> QED BY <1>0, <1>1, <1>2, <2>1, <2>2, <2>3, EntryFields
<1>3. ASSUME Kind[q] = "ALLOCATED"
      PROVE  Cardinality({e \in Entries : e.token = q /\ e.mealType = m}) < Limit[q]
  <2>1. used[q][m] < Limit[q] /\ used[q][m] = Cardinality(Meals(q, m))
    BY <1>0, <1>1, <1>3, ExactParts DEF CredentialHeld, LedgerInv, Exact
  <2>2. used[q][m] \in Nat /\ Limit[q] \in Nat
    BY <1>0, <1>1, ServingAssumption DEF TablesOK
  <2> DEFINE T == {e \in Entries : e.token = q /\ e.mealType = m}
  <2>3. Cardinality(T) \in Nat /\ Cardinality(T) <= Cardinality(Meals(q, m))
    BY EntriesCounted DEF LedgerInv
  <2> QED BY <2>1, <2>2, <2>3
<1> HIDE DEF q, m, t
<1>4. Ledger!Admits(q, m, t)
  BY <1>1, <1>2, <1>3, LedgerCardinality DEF Ledger!Admits, Entries, Entry
<1> QED BY <1>0, <1>1, <1>4 DEF q, m, t

(* A committed serving is one entry of the ledger.                         *)
LEMMA CommitServes ==
  ASSUME LedgerInv, NEW c \in Calls, NEW heard \in BOOLEAN, Commit(c, heard),
         plan[c].act = "SERVE"
  PROVE  \E r \in Requests : Ledger!Serve(r)
<1> DEFINE q == scan[c].token
           m == scan[c].mealType
           t == plan[c].at
           row == [call |-> c, request |-> scan[c].request, payload |-> payload[c],
                   visitor |-> scan[c].visitor,
                   authorization |-> scan[c].authorization, at |-> plan[c].at]
<1>0. PICK r \in Requests : r = scan[c].request
  BY CommitEffect DEF LedgerInv
<1>1. /\ servings' = servings \cup {row} /\ request[r].status = "PENDING"
      /\ request'[r].status = "SUCCEEDED"
      /\ \A x \in Requests \ {r} : request'[x] = request[x]
      /\ clock' = clock
  BY <1>0, CommitEffect DEF LedgerInv, Commit
<1>2. payload[c].token = q /\ payload[c].mealType = m
  BY CommittedPayload DEF LedgerInv, Commit
<1>3. Entry(row) = [request |-> r, token |-> q, mealType |-> m, at |-> t]
  BY <1>0, <1>2 DEF Entry
<1> HIDE DEF row
<1>4. Entries' = Entries \cup {[request |-> r, token |-> q, mealType |-> m, at |-> t]}
  <2>1. Entries' = Entries \cup {Entry(row)}
    BY <1>1 DEF Entries, Entry
  <2> QED BY <1>3, <2>1
<1>5. Verdicts[r] = "OPEN" /\ Verdicts' = [Verdicts EXCEPT ![r] = "SERVED"]
  BY <1>1 DEF Verdicts, Verdict
<1>6. q \in Credentials /\ m \in MealTypes /\ t \in 0..clock /\ Ledger!Admits(q, m, t)
  BY CommitAdmitted
<1> HIDE DEF q, m, t
<1>7. \E x \in Credentials, y \in MealTypes, z \in 0..clock :
        /\ Ledger!Admits(x, y, z)
        /\ Entries' = Entries \cup {[request |-> r, token |-> x, mealType |-> y,
                                     at |-> z]}
  BY <1>4, <1>6
<1>8. Ledger!Serve(r)
  BY <1>1, <1>5, <1>7 DEF Ledger!Serve, Entries, Entry, Verdicts, Verdict
<1> QED BY <1>8

(* A committed refusal decides its request.                                *)
LEMMA CommitRefuses ==
  ASSUME LedgerInv, NEW c \in Calls, NEW heard \in BOOLEAN, Commit(c, heard),
         plan[c].act = "REFUSE"
  PROVE  \E r \in Requests : Ledger!Refuse(r)
<1>0. PICK r \in Requests : r = scan[c].request
  BY CommitEffect DEF LedgerInv
<1>1. /\ servings' = servings /\ request[r].status = "PENDING"
      /\ request'[r].status = "REJECTED"
      /\ \A x \in Requests \ {r} : request'[x] = request[x]
      /\ clock' = clock
  BY <1>0, CommitEffect DEF LedgerInv, Commit
<1>2. Verdicts[r] = "OPEN" /\ Verdicts' = [Verdicts EXCEPT ![r] = "REFUSED"]
  BY <1>1 DEF Verdicts, Verdict
<1>3. Entries' = Entries
  BY <1>1 DEF Entries
<1>4. Ledger!Refuse(r)
  BY <1>1, <1>2, <1>3 DEF Ledger!Refuse, Entries, Entry, Verdicts, Verdict
<1> QED BY <1>4

(* Every step of the scan core is a step of the ledger or none.            *)
LEMMA LedgerStep ==
  ASSUME LedgerInv, [Next]_vars
  PROVE  [Ledger!LedgerNext]_(Ledger!ledgerVars)
<1>0. HandlerOK
  BY DEF LedgerInv, ServingInv, TypeOK
<1>1. ASSUME Verdicts' = Verdicts, Entries' = Entries, clock' = clock
      PROVE  UNCHANGED Ledger!ledgerVars
  BY <1>1 DEF Ledger!ledgerVars, Verdicts, Verdict, Entries, Entry
<1>2. ASSUME NEW c \in Calls, NEW heard \in BOOLEAN, Commit(c, heard)
      PROVE  Ledger!LedgerNext \/ UNCHANGED Ledger!ledgerVars
  <2>1. CASE plan[c].act \in {"SERVE", "REFUSE"}
    BY <1>2, <2>1, CommitServes, CommitRefuses DEF Ledger!LedgerNext
  <2>2. CASE plan[c].act \notin {"SERVE", "REFUSE"}
    <3>1. /\ servings' = servings /\ clock' = clock
          /\ \A r \in Requests : request'[r].status = request[r].status
      BY <1>2, <2>2, CommitEffect DEF LedgerInv, Commit
    <3>2. Verdicts' = Verdicts /\ Entries' = Entries
      BY <3>1 DEF Verdicts, Verdict, Entries
    <3> QED BY <1>1, <3>1, <3>2
  <2> QED BY <2>1, <2>2
<1>3. ASSUME ~\E c \in Calls, heard \in BOOLEAN : Commit(c, heard)
      PROVE  Ledger!LedgerNext \/ UNCHANGED Ledger!ledgerVars
  <2>1. servings' = servings /\ StatusKept
    BY <1>3, ServingsKeptUnlessCommit, StatusKeptUnlessCommit DEF LedgerInv
  <2>2. Verdicts' = Verdicts /\ Entries' = Entries
    <3>1. \A r \in Requests : Verdict(r)' = Verdict(r)
      BY <2>1 DEF StatusKept, Verdict
    <3> QED BY <2>1, <3>1 DEF Verdicts, Entries
  <2>3. CASE Tick
    <3>1. clock' = clock + 1
      BY <2>3 DEF Tick
    <3>2. Ledger!Pass
      BY <2>2, <3>1 DEF Ledger!Pass, Verdicts, Verdict, Entries, Entry
    <3> QED BY <3>2 DEF Ledger!LedgerNext
  <2>4. CASE clock' = clock
    BY <1>1, <2>2, <2>4
  <2>5. Tick \/ clock' = clock
    BY <1>0, NextCases DEF Authenticate, Receive, ReceiveFails, Begin,
       BeginTooLate, LockDevice, LockEmployee, LockCredential, Commit, RollBack,
       MarkInterrupted, Crash, Select, Reconcile, Change, vars
  <2> QED BY <2>3, <2>4, <2>5
<1> QED BY <1>2, <1>3

LEMMA LedgerInitial == Init => Ledger!LedgerInit
BY DEF Init, NoRequest, Ledger!LedgerInit

(* Whatever calls, retries, crashes and administrators do, what they leave *)
(* behind could have been entered one meal at a time by somebody who       *)
(* checks the lock window and the allowance as the meal is entered.        *)
THEOREM LedgerImplemented == Spec => ImplementsLedger
<1>1. LedgerInv /\ [Next]_vars => [Ledger!LedgerNext]_(Ledger!ledgerVars)
  BY LedgerStep
<1> QED BY LedgerInitial, LedgerInductive, <1>1, PTL
        DEF Spec, ImplementsLedger, Ledger!LedgerSpec
=============================================================================
