--------------------------- MODULE ServingProofs ---------------------------
(***************************************************************************)
(* Proofs about Serving for any number of calls, requests, credentials and *)
(* employees, any lock window and any number of retries.  ServingInv is    *)
(* inductive; its parts are proved preserved one after the other.          *)
(***************************************************************************)
EXTENDS ServingInvariant, TLAPS

(* What a step of an administrator, a reconciliation or the clock leaves   *)
(* alone.                                                                  *)
OtherChange ==
  /\ \/ \E q \in Credentials : RevokeCredential(q)
     \/ \E e \in Employees : SetEmployeeActive(e)
     \/ \E e \in Employees, types \in SUBSET MealTypes : SetMealTypes(e, types)
     \/ \E d \in Devices, code \in ScannerCodes : RenameScanner(d, code)
     \/ \E d \in Devices : SetScannerActive(d)
     \/ \E m \in MealTypes : SetMealTypeActive(m)
     \/ \E st \in Staff : DeactivateStaff(st)

LEMMA OtherChangeFrame ==
  ASSUME OtherChange
  PROVE  UNCHANGED tables
<1>1. CASE \E q \in Credentials : RevokeCredential(q)
  BY <1>1 DEF RevokeCredential
<1>2. CASE \E e \in Employees : SetEmployeeActive(e)
  BY <1>2 DEF SetEmployeeActive
<1>3. CASE \E e \in Employees, types \in SUBSET MealTypes : SetMealTypes(e, types)
  BY <1>3 DEF SetMealTypes
<1>4. CASE \E d \in Devices, code \in ScannerCodes : RenameScanner(d, code)
  BY <1>4 DEF RenameScanner
<1>5. CASE \E d \in Devices : SetScannerActive(d)
  BY <1>5 DEF SetScannerActive
<1>6. CASE \E m \in MealTypes : SetMealTypeActive(m)
  BY <1>6 DEF SetMealTypeActive
<1>7. CASE \E st \in Staff : DeactivateStaff(st)
  BY <1>7 DEF DeactivateStaff
<1> QED BY <1>1, <1>2, <1>3, <1>4, <1>5, <1>6, <1>7 DEF OtherChange

(* A change by an administrator reaches no handler; it touches the tables  *)
(* only to prepare or revoke an authorization.                             *)
LEMMA ChangeCases ==
  ASSUME Change
  PROVE  /\ UNCHANGED <<handler, candidates, clock>>
         /\ \/ \E r \in Requests, s \in Scans : Authorize(r, s)
            \/ \E r \in Requests : RevokeAuthorization(r)
            \/ UNCHANGED tables
BY OtherChangeFrame DEF Change, OtherChange

(* The steps of the specification, one by one.                             *)
LEMMA NextCases ==
  ASSUME HandlerOK, [Next]_vars
  PROVE  \/ \E c \in Calls, s \in Scans : Authenticate(c, s)
         \/ \E c \in Calls, heard \in BOOLEAN : Receive(c, heard)
         \/ \E c \in Calls, retry \in BOOLEAN : ReceiveFails(c, retry)
         \/ \E c \in Calls : Begin(c)
         \/ \E c \in Calls : BeginTooLate(c)
         \/ \E c \in Calls : LockDevice(c)
         \/ \E c \in Calls : LockEmployee(c)
         \/ \E c \in Calls : LockCredential(c)
         \/ \E c \in Calls, heard \in BOOLEAN : Commit(c, heard)
         \/ \E c \in Calls, retry \in BOOLEAN : RollBack(c, retry)
         \/ \E c \in Calls, works \in BOOLEAN : MarkInterrupted(c, works)
         \/ \E c \in Calls : Crash(c)
         \/ \E chosen \in SUBSET Calls : Select(chosen)
         \/ \E c \in Calls : Reconcile(c)
         \/ Change
         \/ Tick
         \/ UNCHANGED vars
<1>1. CASE \E c \in Calls : Work(c)
  <2> PICK c \in Calls : Work(c)
    BY <1>1
  <2>1. scan[c] \in Scans \cup {None}
    BY DEF HandlerOK
  <2> QED BY <2>1 DEF Work
<1>2. CASE \E c \in Calls : Fail(c)
  BY <1>2 DEF Fail
<1> QED BY <1>1, <1>2 DEF Next

-----------------------------------------------------------------------------
(* Types                                                                   *)

LEMMA InitTypes == Init => TypeOK
<1> SUFFICES ASSUME Init PROVE TypeOK
  OBVIOUS
<1>1. NoRequest \in RequestRows
  BY DEF NoRequest, NoAuthorization, RequestRows
<1>2. NoAttempt \in AttemptRows
  BY DEF NoAttempt, AttemptRows
<1>3. NoPlan \in Plans
  BY DEF NoPlan, Plans
<1>4. NoResponse \in Responses
  BY DEF NoResponse, Responses
<1>5. TablesOK
  BY <1>1, <1>2 DEF Init, TablesOK
<1>6. HandlerOK
  <2>6. "NONE" \in Codes /\ "idle" \in Places
    BY DEF Places, Codes
  <2>1. pc \in [Calls -> Places] /\ fault \in [Calls -> Codes]
    BY <2>6 DEF Init
  <2>4. locks \in [Calls -> SUBSET Rows]
    BY DEF Init
  <2>5. tries \in [Calls -> Nat]
    BY DEF Init
  <2>2. /\ scan \in [Calls -> Scans \cup {None}]
        /\ payload \in [Calls -> Payloads \cup {None}]
    BY DEF Init
  <2>3. plan \in [Calls -> Plans] /\ response \in [Calls -> Responses]
    BY <1>3, <1>4 DEF Init
  <2> QED BY <2>1, <2>2, <2>3, <2>4, <2>5 DEF HandlerOK
<1>7. PeopleOK
  BY ServingAssumption DEF Init, PeopleOK
<1> QED BY <1>5, <1>6, <1>7 DEF Init, TypeOK

LEMMA ScanParts ==
  ASSUME NEW s \in Scans
  PROVE  /\ s.request \in Requests
         /\ s.token \in Credentials \cup {UnknownToken, MalformedToken}
         /\ s.staff \in Staff
         /\ s.mealType \in MealTypes
         /\ s.quantity \in Nat \ {0}
         /\ s.authorization \in Requests \cup {None}
         /\ s.visitor \in Visitors \cup {None}
         /\ s # None
BY ServingAssumption DEF ScanInputs

LEMMA DeviceOfType ==
  ASSUME NEW code
  PROVE  DeviceOf(code) \in Devices \cup {None}
BY DEF DeviceOf

LEMMA PayloadType ==
  ASSUME NEW s \in Scans, s.token # MalformedToken, NEW d \in Devices \cup {None}
  PROVE  PayloadOf(s, d) \in Payloads
BY ScanParts DEF PayloadOf, Payloads

(* A receipt's fingerprint is that of its scan at some device.             *)
LEMMA ReceiptPayloadType ==
  ASSUME ServingInv, NEW s \in Scans
  PROVE  \E d \in Devices \cup {None} : ReceiptPayload(s) = PayloadOf(s, d)
<1>1. CASE Final(s.request) /\ ReceiptFault(s) = "NONE"
  <2>1. request[s.request].payload \in Payloads
    BY <1>1, ScanParts DEF ServingInv, RowsLinked, Final
  <2> QED BY <1>1, <2>1 DEF ReceiptPayload, Payloads
<1>2. CASE ~(Final(s.request) /\ ReceiptFault(s) = "NONE")
  BY <1>2, DeviceOfType DEF ReceiptPayload
<1> QED BY <1>1, <1>2

(* A call that found no fault has a token that parses.                     *)
LEMMA ActType ==
  ASSUME NEW act \in {"SERVE", "REFUSE", "REJECT", "DUPLICATE", "AWAIT"},
         NEW code \in Codes \cup {None}, clock \in Nat
  PROVE  Act(act, code) \in Plans
BY DEF Act, Plans, NoPlan


LEMMA FaultCodes ==
  ASSUME NEW s, NEW c, NEW d
  PROVE  /\ ActorFault(s) \in Codes
         /\ InputFault(s) \in Codes
         /\ ReceiptFault(s) \in Codes
         /\ DeviceFault(c, d) \in Codes
         /\ EmployeeFault(s) \in Codes
         /\ AllocationFault(s) \in Codes
         /\ AuthorizationFault(c) \in Codes
<1>1. ActorFault(s) \in Codes
  BY DEF ActorFault, Codes
<1>2. InputFault(s) \in Codes
  BY DEF InputFault, Codes
<1>3. ReceiptFault(s) \in Codes
  BY DEF ReceiptFault, Codes
<1>4. DeviceFault(c, d) \in Codes
  BY DEF DeviceFault, Codes
<1>5. EmployeeFault(s) \in Codes
  BY DEF EmployeeFault, Codes
<1>6. AllocationFault(s) \in Codes
  BY DEF AllocationFault, Codes
<1>7. AuthorizationFault(c) \in Codes
  BY DEF AuthorizationFault, Codes
<1> QED BY <1>1, <1>2, <1>3, <1>4, <1>5, <1>6, <1>7

LEMMA ServingFaultCode ==
  ASSUME NEW c
  PROVE  ServingFault(c) \in Codes
<1>1. SharedFault(c) \in Codes
  BY FaultCodes DEF SharedFault, Codes
<1> QED BY <1>1, FaultCodes DEF ServingFault, Codes

(* The fields of the rows an action reads.                                 *)
LEMMA RowFields ==
  ASSUME TablesOK, NEW r \in Requests, NEW c \in Calls
  PROVE  /\ request[r] \in RequestRows
         /\ attempt[c] \in AttemptRows
BY DEF TablesOK

LEMMA ReserveType ==
  ASSUME TablesOK, NEW r \in Requests, NEW p \in Payloads, Reserve(r, p)
  PROVE  request' \in [Requests -> RequestRows]
<1>1. request[r] \in RequestRows
  BY RowFields DEF TablesOK
<1>2. [request[r] EXCEPT !.status = "PENDING", !.payload = p] \in RequestRows
  BY <1>1 DEF RequestRows
<1> QED BY <1>1, <1>2 DEF Reserve, TablesOK

LEMMA InsertAttemptType ==
  ASSUME TablesOK, NEW c \in Calls, NEW row, InsertAttempt(c, row),
         row \in AttemptRows
  PROVE  attempt' \in [Calls -> AttemptRows] /\ lastAttempt' \in Nat
BY DEF InsertAttempt, TablesOK

(* The receipt of a call, in either form.                                  *)
LEMMA RejectReceiptType ==
  ASSUME TypeOK, NEW c \in Calls, RejectReceipt(c)
  PROVE  /\ request' \in [Requests -> RequestRows]
         /\ attempt' \in [Calls -> AttemptRows]
         /\ lastAttempt' \in Nat
<1>1. fault[c] \in Codes /\ lastAttempt \in Nat
  BY DEF TypeOK, TablesOK, HandlerOK
<1>2. [id |-> lastAttempt + 1, outcome |-> "REJECTED", code |-> fault[c],
       request |-> None, payload |-> None] \in AttemptRows
  BY <1>1 DEF AttemptRows
<1>3. request' \in [Requests -> RequestRows]
  BY DEF RejectReceipt, TypeOK, TablesOK
<1> QED BY <1>2, <1>3, InsertAttemptType DEF RejectReceipt, TypeOK

LEMMA WriteReceiptType ==
  ASSUME ServingInv, NEW c \in Calls, pc[c] = "authenticated", WriteReceipt(c)
  PROVE  /\ request' \in [Requests -> RequestRows]
         /\ attempt' \in [Calls -> AttemptRows]
         /\ lastAttempt' \in Nat
         /\ payload' \in [Calls -> Payloads \cup {None}]
<1>1. scan[c] \in Scans /\ scan[c].token # MalformedToken
  BY DEF ServingInv, ReceiptKept, WriteReceipt
<1>2. ReceiptPayload(scan[c]) \in Payloads
  BY <1>1, ReceiptPayloadType, PayloadType
<1>3. scan[c].request \in Requests /\ lastAttempt \in Nat
  BY <1>1, ScanParts DEF ServingInv, TypeOK, TablesOK
<1>4. ReceiptFault(scan[c]) \in Codes
  BY FaultCodes
<1> DEFINE row == [id |-> lastAttempt + 1, request |-> scan[c].request,
                   payload |-> ReceiptPayload(scan[c]),
                   outcome |-> IF ReceiptFault(scan[c]) = "NONE" THEN "RECEIVED"
                                                               ELSE "REJECTED",
                   code |-> IF ReceiptFault(scan[c]) = "NONE" THEN None
                                                ELSE ReceiptFault(scan[c])]
<1>5. row \in AttemptRows
  BY <1>2, <1>3, <1>4 DEF AttemptRows
<1>6. InsertAttempt(c, row) /\ Reserve(scan[c].request, ReceiptPayload(scan[c]))
  BY DEF WriteReceipt
<1>7. payload' \in [Calls -> Payloads \cup {None}]
  BY <1>2 DEF WriteReceipt, ServingInv, TypeOK, HandlerOK
<1> HIDE DEF row
<1> QED BY <1>2, <1>3, <1>5, <1>6, <1>7, InsertAttemptType, ReserveType
        DEF ServingInv, TypeOK

(* The writes of a committing call.                                        *)
LEMMA FinishAttemptType ==
  ASSUME TypeOK, NEW c \in Calls, FinishAttempt(c)
  PROVE  attempt' \in [Calls -> AttemptRows]
<1>1. attempt[c] \in AttemptRows /\ plan[c] \in Plans
  BY DEF TypeOK, TablesOK, HandlerOK
<1> DEFINE outcome == IF plan[c].act = "SERVE" THEN "SUCCESS"
                      ELSE IF plan[c].act = "AWAIT" THEN "AWAITING_DETAILS"
                      ELSE "REJECTED"
           row == [attempt[c] EXCEPT !.outcome = outcome,
                     !.code = IF outcome = "REJECTED" THEN plan[c].code ELSE None]
<1>2. row \in AttemptRows
  BY <1>1 DEF AttemptRows, Plans
<1>3. attempt' = [attempt EXCEPT ![c] = row]
  BY <1>1 DEF FinishAttempt, TypeOK, TablesOK
<1> QED BY <1>2, <1>3 DEF TypeOK, TablesOK

LEMMA FinishRequestType ==
  ASSUME TypeOK, NEW c \in Calls, scan[c] \in Scans, FinishRequest(c)
  PROVE  request' \in [Requests -> RequestRows]
<1> DEFINE s == scan[c]
           p == plan[c]
           q == request[s.request]
           status == IF p.act = "SERVE" THEN "SUCCEEDED"
                     ELSE IF p.act = "REFUSE" THEN "REJECTED" ELSE q.status
           binds == Binds(c)
           row == [q EXCEPT !.status = status,
                 !.code = IF p.act = "REFUSE" THEN p.code ELSE q.code,
                 !.bound = q.bound \/ binds,
                 !.authorization = IF binds THEN s.authorization
                                            ELSE q.authorization,
                 !.visitor = IF binds THEN s.visitor ELSE q.visitor]
<1>1. s.request \in Requests /\ p \in Plans
  BY ScanParts DEF TypeOK, HandlerOK
<1>2. q \in RequestRows
  BY <1>1 DEF TypeOK, TablesOK
<1>3. /\ s.authorization \in Requests \cup {None}
      /\ s.visitor \in Visitors \cup {None}
  BY ScanParts
<1>4. binds \in BOOLEAN
  BY DEF Binds
<1>5. p.code \in Codes \cup {None}
  BY <1>1 DEF Plans
<1>6. request' = [request EXCEPT ![s.request] = row]
  BY DEF FinishRequest
<1>7. row \in RequestRows
  <2> HIDE DEF s, p, q, binds
  <2> DEFINE bound == q.bound \/ binds
             code == IF p.act = "REFUSE" THEN p.code ELSE q.code
             authorization == IF binds THEN s.authorization ELSE q.authorization
             visitor == IF binds THEN s.visitor ELSE q.visitor
  <2>1. /\ q.code \in Codes \cup {None} /\ q.bound \in BOOLEAN
        /\ q.status \in {"NONE", "PENDING", "SUCCEEDED", "REJECTED"}
        /\ q.authorization \in Requests \cup {None}
        /\ q.visitor \in Visitors \cup {None}
    BY <1>2 DEF RequestRows
  <2>2. bound \in BOOLEAN
    BY <1>4, <2>1
  <2>3. status \in {"NONE", "PENDING", "SUCCEEDED", "REJECTED"}
    BY <2>1
  <2>4. code \in Codes \cup {None}
    BY <1>5, <2>1
  <2>5. authorization \in Requests \cup {None} /\ visitor \in Visitors \cup {None}
    BY <1>3, <2>1
  <2> HIDE DEF bound, code, authorization, visitor, status
  <2>6. [q EXCEPT !.status = status, !.code = code, !.bound = bound,
                  !.authorization = authorization, !.visitor = visitor]
          \in RequestRows
    BY <1>2, <2>2, <2>3, <2>4, <2>5 DEF RequestRows
  <2> QED BY <2>6 DEF bound, code, authorization, visitor
<1> HIDE DEF row
<1> QED BY <1>1, <1>6, <1>7 DEF TypeOK, TablesOK

LEMMA InsertServingType ==
  ASSUME ServingInv, NEW c \in Calls, pc[c] = "committing", InsertServing(c)
  PROVE  servings' \subseteq ServingRows
<1>1. scan[c] \in Scans /\ payload[c] \in Payloads
  <2>1. scan[c] \in Scans
    BY DEF ServingInv, ReceiptKept
  <2>2. PICK d \in Devices \cup {None} : payload[c] = PayloadOf(scan[c], d)
    BY DEF ServingInv, ReceiptKept, InTransaction
  <2>3. scan[c].token # MalformedToken
    BY DEF ServingInv, ReceiptKept, InTransaction
  <2> QED BY <2>1, <2>2, <2>3, PayloadType
<1>2. plan[c] \in Plans /\ servings \subseteq ServingRows
  BY DEF ServingInv, TypeOK, HandlerOK, TablesOK
<1>3. plan[c].at \in Nat
  BY <1>2 DEF Plans
<1> DEFINE row == [call |-> c, request |-> scan[c].request,
                   payload |-> payload[c], visitor |-> scan[c].visitor,
                   authorization |-> scan[c].authorization, at |-> plan[c].at]
<1>4. row \in ServingRows
  BY <1>1, <1>3, ScanParts DEF ServingRows
<1>5. servings' \subseteq servings \cup {row}
  BY Zenon DEF InsertServing
<1> QED BY <1>2, <1>4, <1>5

LEMMA UseAllowanceType ==
  ASSUME ServingInv, NEW c \in Calls, pc[c] = "committing", UseAllowance(c)
  PROVE  /\ used' \in [Credentials -> [MealTypes -> Nat]]
         /\ spent' \in [Credentials -> Nat]
         /\ closed' \subseteq Credentials
<1>0. /\ used \in [Credentials -> [MealTypes -> Nat]]
      /\ spent \in [Credentials -> Nat]
      /\ closed \subseteq Credentials
  BY DEF ServingInv, TypeOK, TablesOK
<1>1. CASE ~(plan[c].act = "SERVE" /\ Kind[scan[c].token] = "ALLOCATED")
  BY <1>0, <1>1 DEF UseAllowance
<1>2. CASE plan[c].act = "SERVE" /\ Kind[scan[c].token] = "ALLOCATED"
  <2> DEFINE q == scan[c].token
             m == scan[c].mealType
  <2>1. q \in Credentials /\ m \in MealTypes
    <3>1. scan[c] \in Scans
      BY DEF ServingInv, ReceiptKept
    <3> QED BY <1>2, <3>1, ScanParts DEF ServingInv, PlanCurrent, InTransaction
  <2>2. used' = [used EXCEPT ![q][m] = @ + 1]
    BY <1>2 DEF UseAllowance
  <2>3. used' \in [Credentials -> [MealTypes -> Nat]]
    BY <1>0, <2>1, <2>2
  <2>4. PICK n \in Allowed[q] :
          /\ spent' = [spent EXCEPT ![q] = used'[q][n]]
          /\ closed' = IF used'[q][n] = Limit[q] THEN closed \cup {q} ELSE closed
    BY <1>2 DEF UseAllowance
  <2>5. n \in MealTypes
    BY <2>1, <2>4, ServingAssumption
  <2> QED BY <1>0, <2>1, <2>3, <2>4, <2>5
<1> QED BY <1>1, <1>2

LEMMA InterruptType ==
  ASSUME TypeOK, NEW c \in Calls, Interrupt(c)
  PROVE  attempt' \in [Calls -> AttemptRows]
<1>1. attempt[c] \in AttemptRows
  BY DEF TypeOK, TablesOK
<1>2. [attempt[c] EXCEPT !.outcome = "REJECTED", !.code = "PROCESSING_INTERRUPTED"]
        \in AttemptRows
  BY <1>1 DEF AttemptRows, Codes
<1> QED BY <1>1, <1>2 DEF Interrupt, TypeOK, TablesOK

LEMMA AuthorizeType ==
  ASSUME TypeOK, NEW r \in Requests, NEW s \in Scans, Authorize(r, s)
  PROVE  request' \in [Requests -> RequestRows]
<1> DEFINE p == PayloadOf(s, DeviceOf(s.scanner))
           prepared == [state |-> "VALID", scope |-> p, expires |-> clock + AuthTime]
           row == [request[r] EXCEPT !.status = "PENDING", !.payload = p,
                                     !.prepared = prepared]
<1>1. p \in Payloads
  BY DeviceOfType, PayloadType, ServingAssumption DEF Authorize
<1>2. clock + AuthTime \in Nat
  BY ServingAssumption DEF TypeOK
<1>3. request[r] \in RequestRows
  BY DEF TypeOK, TablesOK
<1>4. request' = [request EXCEPT ![r] = row]
  BY DEF Authorize
<1> HIDE DEF p
<1>5. row \in RequestRows
  BY <1>1, <1>2, <1>3 DEF RequestRows
<1> HIDE DEF row
<1> QED BY <1>4, <1>5 DEF TypeOK, TablesOK

LEMMA RevokeAuthorizationType ==
  ASSUME TypeOK, NEW r \in Requests, RevokeAuthorization(r)
  PROVE  request' \in [Requests -> RequestRows]
<1>1. request[r] \in RequestRows
  BY DEF TypeOK, TablesOK
<1>2. [request[r] EXCEPT !.prepared = [request[r].prepared EXCEPT !.state = "REVOKED"]]
        \in RequestRows
  BY <1>1 DEF RequestRows
<1> QED BY <1>1, <1>2 DEF RevokeAuthorization, TypeOK, TablesOK

LEMMA TablesStep ==
  ASSUME ServingInv, [Next]_vars
  PROVE  TablesOK'
<1> USE DEF tables
<1>0. TypeOK /\ TablesOK /\ HandlerOK
  BY DEF ServingInv, TypeOK
<1>1. CASE \E c \in Calls, heard \in BOOLEAN : Receive(c, heard)
  <2> PICK c \in Calls, heard \in BOOLEAN : Receive(c, heard)
    BY <1>1
  <2>1. /\ request' \in [Requests -> RequestRows]
        /\ attempt' \in [Calls -> AttemptRows]
        /\ lastAttempt' \in Nat
    BY <1>0, RejectReceiptType, WriteReceiptType DEF Receive
  <2> QED BY <1>0, <2>1 DEF Receive, TablesOK
<1>2. CASE \E c \in Calls, heard \in BOOLEAN : Commit(c, heard)
  <2> PICK c \in Calls, heard \in BOOLEAN : Commit(c, heard)
    BY <1>2
  <2>1. pc[c] = "committing" /\ scan[c] \in Scans
    BY DEF Commit, ServingInv, ReceiptKept
  <2>2. attempt' \in [Calls -> AttemptRows]
    BY <1>0, FinishAttemptType DEF Commit
  <2>3. request' \in [Requests -> RequestRows]
    BY <1>0, <2>1, FinishRequestType DEF Commit
  <2>4. servings' \subseteq ServingRows
    BY <2>1, InsertServingType DEF Commit
  <2>5. /\ used' \in [Credentials -> [MealTypes -> Nat]]
        /\ spent' \in [Credentials -> Nat]
        /\ closed' \subseteq Credentials
    BY <2>1, UseAllowanceType DEF Commit
  <2> QED BY <1>0, <2>2, <2>3, <2>4, <2>5 DEF Commit, TablesOK
<1>3. CASE \E c \in Calls, works \in BOOLEAN : MarkInterrupted(c, works)
  <2> PICK c \in Calls, works \in BOOLEAN : MarkInterrupted(c, works)
    BY <1>3
  <2>1. attempt' \in [Calls -> AttemptRows]
    BY <1>0, InterruptType DEF MarkInterrupted, TablesOK
  <2> QED BY <1>0, <2>1 DEF MarkInterrupted, TablesOK
<1>4. CASE \E c \in Calls : Reconcile(c)
  BY <1>0, <1>4, InterruptType DEF Reconcile, TablesOK
<1>5. CASE Change
  <2>1. CASE \E r \in Requests, s \in Scans : Authorize(r, s)
    BY <1>0, <2>1, AuthorizeType DEF Authorize, TablesOK
  <2>2. CASE \E r \in Requests : RevokeAuthorization(r)
    BY <1>0, <2>2, RevokeAuthorizationType DEF RevokeAuthorization, TablesOK
  <2>3. CASE UNCHANGED tables
    BY <1>0, <2>3 DEF TablesOK
  <2> QED BY <1>5, <2>1, <2>2, <2>3, ChangeCases
<1>6. CASE UNCHANGED tables
  BY <1>0, <1>6 DEF TablesOK
<1>7. UNCHANGED tables
        \/ (\E c \in Calls, heard \in BOOLEAN : Receive(c, heard) \/ Commit(c, heard))
        \/ (\E c \in Calls, works \in BOOLEAN : MarkInterrupted(c, works))
        \/ (\E c \in Calls : Reconcile(c)) \/ Change
  BY <1>0, NextCases DEF Authenticate, ReceiveFails, Begin, BeginTooLate,
     LockDevice, LockEmployee, LockCredential, RollBack, Crash, Select, Tick, vars
<1> QED BY <1>1, <1>2, <1>3, <1>4, <1>5, <1>6, <1>7

(* The plans a call may make.                                              *)
LEMMA EarlyPlanType ==
  ASSUME TypeOK, NEW c \in Calls, scan[c] \in Scans
  PROVE  EarlyPlan(c) \in Plans
<1>1. clock \in Nat
  BY DEF TypeOK
<1>2. request[scan[c].request] \in RequestRows
  BY ScanParts DEF TypeOK, TablesOK
<1>3. /\ request[scan[c].request].code \in Codes \cup {None}
      /\ request[scan[c].request].bound \in BOOLEAN
  BY <1>2 DEF RequestRows
<1>4. (~request[scan[c].request].bound /\ ~Deferred(scan[c])) \in BOOLEAN
  BY Zenon
<1>5. [NoPlan EXCEPT !.binds = ~request[scan[c].request].bound
                                 /\ ~Deferred(scan[c])] \in Plans
  BY <1>4 DEF NoPlan, Plans
<1>6. /\ ActorFault(scan[c]) \in Codes
      /\ \A x \in Codes \cup {None} : Act("REJECT", x) \in Plans
      /\ Act("DUPLICATE", "DUPLICATE_REQUEST") \in Plans
  BY <1>1, ActType, FaultCodes DEF Codes
<1>7. /\ "IDEMPOTENCY_KEY_REUSED" \in Codes
      /\ "IDEMPOTENCY_PROOF_UNAVAILABLE" \in Codes
      /\ "AUTHORIZATION_SCOPE_MISMATCH" \in Codes
  BY DEF Codes
<1> QED BY <1>3, <1>5, <1>6, <1>7 DEF EarlyPlan

LEMMA DecisionType ==
  ASSUME TypeOK, NEW c \in Calls
  PROVE  Decision(c) \in Plans
<1>1. clock \in Nat /\ plan[c] \in Plans
  BY DEF TypeOK, HandlerOK
<1>2. plan[c].binds \in BOOLEAN
  BY <1>1 DEF Plans
<1>3. /\ ServingFault(c) \in Codes
      /\ {"VISITOR_DETAILS", "VISITOR_DETAILS_REQUIRED", "APPROVED"} \subseteq Codes
  BY ServingFaultCode DEF Codes
<1> DEFINE choice ==
             IF NeedsDetails(scan[c])
               THEN IF scan[c].reading THEN Act("AWAIT", "VISITOR_DETAILS")
                    ELSE Act("REJECT", "VISITOR_DETAILS_REQUIRED")
             ELSE IF ServingFault(c) # "NONE" THEN Act("REFUSE", ServingFault(c))
             ELSE Act("SERVE", "APPROVED")
<1>4. choice \in Plans
  BY <1>1, <1>3, ActType
<1>5. Decision(c) = [choice EXCEPT !.binds = plan[c].binds]
  BY DEF Decision
<1> HIDE DEF choice
<1> QED BY <1>2, <1>4, <1>5 DEF Plans

(* Every row a call locks is a row.                                        *)
LEMMA LockType ==
  ASSUME HandlerOK, NEW c \in Calls, NEW rows \in SUBSET Rows, Lock(c, rows)
  PROVE  locks' \in [Calls -> SUBSET Rows]
BY DEF HandlerOK, Lock

LEMMA RowTypes ==
  /\ \A r \in Requests : RequestRow(r) \in Rows /\ AuthorizationRow(r) \in Rows
  /\ \A d \in Devices : DeviceRow(d) \in Rows
  /\ \A e \in Employees : EmployeeRow(e) \in Rows
  /\ \A q \in Credentials : CredentialRow(q) \in Rows
  /\ \A m \in MealTypes : MealTypeRow(m) \in Rows
BY DEF Rows, ExclusiveRows, RequestRow, AuthorizationRow, DeviceRow, EmployeeRow,
   CredentialRow, MealTypeRow

LEMMA GoOnType ==
  ASSUME TypeOK, NEW c \in Calls, NEW code \in Codes, NEW next \in Places,
         GoOn(c, code, next)
  PROVE  pc' \in [Calls -> Places] /\ plan' \in [Calls -> Plans]
<1>1. clock \in Nat /\ plan \in [Calls -> Plans] /\ pc \in [Calls -> Places]
  BY DEF TypeOK, HandlerOK
<1>2. [Act("REFUSE", code) EXCEPT !.binds = plan[c].binds] \in Plans
  BY <1>1 DEF Act, Plans
<1>3. "committing" \in Places
  BY DEF Places
<1> QED BY <1>1, <1>2, <1>3 DEF GoOn

LEMMA AnswerType ==
  ASSUME HandlerOK, NEW c \in Calls, NEW code \in Codes \cup {None},
         NEW serving \in Calls \cup {None}, Answer(c, code, serving)
  PROVE  response' \in [Calls -> Responses]
BY DEF Answer, HandlerOK, Responses

LEMMA ProcessAnswerType ==
  ASSUME ServingInv, NEW c \in Calls, pc[c] = "committing"
  PROVE  ProcessAnswer(c) \in Responses
<1>1. plan[c].code \in Codes \cup {None}
  BY DEF ServingInv, TypeOK, HandlerOK, Plans
<1>2. CASE plan[c].act = "DUPLICATE"
  <2> DEFINE r == scan[c].request
  <2>1. r \in Requests /\ request[r].status = "SUCCEEDED"
    BY <1>2, ScanParts DEF ServingInv, ReceiptKept, PlanCurrent, InTransaction
  <2>2. \E v \in servings : v.request = r
    BY <2>1 DEF ServingInv, ServedOnce
  <2>3. ServingOf(r) \in servings
    BY <2>2 DEF ServingOf
  <2>4. ServingOf(r).call \in Calls
    BY <2>3 DEF ServingInv, TypeOK, TablesOK, ServingRows
  <2> QED BY <1>2, <2>4 DEF ProcessAnswer, Responses, Codes
<1> QED BY <1>1, <1>2 DEF ProcessAnswer, Responses, Codes

LEMMA HandlerStep ==
  ASSUME ServingInv, [Next]_vars
  PROVE  HandlerOK'
<1> USE DEF handler
<1>0. TypeOK /\ TablesOK /\ HandlerOK
  BY DEF ServingInv, TypeOK
<1>1. ASSUME NEW c \in Calls, NEW s \in Scans, Authenticate(c, s)
      PROVE  HandlerOK'
  <2>1. IF ActorFault(s) # "NONE" THEN ActorFault(s) \in Codes
                                 ELSE InputFault(s) \in Codes
    BY FaultCodes
  <2>2. fault' \in [Calls -> Codes]
    BY <1>0, <1>1, <2>1 DEF Authenticate, HandlerOK
  <2>3. /\ pc' \in [Calls -> Places]
        /\ scan' \in [Calls -> Scans \cup {None}]
    BY <1>0, <1>1 DEF Authenticate, HandlerOK, Places
  <2> QED BY <1>0, <1>1, <2>2, <2>3 DEF Authenticate, HandlerOK
<1>2. ASSUME NEW c \in Calls, NEW heard \in BOOLEAN, Receive(c, heard)
      PROVE  HandlerOK'
  <2>1. payload' \in [Calls -> Payloads \cup {None}]
    BY <1>0, <1>2, WriteReceiptType DEF Receive, RejectReceipt, HandlerOK
  <2>2. /\ pc' \in [Calls -> Places]
        /\ tries' \in [Calls -> Nat]
    BY <1>0, <1>2 DEF Receive, HandlerOK, Places
  <2>3. ReceiptAnswer(c) \in Codes /\ "SCAN_RECEIPT_UNCONFIRMED" \in Codes
    BY <1>0, FaultCodes DEF ReceiptAnswer, HandlerOK, Codes
  <2>4. response' \in [Calls -> Responses]
    BY <1>0, <1>2, <2>3, AnswerType DEF Receive, HandlerOK
  <2> QED BY <1>0, <1>2, <2>1, <2>2, <2>4 DEF Receive, HandlerOK
<1>3. ASSUME NEW c \in Calls, NEW retry \in BOOLEAN, ReceiveFails(c, retry)
      PROVE  HandlerOK'
  <2>1. "SCAN_RECEIPT_UNCONFIRMED" \in Codes
    BY DEF Codes
  <2>2. response' \in [Calls -> Responses]
    BY <1>0, <1>3, <2>1, AnswerType DEF ReceiveFails, HandlerOK
  <2>3. pc' \in [Calls -> Places] /\ tries' \in [Calls -> Nat]
    BY <1>0, <1>3 DEF ReceiveFails, HandlerOK, Places
  <2> QED BY <1>0, <1>3, <2>2, <2>3 DEF ReceiveFails, HandlerOK
<1>4. ASSUME NEW c \in Calls, Begin(c)
      PROVE  HandlerOK'
  <2>1. scan[c] \in Scans
    BY <1>4 DEF Begin, ServingInv, ReceiptKept
  <2>2. locks' \in [Calls -> SUBSET Rows]
    BY <1>0, <1>4, <2>1, LockType, RowTypes, ScanParts DEF Begin
  <2>3. plan' \in [Calls -> Plans] /\ pc' \in [Calls -> Places]
    BY <1>0, <1>4, <2>1, EarlyPlanType DEF Begin, HandlerOK, Places
  <2> QED BY <1>0, <1>4, <2>2, <2>3 DEF Begin, HandlerOK
<1>5. ASSUME NEW c \in Calls, BeginTooLate(c)
      PROVE  HandlerOK'
  BY <1>0, <1>5 DEF BeginTooLate, HandlerOK, Places
<1>6. ASSUME NEW c \in Calls, LockDevice(c)
      PROVE  HandlerOK'
  <2> DEFINE d == DeviceOf(scan[c].scanner)
             rows == {MealTypeRow(scan[c].mealType)}
                       \cup {DeviceRow(e) : e \in {d} \ {None}}
             next == IF OfEmployee(scan[c].token) THEN "placed" ELSE "admitted"
  <2>1. scan[c] \in Scans
    BY <1>6 DEF LockDevice, ServingInv, ReceiptKept
  <2>2. d \in Devices \cup {None}
    BY DeviceOfType
  <2>3. rows \in SUBSET Rows
    BY <2>1, <2>2, RowTypes, ScanParts
  <2>4. Lock(c, rows) /\ GoOn(c, DeviceFault(c, d), next)
    BY <1>6 DEF LockDevice
  <2>5. next \in Places
    BY DEF Places
  <2> HIDE DEF rows, next, d
  <2>6. locks' \in [Calls -> SUBSET Rows]
    BY <1>0, <2>3, <2>4, LockType
  <2>7. pc' \in [Calls -> Places] /\ plan' \in [Calls -> Plans]
    BY <1>0, <2>4, <2>5, GoOnType, FaultCodes
  <2> QED BY <1>0, <1>6, <2>6, <2>7 DEF LockDevice, HandlerOK
<1>7. ASSUME NEW c \in Calls, LockEmployee(c)
      PROVE  HandlerOK'
  <2> DEFINE e == Owner[scan[c].token]
             code == IF e \in active THEN "NONE" ELSE "EMPLOYEE_INACTIVE"
  <2>1. EmployeeRow(e) \in Rows
    BY <1>7, RowTypes, ServingAssumption
    DEF LockEmployee, ServingInv, PlanCurrent, InTransaction, OfEmployee
  <2>2. Lock(c, {EmployeeRow(e)}) /\ GoOn(c, code, "admitted")
    BY <1>7 DEF LockEmployee
  <2>3. code \in Codes /\ "admitted" \in Places
    BY DEF Codes, Places
  <2> HIDE DEF code
  <2>4. locks' \in [Calls -> SUBSET Rows]
    BY <1>0, <2>1, <2>2, LockType
  <2>5. pc' \in [Calls -> Places] /\ plan' \in [Calls -> Plans]
    BY <1>0, <2>2, <2>3, GoOnType
  <2> QED BY <1>0, <1>7, <2>4, <2>5 DEF LockEmployee, HandlerOK
<1>8. ASSUME NEW c \in Calls, LockCredential(c)
      PROVE  HandlerOK'
  <2> DEFINE s == scan[c]
             prepared == IF ByAuthorization(s) THEN {AuthorizationRow(s.authorization)}
                                               ELSE {}
  <2>1. s \in Scans /\ s.token \in Credentials
    BY <1>8 DEF LockCredential, ServingInv, ReceiptKept, PlanCurrent, InTransaction
  <2>2. ByAuthorization(s) => s.authorization \in Requests
    BY <2>1, ScanParts DEF ByAuthorization
  <2>3. {CredentialRow(s.token)} \cup prepared \in SUBSET Rows
    BY <2>1, <2>2, RowTypes
  <2>4. locks' \in [Calls -> SUBSET Rows]
    BY <1>0, <1>8, <2>3, LockType DEF LockCredential
  <2>5. plan' \in [Calls -> Plans] /\ pc' \in [Calls -> Places]
    BY <1>0, <1>8, DecisionType DEF LockCredential, HandlerOK, Places
  <2> QED BY <1>0, <1>8, <2>4, <2>5 DEF LockCredential, HandlerOK
<1>9. ASSUME NEW c \in Calls, NEW heard \in BOOLEAN, Commit(c, heard)
      PROVE  HandlerOK'
  <2>1. ProcessAnswer(c) \in Responses
    BY <1>9, ProcessAnswerType DEF Commit
  <2>2. response' \in [Calls -> Responses]
    BY <1>0, <1>9, <2>1 DEF Commit, HandlerOK
  <2>3. pc' \in [Calls -> Places] /\ locks' \in [Calls -> SUBSET Rows]
    BY <1>0, <1>9 DEF Commit, HandlerOK, Places, Unlock
  <2> QED BY <1>0, <1>9, <2>2, <2>3 DEF Commit, HandlerOK
<1>10. ASSUME NEW c \in Calls, NEW retry \in BOOLEAN, RollBack(c, retry)
       PROVE  HandlerOK'
  <2>1. NoPlan \in Plans
    BY DEF NoPlan, Plans
  <2>2. /\ pc' \in [Calls -> Places] /\ locks' \in [Calls -> SUBSET Rows]
        /\ plan' \in [Calls -> Plans] /\ tries' \in [Calls -> Nat]
    BY <1>0, <1>10, <2>1 DEF RollBack, HandlerOK, Places, Unlock
  <2> QED BY <1>0, <1>10, <2>2 DEF RollBack, HandlerOK
<1>11. ASSUME NEW c \in Calls, NEW works \in BOOLEAN, MarkInterrupted(c, works)
       PROVE  HandlerOK'
  <2>1. "PROCESSING_UNCONFIRMED" \in Codes
    BY DEF Codes
  <2>2. response' \in [Calls -> Responses] /\ pc' \in [Calls -> Places]
    BY <1>0, <1>11, <2>1, AnswerType DEF MarkInterrupted, HandlerOK, Places
  <2> QED BY <1>0, <1>11, <2>2 DEF MarkInterrupted, HandlerOK
<1>12. ASSUME NEW c \in Calls, Crash(c)
       PROVE  HandlerOK'
  <2>1. NoPlan \in Plans
    BY DEF NoPlan, Plans
  <2>2. /\ pc' \in [Calls -> Places] /\ locks' \in [Calls -> SUBSET Rows]
        /\ plan' \in [Calls -> Plans]
    BY <1>0, <1>12, <2>1 DEF Crash, HandlerOK, Places, Unlock
  <2> QED BY <1>0, <1>12, <2>2 DEF Crash, HandlerOK
<1>13. CASE UNCHANGED handler
  BY <1>0, <1>13 DEF HandlerOK
<1>14. (\E chosen \in SUBSET Calls : Select(chosen)) \/ (\E c \in Calls : Reconcile(c))
         \/ Change \/ Tick \/ UNCHANGED vars => UNCHANGED handler
  BY DEF Select, Reconcile, Change, Tick, vars
<1> QED
  BY <1>0, <1>1, <1>2, <1>3, <1>4, <1>5, <1>6, <1>7, <1>8, <1>9, <1>10, <1>11,
     <1>12, <1>13, <1>14, NextCases

LEMMA PeopleStep ==
  ASSUME ServingInv, [Next]_vars
  PROVE  PeopleOK'
<1> USE DEF people
<1>0. PeopleOK /\ HandlerOK
  BY DEF ServingInv, TypeOK
<1>1. CASE Change
  <2>0. changes' \in Nat
    BY <1>0, <1>1 DEF Change, PeopleOK
  <2>1. CASE \E r \in Requests, s \in Scans : Authorize(r, s)
    BY <1>0, <2>0, <2>1 DEF Authorize, PeopleOK
  <2>2. CASE \E r \in Requests : RevokeAuthorization(r)
    BY <1>0, <2>0, <2>2 DEF RevokeAuthorization, PeopleOK
  <2>3. CASE \E q \in Credentials : RevokeCredential(q)
    BY <1>0, <2>0, <2>3 DEF RevokeCredential, PeopleOK
  <2>4. CASE \E e \in Employees : SetEmployeeActive(e)
    BY <1>0, <2>0, <2>4 DEF SetEmployeeActive, PeopleOK
  <2>5. CASE \E e \in Employees, types \in SUBSET MealTypes : SetMealTypes(e, types)
    BY <1>0, <2>0, <2>5 DEF SetMealTypes, PeopleOK
  <2>6. CASE \E d \in Devices, code \in ScannerCodes : RenameScanner(d, code)
    BY <1>0, <2>0, <2>6 DEF RenameScanner, PeopleOK
  <2>7. CASE \E d \in Devices : SetScannerActive(d)
    BY <1>0, <2>0, <2>7 DEF SetScannerActive, PeopleOK
  <2>8. CASE \E m \in MealTypes : SetMealTypeActive(m)
    BY <1>0, <2>0, <2>8 DEF SetMealTypeActive, PeopleOK
  <2>9. CASE \E st \in Staff : DeactivateStaff(st)
    BY <1>0, <2>0, <2>9 DEF DeactivateStaff, PeopleOK
  <2> QED BY <1>1, <2>1, <2>2, <2>3, <2>4, <2>5, <2>6, <2>7, <2>8, <2>9 DEF Change
<1>2. Change \/ UNCHANGED people
  BY <1>0, NextCases DEF Authenticate, Receive, ReceiveFails, Begin, BeginTooLate,
     LockDevice, LockEmployee, LockCredential, Commit, RollBack, MarkInterrupted,
     Crash, Select, Reconcile, Tick, vars
<1>3. CASE UNCHANGED people
  BY <1>0, <1>3 DEF PeopleOK
<1> QED BY <1>1, <1>2, <1>3

(* Only the clock moves time.                                              *)
LEMMA TimeStep ==
  ASSUME TypeOK, [Next]_vars
  PROVE  clock' \in Nat /\ clock <= clock'
<1>1. Tick \/ UNCHANGED clock
  BY NextCases DEF TypeOK, Authenticate, Receive, ReceiveFails, Begin,
     BeginTooLate, LockDevice, LockEmployee, LockCredential, Commit, RollBack,
     MarkInterrupted, Crash, Select, Reconcile, Change, vars
<1> QED BY <1>1 DEF Tick, TypeOK

LEMMA TypeStep ==
  ASSUME ServingInv, [Next]_vars
  PROVE  TypeOK'
<1>0. TypeOK /\ HandlerOK /\ candidates \subseteq Calls
  BY DEF ServingInv, TypeOK
<1>1. candidates' \subseteq Calls
  <2>1. CASE \E chosen \in SUBSET Calls : Select(chosen)
    BY <2>1 DEF Select
  <2>2. CASE \E c \in Calls : Reconcile(c)
    BY <1>0, <2>2 DEF Reconcile
  <2>3. \/ \E chosen \in SUBSET Calls : Select(chosen)
        \/ \E c \in Calls : Reconcile(c)
        \/ UNCHANGED candidates
    BY <1>0, NextCases DEF Authenticate, Receive, ReceiveFails, Begin,
       BeginTooLate, LockDevice, LockEmployee, LockCredential, Commit, RollBack,
       MarkInterrupted, Crash, Change, Tick, vars
  <2> QED BY <1>0, <2>1, <2>2, <2>3
<1>2. clock' \in Nat
  BY <1>0, TimeStep
<1> QED BY <1>1, <1>2, TablesStep, HandlerStep, PeopleStep DEF TypeOK

-----------------------------------------------------------------------------
(* Row locks                                                               *)

(* Administrators, reconciliations and the clock reach no handler.         *)
LEMMA OtherStepsFrame ==
  ASSUME \/ \E chosen \in SUBSET Calls : Select(chosen)
         \/ \E c \in Calls : Reconcile(c)
         \/ Change \/ Tick \/ UNCHANGED vars
  PROVE  UNCHANGED handler
BY DEF Select, Reconcile, Change, Tick, vars, handler

(* A step of call c leaves the other calls as they are.                    *)
Same(d) ==
  /\ pc'[d] = pc[d] /\ scan'[d] = scan[d] /\ fault'[d] = fault[d]
  /\ payload'[d] = payload[d] /\ locks'[d] = locks[d] /\ plan'[d] = plan[d]

LEMMA HandlerSame ==
  ASSUME UNCHANGED handler, NEW d
  PROVE  Same(d)
BY DEF handler, Same

Exclusive ==
  \A c, d \in Calls : c # d => locks[c] \cap locks[d] \cap ExclusiveRows = {}

LEMMA LockExclusive ==
  ASSUME HandlerOK, Exclusive, NEW c \in Calls, NEW rows, Lock(c, rows)
  PROVE  /\ Exclusive'
         /\ locks'[c] = locks[c] \cup rows
<1>1. \A d \in Calls : locks'[d] = IF d = c THEN locks[c] \cup rows ELSE locks[d]
  BY DEF Lock, HandlerOK
<1>2. \A d \in Calls, row \in rows \cap ExclusiveRows : row \notin locks[d]
  BY DEF Lock, Free
<1> QED BY <1>1, <1>2 DEF Exclusive

LEMMA UnlockExclusive ==
  ASSUME HandlerOK, Exclusive, NEW c \in Calls, Unlock(c)
  PROVE  Exclusive' /\ locks'[c] = {}
<1>1. \A d \in Calls : locks'[d] = IF d = c THEN {} ELSE locks[d]
  BY DEF Unlock, HandlerOK
<1> QED BY <1>1 DEF Exclusive

LEMMA RowKinds ==
  /\ \A r \in Requests : RequestRow(r) \in ExclusiveRows
  /\ \A e \in Employees : EmployeeRow(e) \in ExclusiveRows
BY DEF ExclusiveRows, RequestRow, EmployeeRow

(* What LockDiscipline says of one call.                                   *)
Holds(c) ==
  /\ locks[c] # {} => InTransaction(c)
  /\ InTransaction(c) => RequestRow(scan[c].request) \in locks[c]
  /\ /\ \/ pc[c] = "admitted"
        \/ pc[c] = "committing" /\ plan[c].act = "SERVE"
     /\ OfEmployee(scan[c].token)
     => EmployeeRow(Owner[scan[c].token]) \in locks[c]

LEMMA LockDisciplineParts ==
  LockDiscipline <=> Exclusive /\ \A c \in Calls : Holds(c)
BY DEF LockDiscipline, Exclusive, Holds

LEMMA HoldsSame ==
  ASSUME NEW d, Holds(d), Same(d)
  PROVE  Holds(d)'
BY DEF Holds, Same, InTransaction

LEMMA EarlyActs ==
  ASSUME NEW c
  PROVE  EarlyPlan(c).act \in {"NONE", "REJECT", "DUPLICATE"}
BY DEF EarlyPlan, Act, NoPlan

LEMMA LockStep ==
  ASSUME ServingInv, [Next]_vars
  PROVE  LockDiscipline'
<1>0. HandlerOK /\ Exclusive /\ \A c \in Calls : Holds(c)
  BY LockDisciplineParts DEF ServingInv, TypeOK
<1> SUFFICES Exclusive' /\ \A d \in Calls : Holds(d)'
  BY DEF LockDiscipline, Exclusive, Holds
<1>1. ASSUME NEW c \in Calls, NEW s \in Scans, Authenticate(c, s)
      PROVE  Exclusive' /\ \A d \in Calls : Holds(d)'
  <2>1. \A d \in Calls \ {c} : Same(d)
    BY <1>0, <1>1 DEF Authenticate, Same, HandlerOK
  <2>2. Holds(c)'
    BY <1>0, <1>1 DEF Authenticate, Holds, HandlerOK, InTransaction
  <2> QED BY <1>0, <1>1, <2>1, <2>2, HoldsSame DEF Authenticate, Exclusive
<1>2. ASSUME NEW c \in Calls, NEW heard \in BOOLEAN, Receive(c, heard)
      PROVE  Exclusive' /\ \A d \in Calls : Holds(d)'
  <2>1. \A d \in Calls \ {c} : Same(d)
    BY <1>0, <1>2 DEF Receive, RejectReceipt, WriteReceipt, Same, HandlerOK
  <2>2. Holds(c)'
    BY <1>0, <1>2 DEF Receive, Holds, HandlerOK, InTransaction
  <2> QED BY <1>0, <1>2, <2>1, <2>2, HoldsSame DEF Receive, Exclusive
<1>3. ASSUME NEW c \in Calls, NEW retry \in BOOLEAN, ReceiveFails(c, retry)
      PROVE  Exclusive' /\ \A d \in Calls : Holds(d)'
  <2>1. \A d \in Calls \ {c} : Same(d)
    BY <1>0, <1>3 DEF ReceiveFails, Same, HandlerOK
  <2>2. Holds(c)'
    BY <1>0, <1>3 DEF ReceiveFails, Holds, HandlerOK, InTransaction
  <2> QED BY <1>0, <1>3, <2>1, <2>2, HoldsSame DEF ReceiveFails, Exclusive
<1>4. ASSUME NEW c \in Calls, Begin(c)
      PROVE  Exclusive' /\ \A d \in Calls : Holds(d)'
  <2>1. \A d \in Calls \ {c} : Same(d)
    BY <1>0, <1>4 DEF Begin, Lock, Same, HandlerOK
  <2>2. Exclusive' /\ locks'[c] = locks[c] \cup {RequestRow(scan[c].request)}
    BY <1>0, <1>4, LockExclusive DEF Begin
  <2>3. Holds(c)'
    BY <1>0, <1>4, <2>2, EarlyActs DEF Begin, Holds, HandlerOK, InTransaction
  <2> QED BY <1>0, <2>1, <2>2, <2>3, HoldsSame
<1>5. ASSUME NEW c \in Calls, BeginTooLate(c)
      PROVE  Exclusive' /\ \A d \in Calls : Holds(d)'
  <2>1. \A d \in Calls \ {c} : Same(d)
    BY <1>0, <1>5 DEF BeginTooLate, Same, HandlerOK
  <2>2. Holds(c)'
    BY <1>0, <1>5 DEF BeginTooLate, Holds, HandlerOK, InTransaction
  <2> QED BY <1>0, <1>5, <2>1, <2>2, HoldsSame DEF BeginTooLate, Exclusive
<1>6. ASSUME NEW c \in Calls, LockDevice(c)
      PROVE  Exclusive' /\ \A d \in Calls : Holds(d)'
  <2> DEFINE rows == {MealTypeRow(scan[c].mealType)}
                       \cup {DeviceRow(e) : e \in {DeviceOf(scan[c].scanner)} \ {None}}
  <2>1. \A d \in Calls \ {c} : Same(d)
    BY <1>0, <1>6 DEF LockDevice, Lock, GoOn, Same, HandlerOK
  <2>2. Lock(c, rows)
    BY <1>6 DEF LockDevice
  <2> HIDE DEF rows
  <2>3. Exclusive' /\ locks'[c] = locks[c] \cup rows
    BY <1>0, <2>2, LockExclusive
  <2>4. RequestRow(scan[c].request) \in locks'[c] /\ scan'[c] = scan[c]
    BY <1>0, <1>6, <2>3 DEF LockDevice, Holds, InTransaction
  <2>5. \/ pc'[c] = "placed"
        \/ pc'[c] = "admitted" /\ ~OfEmployee(scan[c].token)
        \/ pc'[c] = "committing" /\ plan'[c].act = "REFUSE"
    BY <1>0, <1>6 DEF LockDevice, GoOn, HandlerOK, Act, Plans
  <2>6. Holds(c)'
    BY <2>4, <2>5 DEF Holds, InTransaction, OfEmployee
  <2> QED BY <1>0, <2>1, <2>3, <2>6, HoldsSame
<1>7. ASSUME NEW c \in Calls, LockEmployee(c)
      PROVE  Exclusive' /\ \A d \in Calls : Holds(d)'
  <2> DEFINE rows == {EmployeeRow(Owner[scan[c].token])}
  <2>1. \A d \in Calls \ {c} : Same(d)
    BY <1>0, <1>7 DEF LockEmployee, Lock, GoOn, Same, HandlerOK
  <2>2. Exclusive' /\ locks'[c] = locks[c] \cup rows
    BY <1>0, <1>7, LockExclusive DEF LockEmployee
  <2>3. RequestRow(scan[c].request) \in locks'[c] /\ scan'[c] = scan[c]
    BY <1>0, <1>7, <2>2 DEF LockEmployee, Holds, InTransaction
  <2>4. InTransaction(c)'
    BY <1>0, <1>7 DEF LockEmployee, GoOn, HandlerOK, InTransaction
  <2>5. Holds(c)'
    BY <2>2, <2>3, <2>4 DEF Holds
  <2> QED BY <1>0, <2>1, <2>2, <2>5, HoldsSame
<1>8. ASSUME NEW c \in Calls, LockCredential(c)
      PROVE  Exclusive' /\ \A d \in Calls : Holds(d)'
  <2> DEFINE rows == {CredentialRow(scan[c].token)} \cup
                       (IF ByAuthorization(scan[c])
                          THEN {AuthorizationRow(scan[c].authorization)} ELSE {})
  <2>1. \A d \in Calls \ {c} : Same(d)
    BY <1>0, <1>8 DEF LockCredential, Lock, Same, HandlerOK
  <2>2. Lock(c, rows)
    BY <1>8 DEF LockCredential
  <2> HIDE DEF rows
  <2>3. Exclusive' /\ locks'[c] = locks[c] \cup rows
    BY <1>0, <2>2, LockExclusive
  <2>4. /\ RequestRow(scan[c].request) \in locks'[c] /\ scan'[c] = scan[c]
        /\ OfEmployee(scan[c].token) =>
             EmployeeRow(Owner[scan[c].token]) \in locks'[c]
    BY <1>0, <1>8, <2>3 DEF LockCredential, Holds, InTransaction
  <2>5. InTransaction(c)'
    BY <1>0, <1>8 DEF LockCredential, HandlerOK, InTransaction
  <2>6. Holds(c)'
    BY <2>4, <2>5 DEF Holds, OfEmployee
  <2> QED BY <1>0, <2>1, <2>3, <2>6, HoldsSame
<1>9. ASSUME NEW c \in Calls, NEW heard \in BOOLEAN, Commit(c, heard)
      PROVE  Exclusive' /\ \A d \in Calls : Holds(d)'
  <2>1. \A d \in Calls \ {c} : Same(d)
    BY <1>0, <1>9 DEF Commit, Unlock, Same, HandlerOK
  <2>2. Exclusive' /\ locks'[c] = {}
    BY <1>0, <1>9, UnlockExclusive DEF Commit
  <2>3. Holds(c)'
    BY <1>0, <1>9, <2>2 DEF Commit, Holds, HandlerOK, InTransaction
  <2> QED BY <1>0, <2>1, <2>2, <2>3, HoldsSame
<1>10. ASSUME NEW c \in Calls, NEW retry \in BOOLEAN, RollBack(c, retry)
       PROVE  Exclusive' /\ \A d \in Calls : Holds(d)'
  <2>1. \A d \in Calls \ {c} : Same(d)
    BY <1>0, <1>10 DEF RollBack, Unlock, Same, HandlerOK
  <2>2. Exclusive' /\ locks'[c] = {}
    BY <1>0, <1>10, UnlockExclusive DEF RollBack
  <2>3. Holds(c)'
    BY <1>0, <1>10, <2>2 DEF RollBack, Holds, HandlerOK, InTransaction
  <2> QED BY <1>0, <2>1, <2>2, <2>3, HoldsSame
<1>11. ASSUME NEW c \in Calls, NEW works \in BOOLEAN, MarkInterrupted(c, works)
       PROVE  Exclusive' /\ \A d \in Calls : Holds(d)'
  <2>1. \A d \in Calls \ {c} : Same(d)
    BY <1>0, <1>11 DEF MarkInterrupted, Same, HandlerOK
  <2>2. Holds(c)'
    BY <1>0, <1>11 DEF MarkInterrupted, Holds, HandlerOK, InTransaction
  <2> QED BY <1>0, <1>11, <2>1, <2>2, HoldsSame DEF MarkInterrupted, Exclusive
<1>12. ASSUME NEW c \in Calls, Crash(c)
       PROVE  Exclusive' /\ \A d \in Calls : Holds(d)'
  <2>1. \A d \in Calls \ {c} : Same(d)
    BY <1>0, <1>12 DEF Crash, Unlock, Same, HandlerOK
  <2>2. Exclusive' /\ locks'[c] = {}
    BY <1>0, <1>12, UnlockExclusive DEF Crash
  <2>3. Holds(c)'
    BY <1>0, <1>12, <2>2 DEF Crash, Holds, HandlerOK, InTransaction
  <2> QED BY <1>0, <2>1, <2>2, <2>3, HoldsSame
<1>13. CASE UNCHANGED handler
  BY <1>0, <1>13, HandlerSame, HoldsSame DEF handler, Exclusive
<1> QED
  BY <1>0, <1>1, <1>2, <1>3, <1>4, <1>5, <1>6, <1>7, <1>8, <1>9, <1>10, <1>11,
     <1>12, <1>13, OtherStepsFrame, NextCases

-----------------------------------------------------------------------------
(* Receipts                                                                *)

(* What ReceiptKept says of one call.                                      *)
Kept(c) ==
  /\ pc[c] # "idle" => scan[c] \in Scans
  /\ pc[c] = "authenticated" /\ fault[c] = "NONE" => scan[c].token # MalformedToken
  /\ pc[c] \in {"idle", "authenticated"} =>
       attempt[c] = NoAttempt /\ \A v \in servings : v.call # c
  /\ pc[c] = "received" \/ InTransaction(c) =>
       /\ attempt[c].request = scan[c].request
       /\ attempt[c].payload = payload[c]
       /\ \E d \in Devices \cup {None} : payload[c] = PayloadOf(scan[c], d)
       /\ scan[c].token # MalformedToken
  /\ InTransaction(c) => attempt[c].outcome = "RECEIVED"

LEMMA KeptSame ==
  ASSUME NEW d, Kept(d), Same(d), attempt'[d] = attempt[d],
         \A v \in servings' : v.call = d => v \in servings
  PROVE  Kept(d)'
BY DEF Kept, Same, InTransaction, PayloadOf

(* A closed attempt keeps its request and fingerprint, and an attempt of   *)
(* an open transaction is not closed by anybody else.                      *)
LEMMA InterruptKeeps ==
  ASSUME ServingInv, NEW c \in Calls, Interrupt(c)
  PROVE  /\ attempt[c].outcome # "RECEIVED" => attempt'[c] = attempt[c]
         /\ attempt'[c].request = attempt[c].request
         /\ attempt'[c].payload = attempt[c].payload
         /\ \A d \in Calls \ {c} : attempt'[d] = attempt[d]
<1>1. attempt \in [Calls -> AttemptRows]
  BY DEF ServingInv, TypeOK, TablesOK
<1> QED BY <1>1 DEF Interrupt, AttemptRows

LEMMA ReconcileOutside ==
  ASSUME ServingInv, NEW c \in Calls, Reconcile(c)
  PROVE  ~InTransaction(c)
<1>1. SUFFICES ASSUME InTransaction(c) PROVE FALSE
  OBVIOUS
<1>2. RequestRow(attempt[c].request) \in locks[c]
  BY <1>1 DEF ServingInv, LockDiscipline, ReceiptKept
<1> QED BY <1>2 DEF Reconcile, Free

LEMMA ReceiptStep ==
  ASSUME ServingInv, [Next]_vars
  PROVE  ReceiptKept'
<1> SUFFICES \A d \in Calls : Kept(d)'
  BY DEF ReceiptKept, Kept
<1> USE DEF tables
<1>0. HandlerOK /\ TablesOK /\ \A d \in Calls : Kept(d)
  BY DEF ServingInv, TypeOK, ReceiptKept, Kept
<1>1. ASSUME NEW c \in Calls, NEW s \in Scans, Authenticate(c, s)
      PROVE  \A d \in Calls : Kept(d)'
  <2>1. \A d \in Calls \ {c} : Same(d)
    BY <1>0, <1>1 DEF Authenticate, Same, HandlerOK
  <2>2. fault'[c] = "NONE" => s.token # MalformedToken
    BY <1>0, <1>1 DEF Authenticate, InputFault, HandlerOK
  <2>3. Kept(c)'
    BY <1>0, <1>1, <2>2 DEF Authenticate, Kept, HandlerOK, InTransaction
  <2> QED BY <1>0, <1>1, <2>1, <2>3, KeptSame DEF Authenticate
<1>2. ASSUME NEW c \in Calls, NEW heard \in BOOLEAN, Receive(c, heard)
      PROVE  \A d \in Calls : Kept(d)'
  <2>1. \A d \in Calls \ {c} : Same(d) /\ attempt'[d] = attempt[d]
    BY <1>0, <1>2 DEF Receive, RejectReceipt, WriteReceipt, InsertAttempt, Same,
       HandlerOK, TablesOK
  <2>2. scan'[c] = scan[c] /\ scan[c] \in Scans /\ servings' = servings
    BY <1>0, <1>2 DEF Receive, Kept
  <2>3. pc'[c] \in {"received", "done"}
    BY <1>0, <1>2 DEF Receive, HandlerOK
  <2>4. ASSUME pc'[c] = "received" PROVE Kept(c)'
    <3>1. ReceiptAnswer(c) = "NONE"
      BY <1>0, <1>2, <2>4 DEF Receive, HandlerOK
    <3>2. fault[c] = "NONE"
      BY <3>1 DEF ReceiptAnswer
    <3>3. WriteReceipt(c) /\ scan[c].token # MalformedToken
      BY <1>0, <1>2, <3>2 DEF Receive, RejectReceipt, Kept
    <3>4. /\ attempt'[c].request = scan[c].request
          /\ attempt'[c].payload = ReceiptPayload(scan[c])
          /\ payload'[c] = ReceiptPayload(scan[c])
      BY <1>0, <3>3 DEF WriteReceipt, InsertAttempt, HandlerOK, TablesOK
    <3>5. \E d \in Devices \cup {None} : payload'[c] = PayloadOf(scan[c], d)
      BY <2>2, <3>4, ReceiptPayloadType
    <3> QED BY <2>2, <2>4, <3>3, <3>4, <3>5 DEF Kept, InTransaction, PayloadOf
  <2>5. ASSUME pc'[c] = "done" PROVE Kept(c)'
    BY <2>2, <2>5 DEF Kept, InTransaction
  <2> QED BY <1>0, <2>1, <2>2, <2>3, <2>4, <2>5, KeptSame
<1>3. ASSUME NEW c \in Calls, NEW retry \in BOOLEAN, ReceiveFails(c, retry)
      PROVE  \A d \in Calls : Kept(d)'
  <2>1. \A d \in Calls \ {c} : Same(d)
    BY <1>0, <1>3 DEF ReceiveFails, Same, HandlerOK
  <2>2. Kept(c)'
    BY <1>0, <1>3 DEF ReceiveFails, Kept, HandlerOK, InTransaction
  <2> QED BY <1>0, <1>3, <2>1, <2>2, KeptSame DEF ReceiveFails
<1>4. ASSUME NEW c \in Calls,
             Begin(c) \/ BeginTooLate(c) \/ LockDevice(c) \/ LockEmployee(c)
               \/ LockCredential(c) \/ Crash(c)
               \/ (\E retry \in BOOLEAN : RollBack(c, retry))
      PROVE  \A d \in Calls : Kept(d)'
  <2>1. \A d \in Calls \ {c} : Same(d)
    BY <1>0, <1>4 DEF Begin, BeginTooLate, LockDevice, LockEmployee, LockCredential,
       Crash, RollBack, GoOn, Lock, Unlock, Same, HandlerOK
  <2>2. /\ scan' = scan /\ payload' = payload /\ fault' = fault
        /\ UNCHANGED tables
    BY <1>4 DEF Begin, BeginTooLate, LockDevice, LockEmployee, LockCredential,
       Crash, RollBack
  <2>3. /\ pc[c] \notin {"idle", "authenticated"} \/ pc'[c] = "crashed"
        /\ pc[c] # "idle"
        /\ pc'[c] \notin {"idle", "authenticated"}
    BY <1>0, <1>4 DEF Begin, BeginTooLate, LockDevice, LockEmployee, LockCredential,
       Crash, RollBack, GoOn, HandlerOK
  <2>4. InTransaction(c)' =>
          (pc[c] = "received" /\ attempt[c].outcome = "RECEIVED") \/ InTransaction(c)
    BY <1>0, <1>4 DEF Begin, BeginTooLate, LockDevice, LockEmployee, LockCredential,
       Crash, RollBack, HandlerOK, InTransaction
  <2>5. pc'[c] = "received" => pc[c] = "received" \/ InTransaction(c)
    BY <1>0, <1>4 DEF Begin, BeginTooLate, LockDevice, LockEmployee, LockCredential,
       Crash, RollBack, GoOn, HandlerOK, InTransaction
  <2>6. Kept(c)'
    BY <1>0, <2>2, <2>3, <2>4, <2>5 DEF Kept, PayloadOf
  <2> QED BY <1>0, <2>1, <2>2, <2>6, KeptSame
<1>5. ASSUME NEW c \in Calls, NEW heard \in BOOLEAN, Commit(c, heard)
      PROVE  \A d \in Calls : Kept(d)'
  <2>1. \A d \in Calls \ {c} : Same(d) /\ attempt'[d] = attempt[d]
    BY <1>0, <1>5 DEF Commit, Unlock, FinishAttempt, Same, HandlerOK, TablesOK
  <2>2. \A v \in servings' : v \in servings \/ v.call = c
    BY <1>5 DEF Commit, InsertServing
  <2>3. /\ scan'[c] = scan[c] /\ scan[c] \in Scans
        /\ pc'[c] \in {"done", "interrupted"}
    BY <1>0, <1>5 DEF Commit, Kept, HandlerOK
  <2>4. Kept(c)'
    BY <2>3 DEF Kept, InTransaction
  <2> QED BY <1>0, <2>1, <2>2, <2>4, KeptSame
<1>6. ASSUME NEW c \in Calls, NEW works \in BOOLEAN, MarkInterrupted(c, works)
      PROVE  \A d \in Calls : Kept(d)'
  <2>1. \A d \in Calls \ {c} : Same(d) /\ attempt'[d] = attempt[d]
    BY <1>0, <1>6 DEF MarkInterrupted, Interrupt, Same, HandlerOK, TablesOK
  <2>2. Kept(c)'
    BY <1>0, <1>6 DEF MarkInterrupted, Kept, HandlerOK, InTransaction
  <2> QED BY <1>0, <1>6, <2>1, <2>2, KeptSame DEF MarkInterrupted
<1>7. ASSUME NEW c \in Calls, Reconcile(c)
      PROVE  \A d \in Calls : Kept(d)'
  <2>1. Interrupt(c) /\ UNCHANGED handler /\ servings' = servings
    BY <1>7 DEF Reconcile
  <2>2. ~InTransaction(c)
    BY <1>7, ReconcileOutside
  <2>3. \A d \in Calls \ {c} : Kept(d)'
    BY <1>0, <2>1, InterruptKeeps, HandlerSame, KeptSame
  <2>4. attempt[c] = NoAttempt => attempt'[c] = NoAttempt
    BY <2>1, InterruptKeeps DEF NoAttempt
  <2>5. Kept(c)'
    BY <1>0, <2>1, <2>2, <2>4, InterruptKeeps
    DEF Kept, handler, InTransaction, PayloadOf
  <2> QED BY <2>3, <2>5
<1>8. ASSUME UNCHANGED handler, UNCHANGED <<attempt, servings>>
      PROVE  \A d \in Calls : Kept(d)'
  BY <1>0, <1>8, HandlerSame, KeptSame
<1>9. (\E chosen \in SUBSET Calls : Select(chosen)) \/ Change \/ Tick
        \/ UNCHANGED vars => UNCHANGED handler /\ UNCHANGED <<attempt, servings>>
  BY ChangeCases DEF Select, Tick, Authorize, RevokeAuthorization, vars
<1> QED
  BY <1>0, <1>1, <1>2, <1>3, <1>4, <1>5, <1>6, <1>7, <1>8, <1>9, NextCases

-----------------------------------------------------------------------------
(* Plans                                                                   *)

(* What PlanCurrent says of one call.                                      *)
Rivals(c, v) ==
  /\ OfEmployee(v.payload.token)
  /\ Owner[v.payload.token] = Owner[scan[c].token]
  /\ v.payload.mealType = scan[c].mealType

Current(c) ==
  InTransaction(c) =>
    /\ plan[c].act \in {"NONE", "SERVE", "REFUSE"}
         => request[scan[c].request].status = "PENDING"
    /\ pc[c] # "committing" => plan[c].act = "NONE"
    /\ pc[c] = "committing" => plan[c].act # "NONE"
    /\ plan[c].act = "DUPLICATE" => request[scan[c].request].status = "SUCCEEDED"
    /\ pc[c] = "placed" => OfEmployee(scan[c].token)
    /\ pc[c] \in {"placed", "admitted"} \/ plan[c].act = "SERVE" =>
         scan[c].token \in Credentials /\ payload[c].device \in Devices
    /\ plan[c].act = "SERVE" =>
         /\ plan[c].at <= clock
         /\ OfEmployee(scan[c].token) =>
              \A v \in servings : Rivals(c, v) => v.at + LockTime <= plan[c].at

LEMMA PlanCurrentParts ==
  PlanCurrent <=> \A c \in Calls : Current(c)
BY DEF PlanCurrent, Current, Rivals

(* Nobody but a commit moves a request that exists from its status.        *)
StatusKept ==
  \A r \in Requests :
    \/ request'[r].status = request[r].status
    \/ request[r].status = "NONE" /\ request'[r].status = "PENDING"

LEMMA StatusKeptUnlessCommit ==
  ASSUME ServingInv, [Next]_vars,
         ~\E c \in Calls, heard \in BOOLEAN : Commit(c, heard)
  PROVE  StatusKept
<1> USE DEF tables
<1>0. HandlerOK /\ request \in [Requests -> RequestRows]
  BY DEF ServingInv, TypeOK, TablesOK
<1>1. ASSUME NEW c \in Calls, NEW heard \in BOOLEAN, Receive(c, heard)
      PROVE  StatusKept
  <2>1. ASSUME NEW x, NEW p, Reserve(x, p), NEW r \in Requests
        PROVE  \/ request'[r].status = request[r].status
               \/ request[r].status = "NONE" /\ request'[r].status = "PENDING"
    <3>1. request[r] \in RequestRows
      BY <1>0
    <3> QED BY <1>0, <2>1, <3>1 DEF Reserve, RequestRows
  <2> QED BY <1>1, <2>1 DEF Receive, RejectReceipt, WriteReceipt, StatusKept
<1>2. ASSUME NEW r \in Requests, NEW s \in Scans, Authorize(r, s)
      PROVE  StatusKept
  BY <1>0, <1>2 DEF Authorize, StatusKept, RequestRows
<1>3. ASSUME NEW r \in Requests, RevokeAuthorization(r)
      PROVE  StatusKept
  BY <1>0, <1>3 DEF RevokeAuthorization, StatusKept, RequestRows
<1>4. ASSUME request' = request
      PROVE  StatusKept
  BY <1>4 DEF StatusKept
<1>5. \/ \E c \in Calls, heard \in BOOLEAN : Receive(c, heard)
      \/ Change
      \/ request' = request
  BY <1>0, NextCases DEF Authenticate, ReceiveFails, Begin, BeginTooLate, LockDevice,
     LockEmployee, LockCredential, RollBack, MarkInterrupted, Crash, Select,
     Reconcile, Tick, vars
<1> QED BY <1>1, <1>2, <1>3, <1>4, <1>5, ChangeCases

LEMMA ServingsKeptUnlessCommit ==
  ASSUME ServingInv, [Next]_vars,
         ~\E c \in Calls, heard \in BOOLEAN : Commit(c, heard)
  PROVE  servings' = servings
<1>0. HandlerOK
  BY DEF ServingInv, TypeOK
<1> QED
  BY <1>0, NextCases, ChangeCases DEF Authenticate, Receive, ReceiveFails, Begin,
     BeginTooLate, LockDevice, LockEmployee, LockCredential, RollBack,
     MarkInterrupted, Crash, Select, Reconcile, Authorize, RevokeAuthorization,
     Tick, vars, tables

LEMMA CurrentSame ==
  ASSUME ServingInv, NEW d \in Calls, Same(d), StatusKept, servings' = servings,
         clock' \in Nat, clock <= clock'
  PROVE  Current(d)'
<1>1. Current(d) /\ clock \in Nat /\ plan[d] \in Plans
  BY PlanCurrentParts DEF ServingInv, TypeOK, HandlerOK
<1>2. plan[d].at \in Nat
  BY <1>1 DEF Plans
<1>3. InTransaction(d) => scan[d].request \in Requests
  BY ScanParts DEF ServingInv, ReceiptKept, InTransaction
<1>4. InTransaction(d) => request'[scan[d].request].status = request[scan[d].request].status
        \/ plan[d].act \notin {"NONE", "SERVE", "REFUSE", "DUPLICATE"}
  BY <1>1, <1>3 DEF StatusKept, Current
<1>5. (plan[d].at <= clock) => (plan[d].at <= clock')
  BY <1>1, <1>2
<1> QED BY <1>1, <1>4, <1>5 DEF Current, Same, InTransaction, Rivals, OfEmployee

(* A call that has just read the request.                                  *)
LEMMA BeginCurrent ==
  ASSUME ServingInv, NEW c \in Calls, Begin(c)
  PROVE  Current(c)'
<1>0. HandlerOK /\ scan[c] \in Scans
  BY DEF ServingInv, TypeOK, Begin, ReceiptKept
<1> DEFINE r == scan[c].request
<1>1. r \in Requests
  BY <1>0, ScanParts
<1>2. request[r].status \in {"NONE", "PENDING", "SUCCEEDED", "REJECTED"}
  BY <1>1 DEF ServingInv, TypeOK, TablesOK, RequestRows
<1>3. payload[c] \in Payloads
  BY <1>0, PayloadType DEF Begin, ServingInv, ReceiptKept
<1>4. request[r].payload = payload[c] => request[r].status # "NONE"
  BY <1>1, <1>3 DEF ServingInv, RowsLinked
<1>5. /\ EarlyPlan(c).act = "NONE" => request[r].status = "PENDING"
      /\ EarlyPlan(c).act = "DUPLICATE" => request[r].status = "SUCCEEDED"
  BY <1>2, <1>4 DEF EarlyPlan, Act, NoPlan
<1>6. /\ scan'[c] = scan[c] /\ plan'[c] = EarlyPlan(c) /\ request' = request
      /\ pc'[c] = IF EarlyPlan(c).act = "NONE" THEN "locked" ELSE "committing"
  BY <1>0 DEF Begin, HandlerOK, tables
<1> QED BY <1>5, <1>6, EarlyActs DEF Current

LEMMA LockDeviceCurrent ==
  ASSUME ServingInv, NEW c \in Calls, LockDevice(c)
  PROVE  Current(c)'
<1> DEFINE d == DeviceOf(scan[c].scanner)
           code == DeviceFault(c, d)
<1>0. HandlerOK /\ scan[c] \in Scans /\ Current(c) /\ InTransaction(c)
  BY PlanCurrentParts
  DEF ServingInv, TypeOK, LockDevice, ReceiptKept, InTransaction
<1>1. /\ plan[c].act = "NONE" /\ request[scan[c].request].status = "PENDING"
      /\ scan[c].token # MalformedToken
  BY <1>0 DEF LockDevice, Current, ServingInv, ReceiptKept
<1>2. /\ scan'[c] = scan[c] /\ payload'[c] = payload[c] /\ request' = request
      /\ IF code = "NONE"
           THEN /\ plan'[c] = plan[c]
                /\ pc'[c] = IF OfEmployee(scan[c].token) THEN "placed" ELSE "admitted"
           ELSE plan'[c].act = "REFUSE" /\ pc'[c] = "committing"
  BY <1>0 DEF LockDevice, GoOn, HandlerOK, tables, Act, Plans
<1>3. code = "NONE" => /\ d \in Devices /\ payload[c].device = d
                       /\ scan[c].token \in Credentials
  BY <1>0, <1>1, ScanParts, DeviceOfType DEF DeviceFault
<1> QED BY <1>1, <1>2, <1>3 DEF Current, OfEmployee

LEMMA LockEmployeeCurrent ==
  ASSUME ServingInv, NEW c \in Calls, LockEmployee(c)
  PROVE  Current(c)'
<1>0. HandlerOK /\ Current(c) /\ InTransaction(c)
  BY PlanCurrentParts DEF ServingInv, TypeOK, LockEmployee, InTransaction
<1>1. /\ plan[c].act = "NONE" /\ request[scan[c].request].status = "PENDING"
      /\ scan[c].token \in Credentials /\ payload[c].device \in Devices
  BY <1>0 DEF LockEmployee, Current
<1>2. /\ scan'[c] = scan[c] /\ payload'[c] = payload[c] /\ request' = request
      /\ \/ plan'[c] = plan[c] /\ pc'[c] = "admitted"
         \/ plan'[c].act = "REFUSE" /\ pc'[c] = "committing"
  BY <1>0 DEF LockEmployee, GoOn, HandlerOK, tables, Act, Plans
<1> QED BY <1>1, <1>2 DEF Current, OfEmployee

(* The window is clear when a serving is decided.                          *)
LEMMA DecisionClear ==
  ASSUME ServingInv, NEW c \in Calls, pc[c] = "admitted",
         Decision(c).act = "SERVE", OfEmployee(scan[c].token),
         NEW v \in servings, Rivals(c, v)
  PROVE  v.at + LockTime <= clock
<1>1. scan[c] \in Scans /\ clock \in Nat /\ v.at \in Nat /\ v.at <= clock
  BY DEF ServingInv, TypeOK, TablesOK, ServingRows, ReceiptKept, RowsLinked
<1>2. ServingFault(c) = "NONE"
  BY DEF Decision, Act, NeedsDetails, OfEmployee
<1>3. EmployeeFault(scan[c]) = "NONE"
  BY <1>2 DEF ServingFault, OfEmployee
<1>4. LockTime > 0 =>
        ~\E w \in servings : InWindow(w, Owner[scan[c].token], scan[c].mealType)
  BY <1>3 DEF EmployeeFault
<1>5. LockTime \in Nat
  BY ServingAssumption
<1> QED BY <1>1, <1>4, <1>5 DEF InWindow, Rivals

LEMMA LockCredentialCurrent ==
  ASSUME ServingInv, NEW c \in Calls, LockCredential(c)
  PROVE  Current(c)'
<1>0. HandlerOK /\ Current(c) /\ InTransaction(c) /\ clock \in Nat
  BY PlanCurrentParts DEF ServingInv, TypeOK, LockCredential, InTransaction
<1>1. /\ plan[c].act = "NONE" /\ request[scan[c].request].status = "PENDING"
      /\ scan[c].token \in Credentials /\ payload[c].device \in Devices
  BY <1>0 DEF LockCredential, Current
<1>2. /\ scan' = scan /\ payload' = payload /\ UNCHANGED tables
      /\ plan'[c] = Decision(c) /\ pc'[c] = "committing" /\ clock' = clock
  BY <1>0 DEF LockCredential, HandlerOK
<1>3. /\ Decision(c).act \in {"SERVE", "REFUSE", "REJECT", "AWAIT"}
      /\ Decision(c).at = clock
  BY DEF Decision, Act
<1>4. Decision(c).act = "SERVE" /\ OfEmployee(scan[c].token) =>
        \A v \in servings : Rivals(c, v) => v.at + LockTime <= clock
  BY DecisionClear DEF LockCredential
<1> QED BY <1>0, <1>1, <1>2, <1>3, <1>4 DEF Current, tables, Rivals, OfEmployee

(* What a call serves is what it scanned.                                  *)
LEMMA CommittedPayload ==
  ASSUME ServingInv, NEW c \in Calls, pc[c] = "committing"
  PROVE  /\ payload[c].token = scan[c].token
         /\ payload[c].mealType = scan[c].mealType
<1>1. PICK d \in Devices \cup {None} : payload[c] = PayloadOf(scan[c], d)
  BY DEF ServingInv, ReceiptKept, InTransaction
<1> QED BY <1>1 DEF PayloadOf

(* A commit finds no rival that is about to commit too.                    *)
LEMMA CommitCurrent ==
  ASSUME ServingInv, NEW c \in Calls, NEW heard \in BOOLEAN, Commit(c, heard),
         NEW d \in Calls \ {c}
  PROVE  Current(d)'
<1>0. HandlerOK /\ TablesOK /\ scan[c] \in Scans /\ Current(d) /\ Exclusive
  BY PlanCurrentParts, LockDisciplineParts
  DEF ServingInv, TypeOK, Commit, ReceiptKept
<1>1. Same(d) /\ clock' = clock
  BY <1>0 DEF Commit, Unlock, Same, HandlerOK
<1>2. CASE ~InTransaction(d)
  BY <1>1, <1>2 DEF Current, Same, InTransaction
<1>3. CASE InTransaction(d)
  <2>1. scan[d] \in Scans /\ scan[c].request \in Requests /\ scan[d].request \in Requests
    BY <1>0, <1>3, ScanParts DEF ServingInv, ReceiptKept, InTransaction
  <2>2. scan[d].request # scan[c].request
    <3>1. RequestRow(scan[c].request) \in locks[c] /\ RequestRow(scan[d].request) \in locks[d]
      BY <1>3, LockDisciplineParts DEF Commit, ServingInv, Holds, InTransaction
    <3> QED BY <1>0, <2>1, <3>1, RowKinds DEF Exclusive
  <2>3. request'[scan[d].request] = request[scan[d].request]
    BY <1>0, <2>1, <2>2 DEF Commit, FinishRequest, TablesOK
  <2>4. ASSUME plan[d].act = "SERVE", OfEmployee(scan[d].token),
               NEW v \in servings' \ servings
        PROVE  ~Rivals(d, v)
    <3>1. SUFFICES ASSUME Rivals(d, v) PROVE FALSE
      OBVIOUS
    <3>2. plan[c].act = "SERVE" /\ v.payload = payload[c]
      BY <2>4 DEF Commit, InsertServing
    <3>3. payload[c].token = scan[c].token
      BY CommittedPayload DEF Commit
    <3>4. OfEmployee(scan[c].token) /\ Owner[scan[c].token] = Owner[scan[d].token]
      BY <3>1, <3>2, <3>3 DEF Rivals
    <3>5. EmployeeRow(Owner[scan[c].token]) \in locks[c]
      BY <3>2, <3>4, LockDisciplineParts DEF Commit, ServingInv, Holds
    <3>6. pc[d] = "committing"
      BY <1>0, <1>3, <2>4 DEF Current
    <3>7. EmployeeRow(Owner[scan[d].token]) \in locks[d]
      BY <2>4, <3>6, LockDisciplineParts DEF ServingInv, Holds
    <3>8. Owner[scan[c].token] \in Employees
      BY <3>4, ServingAssumption DEF OfEmployee
    <3> QED BY <1>0, <3>4, <3>5, <3>7, <3>8, RowKinds DEF Exclusive
  <2> QED BY <1>0, <1>1, <2>3, <2>4 DEF Current, Same, InTransaction, Rivals, OfEmployee
<1> QED BY <1>2, <1>3

LEMMA PlanStep ==
  ASSUME ServingInv, [Next]_vars
  PROVE  PlanCurrent'
<1> SUFFICES \A d \in Calls : Current(d)'
  BY DEF PlanCurrent, Current, Rivals
<1>0. /\ HandlerOK /\ TypeOK /\ \A d \in Calls : Current(d)
      /\ clock' \in Nat /\ clock <= clock'
  BY PlanCurrentParts, TimeStep DEF ServingInv, TypeOK
<1>1. ASSUME NEW c \in Calls, NEW heard \in BOOLEAN, Commit(c, heard)
      PROVE  \A d \in Calls : Current(d)'
  <2>1. ~InTransaction(c)'
    BY <1>0, <1>1 DEF Commit, HandlerOK, InTransaction
  <2> QED BY <1>1, <2>1, CommitCurrent DEF Current
<1>2. ASSUME ~\E c \in Calls, heard \in BOOLEAN : Commit(c, heard)
      PROVE  \A d \in Calls : Current(d)'
  <2>0. StatusKept
    BY <1>2, StatusKeptUnlessCommit
  <2>1. servings' = servings
    BY <1>2, ServingsKeptUnlessCommit
  <2>2. ASSUME NEW c \in Calls,
               Begin(c) \/ LockDevice(c) \/ LockEmployee(c) \/ LockCredential(c)
        PROVE  \A d \in Calls : Current(d)'
    <3>1. \A d \in Calls \ {c} : Same(d)
      BY <1>0, <2>2 DEF Begin, LockDevice, LockEmployee, LockCredential, Lock, GoOn,
         Same, HandlerOK
    <3>2. Current(c)'
      BY <2>2, BeginCurrent, LockDeviceCurrent, LockEmployeeCurrent,
         LockCredentialCurrent
    <3> QED BY <1>0, <2>0, <2>1, <3>1, <3>2, CurrentSame
  <2>3. ASSUME NEW c \in Calls,
               \/ \E s \in Scans : Authenticate(c, s)
               \/ \E heard \in BOOLEAN : Receive(c, heard)
               \/ \E retry \in BOOLEAN : ReceiveFails(c, retry) \/ RollBack(c, retry)
               \/ \E works \in BOOLEAN : MarkInterrupted(c, works)
               \/ BeginTooLate(c) \/ Crash(c)
        PROVE  \A d \in Calls : Current(d)'
    <3>1. \A d \in Calls \ {c} : Same(d)
      BY <1>0, <2>3 DEF Authenticate, Receive, RejectReceipt, WriteReceipt,
         ReceiveFails, RollBack, MarkInterrupted, BeginTooLate, Crash, Unlock, Same,
         HandlerOK
    <3>2. ~InTransaction(c)'
      BY <1>0, <2>3 DEF Authenticate, Receive, ReceiveFails, RollBack,
         MarkInterrupted, BeginTooLate, Crash, HandlerOK, InTransaction
    <3>3. Current(c)'
      BY <3>2 DEF Current
    <3> QED BY <1>0, <2>0, <2>1, <3>1, <3>3, CurrentSame
  <2>4. ASSUME UNCHANGED handler
        PROVE  \A d \in Calls : Current(d)'
    BY <1>0, <2>0, <2>1, <2>4, HandlerSame, CurrentSame
  <2> QED BY <1>0, <1>2, <2>2, <2>3, <2>4, NextCases, OtherStepsFrame
<1> QED BY <1>1, <1>2

-----------------------------------------------------------------------------
(* Requests, attempts and servings                                         *)

(* What a committing call writes.                                          *)
LEMMA CommitEffect ==
  ASSUME ServingInv, NEW c \in Calls, NEW heard \in BOOLEAN, Commit(c, heard)
  PROVE  LET r == scan[c].request
             row == [call |-> c, request |-> r, payload |-> payload[c],
                     visitor |-> scan[c].visitor,
                     authorization |-> scan[c].authorization, at |-> plan[c].at]
         IN /\ r \in Requests /\ r = attempt[c].request
            /\ payload[c] = attempt[c].payload
            /\ servings' = IF plan[c].act = "SERVE" THEN servings \cup {row} ELSE servings
            /\ \A x \in Requests \ {r} : request'[x] = request[x]
            /\ request'[r].payload = request[r].payload
            /\ request'[r].status = IF plan[c].act = "SERVE" THEN "SUCCEEDED"
                                    ELSE IF plan[c].act = "REFUSE" THEN "REJECTED"
                                    ELSE request[r].status
            /\ plan[c].act \in {"SERVE", "REFUSE"} => request[r].status = "PENDING"
            /\ \A d \in Calls \ {c} : attempt'[d] = attempt[d]
            /\ attempt[c].outcome = "RECEIVED"
            /\ attempt'[c].request = attempt[c].request
            /\ attempt'[c].payload = attempt[c].payload
            /\ attempt'[c].outcome = "SUCCESS" <=> plan[c].act = "SERVE"
<1>0. TablesOK /\ scan[c] \in Scans /\ Current(c) /\ InTransaction(c)
  BY PlanCurrentParts DEF ServingInv, TypeOK, Commit, ReceiptKept, InTransaction
<1> DEFINE r == scan[c].request
<1>1. r \in Requests /\ request[r] \in RequestRows /\ attempt[c] \in AttemptRows
  BY <1>0, ScanParts DEF TablesOK
<1>2. r = attempt[c].request /\ payload[c] = attempt[c].payload
        /\ attempt[c].outcome = "RECEIVED"
  BY <1>0 DEF ServingInv, ReceiptKept
<1>3. /\ \A x \in Requests \ {r} : request'[x] = request[x]
      /\ request'[r].payload = request[r].payload
      /\ request'[r].status = IF plan[c].act = "SERVE" THEN "SUCCEEDED"
                              ELSE IF plan[c].act = "REFUSE" THEN "REJECTED"
                              ELSE request[r].status
  BY <1>0, <1>1 DEF Commit, FinishRequest, TablesOK, RequestRows
<1>4. plan[c].act \in {"SERVE", "REFUSE"} => request[r].status = "PENDING"
  BY <1>0 DEF Current
<1>5. /\ \A d \in Calls \ {c} : attempt'[d] = attempt[d]
      /\ attempt'[c].request = attempt[c].request
      /\ attempt'[c].payload = attempt[c].payload
      /\ attempt'[c].outcome = "SUCCESS" <=> plan[c].act = "SERVE"
  BY <1>0, <1>1 DEF Commit, FinishAttempt, TablesOK, AttemptRows
<1> QED BY <1>1, <1>2, <1>3, <1>4, <1>5 DEF Commit, InsertServing

(* A request is served once, whatever commits.                             *)
LEMMA ServedStep ==
  ASSUME ServingInv, [Next]_vars
  PROVE  ServedOnce'
<1>0. ServedOnce /\ servings \subseteq ServingRows
  BY DEF ServingInv, TypeOK, TablesOK
<1>1. ASSUME NEW c \in Calls, NEW heard \in BOOLEAN, Commit(c, heard)
      PROVE  ServedOnce'
  <2> DEFINE r == scan[c].request
  <2>1. CASE plan[c].act = "SERVE"
    <3> DEFINE row == [call |-> c, request |-> r, payload |-> payload[c],
                       visitor |-> scan[c].visitor,
                       authorization |-> scan[c].authorization, at |-> plan[c].at]
    <3>1. servings' = servings \cup {row} /\ row.request = r
      BY <1>1, <2>1, CommitEffect
    <3> HIDE DEF row
    <3>2. \A v \in servings : v.request # r
      BY <1>0, <1>1, <2>1, CommitEffect DEF ServedOnce
    <3>3. request'[r].status = "SUCCEEDED"
            /\ \A x \in Requests \ {r} : request'[x] = request[x]
      BY <1>1, <2>1, CommitEffect
    <3> QED BY <1>0, <3>1, <3>2, <3>3 DEF ServedOnce
  <2>2. CASE plan[c].act # "SERVE"
    <3>1. servings' = servings
      BY <1>1, <2>2, CommitEffect
    <3>2. \A x \in Requests : request'[x].status = "SUCCEEDED"
                                <=> request[x].status = "SUCCEEDED"
      BY <1>1, <2>2, CommitEffect
    <3> QED BY <1>0, <3>1, <3>2 DEF ServedOnce
  <2> QED BY <2>1, <2>2
<1>2. ASSUME ~\E c \in Calls, heard \in BOOLEAN : Commit(c, heard)
      PROVE  ServedOnce'
  <2>1. servings' = servings
    BY <1>2, ServingsKeptUnlessCommit
  <2>2. \A x \in Requests : request'[x].status = "SUCCEEDED"
                              <=> request[x].status = "SUCCEEDED"
    BY <1>2, StatusKeptUnlessCommit DEF StatusKept
  <2> QED BY <1>0, <2>1, <2>2 DEF ServedOnce
<1> QED BY <1>1, <1>2


(* No two meals of one type within the window of an employee: the new      *)
(* serving was decided under the employee's row lock, which its plan still *)
(* holds.                                                                  *)
LEMMA WindowStep ==
  ASSUME ServingInv, [Next]_vars
  PROVE  WindowRespected'
<1>0. WindowRespected /\ servings \subseteq ServingRows
  BY DEF ServingInv, TypeOK, TablesOK
<1>1. ASSUME NEW c \in Calls, NEW heard \in BOOLEAN, Commit(c, heard),
             plan[c].act = "SERVE"
      PROVE  WindowRespected'
  <2> DEFINE row == [call |-> c, request |-> scan[c].request, payload |-> payload[c],
                     visitor |-> scan[c].visitor,
                     authorization |-> scan[c].authorization, at |-> plan[c].at]
  <2>1. servings' = servings \cup {row} /\ row.payload = payload[c]
          /\ row.at = plan[c].at
    BY <1>1, CommitEffect
  <2> HIDE DEF row
  <2>2. pc[c] = "committing" /\ InTransaction(c) /\ Current(c)
    BY <1>1, PlanCurrentParts DEF Commit, InTransaction, ServingInv
  <2>3. OfEmployee(scan[c].token) =>
          \A v \in servings : Rivals(c, v) => row.at >= v.at + LockTime
    <3>1. plan[c].at \in Nat /\ LockTime \in Nat
      BY ServingAssumption DEF ServingInv, TypeOK, HandlerOK, Plans
    <3>2. \A v \in servings : v.at \in Nat
      BY <1>0 DEF ServingRows
    <3> QED BY <1>1, <2>1, <2>2, <3>1, <3>2 DEF Current
  <2>4. row.payload.token = scan[c].token /\ row.payload.mealType = scan[c].mealType
    BY <2>1, <2>2, CommittedPayload
  <2> QED BY <1>0, <2>1, <2>3, <2>4 DEF WindowRespected, Rivals, OfEmployee
<1>2. ASSUME servings' = servings
      PROVE  WindowRespected'
  BY <1>0, <1>2 DEF WindowRespected, OfEmployee
<1>3. servings' = servings
        \/ \E c \in Calls, heard \in BOOLEAN : Commit(c, heard) /\ plan[c].act = "SERVE"
  BY ServingsKeptUnlessCommit, CommitEffect
<1> QED BY <1>1, <1>2, <1>3

(* Requests keep a fingerprint, and servings and successful attempts name  *)
(* each other.                                                             *)
PayloadsLinked ==
  \A r \in Requests : request[r].status # "NONE" <=> request[r].payload \in Payloads

LEMMA PayloadsStep ==
  ASSUME ServingInv, [Next]_vars
  PROVE  PayloadsLinked'
<1> USE DEF tables
<1>0. /\ HandlerOK /\ TypeOK /\ PayloadsLinked
      /\ request \in [Requests -> RequestRows]
  BY DEF ServingInv, TypeOK, TablesOK, RowsLinked, PayloadsLinked
<1>1. ASSUME NEW c \in Calls, NEW heard \in BOOLEAN, Receive(c, heard)
      PROVE  PayloadsLinked'
  <2>1. CASE RejectReceipt(c)
    BY <1>0, <2>1 DEF RejectReceipt, PayloadsLinked
  <2>2. CASE WriteReceipt(c)
    <3>1. scan[c] \in Scans /\ scan[c].token # MalformedToken
      BY <1>1, <2>2 DEF Receive, WriteReceipt, ServingInv, ReceiptKept
    <3>2. ReceiptPayload(scan[c]) \in Payloads
      BY <3>1, ReceiptPayloadType, PayloadType
    <3>3. Reserve(scan[c].request, ReceiptPayload(scan[c]))
      BY <2>2 DEF WriteReceipt
    <3> QED BY <1>0, <3>2, <3>3 DEF Reserve, PayloadsLinked, RequestRows
  <2> QED BY <1>1, <2>1, <2>2 DEF Receive
<1>2. ASSUME NEW c \in Calls, NEW heard \in BOOLEAN, Commit(c, heard)
      PROVE  PayloadsLinked'
  <2> DEFINE r == scan[c].request
  <2>1. /\ r \in Requests
        /\ \A x \in Requests \ {r} : request'[x] = request[x]
        /\ request'[r].payload = request[r].payload
    BY <1>2, CommitEffect
  <2>2. request'[r].status # "NONE" <=> request[r].status # "NONE"
    BY <1>2, CommitEffect
  <2> QED BY <1>0, <2>1, <2>2 DEF PayloadsLinked
<1>3. ASSUME NEW r \in Requests, NEW s \in Scans, Authorize(r, s)
      PROVE  PayloadsLinked'
  <2>1. PayloadOf(s, DeviceOf(s.scanner)) \in Payloads
    BY <1>3, DeviceOfType, PayloadType, ServingAssumption DEF Authorize
  <2> QED BY <1>0, <1>3, <2>1 DEF Authorize, PayloadsLinked, RequestRows
<1>4. ASSUME NEW r \in Requests, RevokeAuthorization(r)
      PROVE  PayloadsLinked'
  BY <1>0, <1>4 DEF RevokeAuthorization, PayloadsLinked, RequestRows
<1>5. ASSUME request' = request
      PROVE  PayloadsLinked'
  BY <1>0, <1>5 DEF PayloadsLinked
<1>6. \/ \E c \in Calls, heard \in BOOLEAN : Receive(c, heard) \/ Commit(c, heard)
      \/ Change
      \/ request' = request
  BY <1>0, NextCases DEF Authenticate, ReceiveFails, Begin, BeginTooLate, LockDevice,
     LockEmployee, LockCredential, RollBack, MarkInterrupted, Crash, Select,
     Reconcile, Tick, vars
<1> QED BY <1>1, <1>2, <1>3, <1>4, <1>5, <1>6, ChangeCases

(* What RowsLinked says of attempts and servings.                          *)
AttemptsLinked ==
  /\ \A v \in servings :
       /\ attempt[v.call].outcome = "SUCCESS"
       /\ attempt[v.call].request = v.request
       /\ attempt[v.call].payload = v.payload
       /\ v.at <= clock
  /\ \A c \in Calls : attempt[c].outcome = "SUCCESS" => \E v \in servings : v.call = c

LEMMA AttemptsStep ==
  ASSUME ServingInv, [Next]_vars
  PROVE  AttemptsLinked'
<1> USE DEF tables
<1>0. /\ HandlerOK /\ TablesOK /\ AttemptsLinked /\ clock \in Nat
      /\ clock' \in Nat /\ clock <= clock'
      /\ \A v \in servings : v.call \in Calls /\ v.at \in Nat
  BY TimeStep DEF ServingInv, TypeOK, TablesOK, RowsLinked, AttemptsLinked, ServingRows
<1>1. ASSUME NEW c \in Calls, NEW heard \in BOOLEAN, Receive(c, heard)
      PROVE  AttemptsLinked'
  <2>1. /\ \A d \in Calls \ {c} : attempt'[d] = attempt[d]
        /\ attempt'[c].outcome # "SUCCESS"
        /\ servings' = servings /\ clock' = clock
    BY <1>0, <1>1 DEF Receive, RejectReceipt, WriteReceipt, InsertAttempt, TablesOK
  <2>2. \A v \in servings : v.call # c
    BY <1>1 DEF Receive, ServingInv, ReceiptKept
  <2> QED BY <1>0, <2>1, <2>2 DEF AttemptsLinked
<1>2. ASSUME NEW c \in Calls, NEW heard \in BOOLEAN, Commit(c, heard)
      PROVE  AttemptsLinked'
  <2>1. /\ \A d \in Calls \ {c} : attempt'[d] = attempt[d]
        /\ attempt[c].outcome = "RECEIVED"
    BY <1>2, CommitEffect
  <2>2. clock' = clock /\ \A v \in servings : v.call # c
    BY <1>0, <1>2, <2>1 DEF Commit, AttemptsLinked
  <2>3. CASE plan[c].act = "SERVE"
    <3> DEFINE row == [call |-> c, request |-> scan[c].request, payload |-> payload[c],
                       visitor |-> scan[c].visitor,
                       authorization |-> scan[c].authorization, at |-> plan[c].at]
    <3>1. /\ servings' = servings \cup {row}
          /\ row.call = c /\ row.request = attempt[c].request
          /\ row.payload = attempt[c].payload /\ row.at = plan[c].at
      BY <1>2, <2>3, CommitEffect
    <3> HIDE DEF row
    <3>2. plan[c].at <= clock
      BY <1>2, <2>3, PlanCurrentParts DEF Commit, Current, InTransaction, ServingInv
    <3>3. /\ attempt'[c].outcome = "SUCCESS"
          /\ attempt'[c].request = row.request
          /\ attempt'[c].payload = row.payload
      BY <1>2, <2>3, <3>1, CommitEffect
    <3> QED BY <1>0, <2>1, <2>2, <3>1, <3>2, <3>3 DEF AttemptsLinked
  <2>4. CASE plan[c].act # "SERVE"
    <3>1. servings' = servings /\ attempt'[c].outcome # "SUCCESS"
      BY <1>2, <2>4, CommitEffect
    <3> QED BY <1>0, <2>1, <2>2, <3>1 DEF AttemptsLinked
  <2> QED BY <2>3, <2>4
<1>3. ASSUME NEW c \in Calls, Interrupt(c), servings' = servings, clock' = clock
      PROVE  AttemptsLinked'
  <2>1. attempt'[c].outcome = "SUCCESS" <=> attempt[c].outcome = "SUCCESS"
    BY <1>0, <1>3 DEF Interrupt, TablesOK, AttemptRows
  <2> QED BY <1>0, <1>3, <2>1, InterruptKeeps DEF AttemptsLinked
<1>4. ASSUME attempt' = attempt, servings' = servings
      PROVE  AttemptsLinked'
  BY <1>0, <1>4 DEF AttemptsLinked
<1>5. \/ \E c \in Calls, heard \in BOOLEAN : Receive(c, heard) \/ Commit(c, heard)
      \/ \E c \in Calls : Interrupt(c) /\ servings' = servings /\ clock' = clock
      \/ attempt' = attempt /\ servings' = servings
  <2>1. \A c \in Calls, works \in BOOLEAN : MarkInterrupted(c, works) =>
          /\ servings' = servings /\ clock' = clock
          /\ Interrupt(c) \/ attempt' = attempt
    BY DEF MarkInterrupted
  <2>2. \A c \in Calls : Reconcile(c) =>
          Interrupt(c) /\ servings' = servings /\ clock' = clock
    BY DEF Reconcile
  <2>3. Change => attempt' = attempt /\ servings' = servings
    BY ChangeCases DEF Authorize, RevokeAuthorization
  <2> QED BY <1>0, <2>1, <2>2, <2>3, NextCases DEF Authenticate, ReceiveFails, Begin,
     BeginTooLate, LockDevice, LockEmployee, LockCredential, RollBack, Crash, Select,
     Tick, vars
<1> QED BY <1>1, <1>2, <1>3, <1>4, <1>5

LEMMA RowsStep ==
  ASSUME ServingInv, [Next]_vars
  PROVE  RowsLinked'
BY PayloadsStep, AttemptsStep DEF RowsLinked, PayloadsLinked, AttemptsLinked

-----------------------------------------------------------------------------
(* The theorems                                                            *)

LEMMA InitInv == Init => ServingInv
<1> SUFFICES ASSUME Init PROVE ServingInv
  OBVIOUS
<1>1. TypeOK
  BY InitTypes
<1>2. LockDiscipline /\ PlanCurrent
  BY DEF Init, LockDiscipline, PlanCurrent, InTransaction
<1>3. ReceiptKept
  BY DEF Init, ReceiptKept, InTransaction
<1>4. RowsLinked
  <2>1. None \notin Payloads
    BY ServingAssumption
  <2> QED BY <2>1 DEF Init, RowsLinked, NoRequest, NoAttempt
<1>5. ServedOnce /\ WindowRespected
  BY DEF Init, ServedOnce, WindowRespected, NoRequest
<1> QED BY <1>1, <1>2, <1>3, <1>4, <1>5 DEF ServingInv

(* ServingInv is inductive.                                                *)
THEOREM Inductive == Spec => []ServingInv
<1>1. ServingInv /\ [Next]_vars => ServingInv'
  BY TypeStep, LockStep, ReceiptStep, PlanStep, RowsStep, ServedStep, WindowStep
  DEF ServingInv
<1> QED BY InitInv, <1>1, PTL DEF Spec

(* Every variable keeps its type, for any number of calls.                 *)
THEOREM TypeCorrect == Spec => []TypeOK
<1>1. ServingInv => TypeOK
  BY DEF ServingInv
<1> QED BY Inductive, <1>1, PTL

(* A request id buys at most one serving, however many calls repeat it and *)
(* whatever crashes, lost acknowledgements and retries happen.             *)
THEOREM RequestServedOnce == Spec => []ServedOnce
<1>1. ServingInv => ServedOnce
  BY DEF ServingInv
<1> QED BY Inductive, <1>1, PTL

(* The audit trail of scan attempts agrees with the servings.              *)
THEOREM AuditAgrees == Spec => []AttemptTellsServing
<1>1. ServingInv => AttemptTellsServing
  BY DEF ServingInv, RowsLinked, AttemptTellsServing
<1> QED BY Inductive, <1>1, PTL

(* No employee gets two meals of one type within the lock window.          *)
THEOREM WindowHolds == Spec => []WindowRespected
<1>1. ServingInv => WindowRespected
  BY DEF ServingInv
<1> QED BY Inductive, <1>1, PTL

(* What a transaction read before it locked is still true when it commits. *)
THEOREM PlansStayCurrent == Spec => []PlanCurrent
<1>1. ServingInv => PlanCurrent
  BY DEF ServingInv
<1> QED BY Inductive, <1>1, PTL
=============================================================================
