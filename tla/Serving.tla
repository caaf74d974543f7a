------------------------------ MODULE Serving ------------------------------
(***************************************************************************)
(* The scan core: MealService and ApprovalService of                       *)
(* backend/meal_management/meals.py.  One call is one HTTP scan request    *)
(* served by one worker thread.  It authenticates, writes a RECEIVED scan  *)
(* attempt in a transaction of its own, then decides the serving request   *)
(* in a further transaction that takes row locks one after the other.      *)
(* Any number of calls run at the same time, repeat a request id, change   *)
(* their input between repeats, crash, lose a commit acknowledgement, or   *)
(* are rolled back by the database.  Administrators rename scanners,       *)
(* revoke credentials and authorizations, withdraw meal types and          *)
(* deactivate people meanwhile.                                            *)
(*                                                                         *)
(* A call owns exactly one scan_attempts row, so attempts are indexed by   *)
(* calls.  A credential is named by its token; an authorization by the     *)
(* request it was prepared for (its request_id column is unique).  The     *)
(* location of a scan is that of its device and is not tracked apart.      *)
(***************************************************************************)
EXTENDS Integers, FiniteSets

CONSTANTS
  Calls,          \* scan calls, each handled once by some worker
  Requests,       \* request identifiers chosen by scanner clients
  Staff,          \* staff accounts, the public scanner's account included
  Admin,          \* the administrator who authorizes visitor servings
  Devices,        \* scanner_devices rows
  ScannerCodes,   \* codes a scan may report
  MealTypes,
  Employees,
  Credentials,    \* QR tokens that have been issued
  Visitors,       \* visitor details a scan may carry
  Scans,          \* the inputs that calls may carry
  Label,          \* Label[d]: the code device d starts with
  Kind,           \* Kind[q]: "EMPLOYEE", "ALLOCATED" or "SHARED"
  Owner,          \* Owner[q]: the employee of an EMPLOYEE credential
  Expiry,         \* Expiry[q]: the time at which q expires
  Limit,          \* Limit[q]: meals of each type an ALLOCATED q allows
  Allowed,        \* Allowed[q]: meal types an ALLOCATED q allows
  Eligible,       \* Eligible[e]: meal types employee e starts with
  LockTime,       \* the meal type lock window
  AuthTime,       \* how long an authorization lasts
  Attempts,       \* transaction_attempts
  MaxClock,       \* bound on the clock
  MaxChanges,     \* bound on the administrators' changes
  None            \* the absent value

UnknownToken == "unknown token"      \* well formed, but never issued
MalformedToken == "malformed token"  \* refused by token_digest

(* scan_fingerprint hashes these values; equal hashes mean equal values. *)
Payloads == [token : Credentials \cup {UnknownToken}, staff : Staff,
             device : Devices \cup {None}, mealType : MealTypes,
             quantity : Nat \ {0}]

ScanInputs == [request : Requests,
               token : Credentials \cup {UnknownToken, MalformedToken},
               staff : Staff, public : BOOLEAN, scanner : ScannerCodes,
               mealType : MealTypes, quantity : Nat \ {0},
               authorization : Requests \cup {None},
               visitor : Visitors \cup {None}, reading : BOOLEAN]

ASSUME ServingAssumption ==
  /\ Scans \subseteq ScanInputs
  /\ Admin \in Staff
  /\ Label \in [Devices -> ScannerCodes]
  /\ \A d, e \in Devices : Label[d] = Label[e] => d = e
  /\ Kind \in [Credentials -> {"EMPLOYEE", "ALLOCATED", "SHARED"}]
  /\ Owner \in [Credentials -> Employees \cup {None}]
  /\ \A q \in Credentials : Kind[q] = "EMPLOYEE" => Owner[q] \in Employees
  /\ UnknownToken \notin Credentials /\ MalformedToken \notin Credentials
  /\ UnknownToken # None
  /\ Expiry \in [Credentials -> Nat]
  /\ Limit \in [Credentials -> Nat \ {0}]
  /\ Allowed \in [Credentials -> SUBSET MealTypes]
  /\ \A q \in Credentials : Kind[q] = "ALLOCATED" => Allowed[q] # {}
  /\ IsFiniteSet(MealTypes)
  /\ Eligible \in [Employees -> SUBSET MealTypes]
  /\ LockTime \in Nat /\ AuthTime \in Nat
  /\ MaxClock \in Nat /\ MaxChanges \in Nat
  /\ Attempts \in Nat \ {0}
  /\ \A S \in {Calls, Requests, Visitors, Employees, Devices, Scans} :
       None \notin S
  /\ None \notin Payloads

VARIABLES
  request,     \* serving_requests, and the authorization prepared for each
  attempt,     \* scan_attempts
  lastAttempt, \* the last scan_attempts.id given out
  servings,    \* servings with their meals rows
  used,        \* master_qr_meal_types.meals_used
  spent,       \* master_qr_allocations.meals_used
  closed,      \* allocations with exhausted_at set
  pc,          \* where each call is
  scan,        \* the input of each call
  fault,       \* what the first transaction of the call found
  payload,     \* the fingerprint of its receipt
  locks,       \* the rows its open transaction has locked
  plan,        \* what its open transaction will commit
  tries,       \* transactions it has lost so far
  response,    \* what it answered
  revoked,     \* credentials with revoked_at set
  active,      \* active employees
  eligible,    \* employee_meal_types
  label,       \* scanner_devices.code
  online,      \* active devices at active locations
  offered,     \* active meal types
  actors,      \* active staff accounts (deactivation ends their sessions)
  candidates,  \* attempts a reconciliation has selected
  clock,
  changes      \* administrators' changes so far

tables == <<request, attempt, lastAttempt, servings, used, spent, closed>>
handler == <<pc, scan, fault, payload, locks, plan, tries, response>>
people == <<revoked, active, eligible, label, online, offered, actors, changes>>
vars == <<tables, handler, people, candidates, clock>>

-----------------------------------------------------------------------------
(* Rows                                                                    *)

NoAuthorization == [state |-> "NONE", scope |-> None, expires |-> 0]
NoRequest == [status |-> "NONE", payload |-> None, code |-> None,
              bound |-> FALSE, authorization |-> None, visitor |-> None,
              prepared |-> NoAuthorization]
NoAttempt == [id |-> 0, outcome |-> "NONE", code |-> None, request |-> None,
              payload |-> None]
NoPlan == [act |-> "NONE", code |-> None, at |-> 0, binds |-> FALSE]
NoResponse == [code |-> None, serving |-> None]

(* Rejection codes and answers, with "NONE" for no fault.                  *)
Codes ==
  {"NONE", "APPROVED", "AUTHENTICATION_REQUIRED", "SCAN_APP_UNAVAILABLE",
   "INVALID_TOKEN", "INVALID_SCAN_READ_INPUT", "REQUEST_MISMATCH",
   "VISITOR_DETAILS_AUTHORIZATION_CONFLICT", "VISITOR_QUANTITY_MUST_BE_ONE",
   "IDEMPOTENCY_PROOF_UNAVAILABLE", "IDEMPOTENCY_KEY_REUSED",
   "SCAN_RECEIPT_UNCONFIRMED", "PROCESSING_UNCONFIRMED",
   "PROCESSING_INTERRUPTED", "DUPLICATE_REQUEST", "UNKNOWN_SCANNER",
   "SCANNER_INACTIVE", "SCANNER_LOCATION_CHANGED", "MEAL_TYPE_UNAVAILABLE",
   "UNKNOWN_QR", "QR_REVOKED", "QR_EXPIRED", "EMPLOYEE_INACTIVE",
   "EMPLOYEE_QUANTITY_MUST_BE_ONE", "VISITOR_DETAILS_NOT_APPLICABLE",
   "MEAL_TYPE_NOT_ELIGIBLE", "MEAL_TYPE_ALREADY_RECORDED",
   "MASTER_ALLOCATION_SCOPE_MISMATCH", "MASTER_MEAL_TYPE_NOT_ALLOWED",
   "MASTER_MEAL_TYPE_USED_UP", "VISITOR_DETAILS", "VISITOR_DETAILS_REQUIRED",
   "AUTHORIZATION_NOT_APPLICABLE", "AUTHORIZATION_NOT_FOUND",
   "AUTHORIZATION_SCOPE_MISMATCH", "AUTHORIZATION_REVOKED",
   "AUTHORIZATION_EXPIRED", "AUTHORIZING_ADMIN_UNAVAILABLE"}

(* A NULL code is no code.                                                 *)
ASSUME NullAssumption == None \notin Codes

RequestRows ==
  [status : {"NONE", "PENDING", "SUCCEEDED", "REJECTED"},
   payload : Payloads \cup {None}, code : Codes \cup {None}, bound : BOOLEAN,
   authorization : Requests \cup {None}, visitor : Visitors \cup {None},
   prepared : [state : {"NONE", "VALID", "REVOKED"},
               scope : Payloads \cup {None}, expires : Nat]]

AttemptRows ==
  [id : Nat,
   outcome : {"NONE", "RECEIVED", "SUCCESS", "REJECTED", "AWAITING_DETAILS"},
   code : Codes \cup {None}, request : Requests \cup {None},
   payload : Payloads \cup {None}]

ServingRows ==
  [call : Calls, request : Requests, payload : Payloads,
   authorization : Requests \cup {None}, visitor : Visitors \cup {None},
   at : Nat]

Plans == [act : {"NONE", "SERVE", "REFUSE", "REJECT", "DUPLICATE", "AWAIT"},
          code : Codes \cup {None}, at : Nat, binds : BOOLEAN]

(* Rows that scans and administrators contend for.  Meal types are locked  *)
(* FOR SHARE by scans, the others exclusively.                             *)
RequestRow(r) == <<"request", r>>
DeviceRow(d) == <<"device", d>>
EmployeeRow(e) == <<"employee", e>>
CredentialRow(q) == <<"credential", q>>
AuthorizationRow(r) == <<"authorization", r>>
MealTypeRow(m) == <<"meal type", m>>

ExclusiveRows == ({"request", "authorization"} \X Requests)
                   \cup ({"device"} \X Devices)
                   \cup ({"employee"} \X Employees)
                   \cup ({"credential"} \X Credentials)
Rows == ExclusiveRows \cup ({"meal type"} \X MealTypes)

Free(row) == \A c \in Calls : row \notin locks[c]

(* Mutants: rows are read without a lock, or with FOR SHARE only.          *)
LockNothing(c, rows) == UNCHANGED locks
LockForShare(c, rows) == locks' = [locks EXCEPT ![c] = @ \cup rows]

Lock(c, rows) == /\ \A row \in rows \cap ExclusiveRows : Free(row)
                 /\ locks' = [locks EXCEPT ![c] = @ \cup rows]

(* Mutant: the connection returns to its pool with its locks.              *)
UnlockNothing(c) == UNCHANGED locks

Unlock(c) == locks' = [locks EXCEPT ![c] = {}]

Answer(c, code, serving) ==
  response' = [response EXCEPT ![c] = [code |-> code, serving |-> serving]]

-----------------------------------------------------------------------------
Init ==
  /\ request = [r \in Requests |-> NoRequest]
  /\ attempt = [c \in Calls |-> NoAttempt]
  /\ lastAttempt = 0
  /\ servings = {}
  /\ used = [q \in Credentials |-> [m \in MealTypes |-> 0]]
  /\ spent = [q \in Credentials |-> 0]
  /\ closed = {}
  /\ pc = [c \in Calls |-> "idle"]
  /\ scan = [c \in Calls |-> None]
  /\ fault = [c \in Calls |-> "NONE"]
  /\ payload = [c \in Calls |-> None]
  /\ locks = [c \in Calls |-> {}]
  /\ plan = [c \in Calls |-> NoPlan]
  /\ tries = [c \in Calls |-> 0]
  /\ response = [c \in Calls |-> NoResponse]
  /\ revoked = {}
  /\ active = Employees
  /\ eligible = Eligible
  /\ label = Label
  /\ online = Devices
  /\ offered = MealTypes
  /\ actors = Staff
  /\ candidates = {}
  /\ clock = 0
  /\ changes = 0

(***************************************************************************)
(* The first transaction of _receive: authenticate and validate.           *)
(***************************************************************************)
ActorFault(s) ==
  IF s.staff \in actors THEN "NONE"
  ELSE IF s.public THEN "SCAN_APP_UNAVAILABLE" ELSE "AUTHENTICATION_REQUIRED"

InputFault(s) ==
  IF s.token = MalformedToken THEN "INVALID_TOKEN"
  ELSE IF s.reading /\ (\/ s.quantity # 1 \/ s.authorization # None
                        \/ s.visitor # None) THEN "INVALID_SCAN_READ_INPUT"
  ELSE IF s.visitor # None /\ s.authorization # None
         THEN "VISITOR_DETAILS_AUTHORIZATION_CONFLICT"
  ELSE IF s.visitor # None /\ s.quantity # 1
         THEN "VISITOR_QUANTITY_MUST_BE_ONE"
  ELSE "NONE"

Authenticate(c, s) ==
  /\ pc[c] = "idle"
  /\ scan[c] \in {None, s}
  /\ scan' = [scan EXCEPT ![c] = s]
  /\ fault' = [fault EXCEPT ![c] = IF ActorFault(s) # "NONE"
                                     THEN ActorFault(s) ELSE InputFault(s)]
  /\ pc' = [pc EXCEPT ![c] = "authenticated"]
  /\ UNCHANGED <<tables, payload, locks, plan, tries, response, people,
                 candidates, clock>>

(***************************************************************************)
(* The second transaction of _receive: reserve the request under its row   *)
(* lock and write the scan attempt.  A request that is already final is    *)
(* compared with the device its first matching attempt came from, so that  *)
(* a repeat survives a renamed scanner.                                    *)
(***************************************************************************)
DeviceOf(code) == IF \E d \in Devices : label[d] = code
                    THEN CHOOSE d \in Devices : label[d] = code ELSE None

PayloadOf(s, d) == [token |-> s.token, staff |-> s.staff, device |-> d,
                    mealType |-> s.mealType, quantity |-> s.quantity]

Final(r) == request[r].status \in {"SUCCEEDED", "REJECTED"}

Originals(r) == {c \in Calls : attempt[c].request = r
                                /\ attempt[c].payload = request[r].payload}

Original(r) == CHOOSE c \in Originals(r) :
                 \A d \in Originals(r) : attempt[c].id <= attempt[d].id

ReceiptFault(s) ==
  IF ~Final(s.request) THEN "NONE"
  ELSE IF Originals(s.request) = {} THEN "IDEMPOTENCY_PROOF_UNAVAILABLE"
  ELSE IF scan[Original(s.request)].scanner # s.scanner
         THEN "IDEMPOTENCY_KEY_REUSED"
  ELSE "NONE"

(* Mutant: a final request lends its fingerprint to whatever repeats it.   *)
ReceiptPayloadBorrowed(s) ==
  IF Final(s.request) /\ ReceiptFault(s) = "NONE"
    THEN request[s.request].payload
    ELSE PayloadOf(s, DeviceOf(s.scanner))

ReceiptPayload(s) ==
  IF Final(s.request) /\ ReceiptFault(s) = "NONE"
    THEN PayloadOf(s, request[s.request].payload.device)
    ELSE PayloadOf(s, DeviceOf(s.scanner))

Reserve(r, p) ==
  request' = IF request[r].status = "NONE"
               THEN [request EXCEPT ![r].status = "PENDING", ![r].payload = p]
               ELSE request

InsertAttempt(c, row) ==
  /\ lastAttempt' = lastAttempt + 1
  /\ attempt' = [attempt EXCEPT ![c] = row]

(* An input or authentication error writes an unlinked REJECTED attempt.   *)
RejectReceipt(c) ==
  /\ fault[c] # "NONE"
  /\ InsertAttempt(c, [id |-> lastAttempt + 1, outcome |-> "REJECTED",
                       code |-> fault[c], request |-> None, payload |-> None])
  /\ UNCHANGED <<request, payload>>

WriteReceipt(c) ==
  LET s == scan[c]
      wrong == ReceiptFault(s)
      p == ReceiptPayload(s)
  IN /\ fault[c] = "NONE"
     /\ Free(RequestRow(s.request))
     /\ Reserve(s.request, p)
     /\ InsertAttempt(c,
          [id |-> lastAttempt + 1, request |-> s.request, payload |-> p,
           outcome |-> IF wrong = "NONE" THEN "RECEIVED" ELSE "REJECTED",
           code |-> IF wrong = "NONE" THEN None ELSE wrong])
     /\ payload' = [payload EXCEPT ![c] = p]

(* What the client hears when the receipt already settles the call.        *)
ReceiptAnswer(c) ==
  IF fault[c] \in {"AUTHENTICATION_REQUIRED", "SCAN_APP_UNAVAILABLE"}
    THEN fault[c]
  ELSE IF fault[c] # "NONE"
    THEN IF request[scan[c].request].status = "NONE" THEN fault[c]
                                                     ELSE "REQUEST_MISMATCH"
  ELSE ReceiptFault(scan[c])

(* The receipt commits.  When the acknowledgement is lost (not heard) the  *)
(* client hears SCAN_RECEIPT_UNCONFIRMED and nobody processes the attempt. *)
Receive(c, heard) ==
  /\ pc[c] = "authenticated"
  /\ RejectReceipt(c) \/ WriteReceipt(c)
  /\ IF ~heard
       THEN /\ pc' = [pc EXCEPT ![c] = "done"]
            /\ Answer(c, "SCAN_RECEIPT_UNCONFIRMED", None)
     ELSE IF ReceiptAnswer(c) = "NONE"
       THEN /\ pc' = [pc EXCEPT ![c] = "received"]
            /\ UNCHANGED response
     ELSE /\ pc' = [pc EXCEPT ![c] = "done"]
          /\ Answer(c, ReceiptAnswer(c), None)
  /\ tries' = [tries EXCEPT ![c] = 0]
  /\ UNCHANGED <<servings, used, spent, closed, scan, fault, locks, plan,
                 people, candidates, clock>>

(* The receipt rolls back: a deadlock or lock timeout is tried again from  *)
(* the first transaction, anything else or the last try gives up.          *)
ReceiveFails(c, retry) ==
  /\ pc[c] = "authenticated"
  /\ retry => tries[c] + 1 < Attempts
  /\ tries' = [tries EXCEPT ![c] = IF retry THEN @ + 1 ELSE 0]
  /\ pc' = [pc EXCEPT ![c] = IF retry THEN "idle" ELSE "done"]
  /\ IF retry THEN UNCHANGED response
              ELSE Answer(c, "SCAN_RECEIPT_UNCONFIRMED", None)
  /\ UNCHANGED <<tables, scan, fault, payload, locks, plan, people,
                 candidates, clock>>

(***************************************************************************)
(* _process: one transaction that locks the request, the scanner device,   *)
(* the employee and the credential in that order, then commits one plan.   *)
(***************************************************************************)
Act(act, code) == [act |-> act, code |-> code, at |-> clock, binds |-> FALSE]

(* scan_authorization_id and scan_visitor_hash fix the proof of a request. *)
ProofDiffers(q, s) ==
  /\ ~s.reading
  /\ \/ q.bound /\ q.authorization # s.authorization
     \/ (q.bound \/ q.status # "PENDING") /\ q.visitor # s.visitor

ServingOf(r) == CHOOSE v \in servings : v.request = r

Deferred(s) == s.reading \/ (s.authorization = None /\ s.visitor = None)

(* Everything decided under the request lock alone; act "NONE" goes on.    *)
EarlyPlan(c) ==
  LET s == scan[c]
      q == request[s.request]
  IN IF ActorFault(s) # "NONE" THEN Act("REJECT", ActorFault(s))
     ELSE IF q.payload # payload[c] \/ ProofDiffers(q, s)
       THEN Act("REJECT", "IDEMPOTENCY_KEY_REUSED")
     ELSE IF q.status = "SUCCEEDED"
       THEN IF ~s.reading
               /\ ServingOf(s.request).authorization # s.authorization
              THEN Act("REJECT", "IDEMPOTENCY_KEY_REUSED")
              ELSE Act("DUPLICATE", "DUPLICATE_REQUEST")
     ELSE IF q.status = "REJECTED"
       THEN Act("REJECT", IF q.bound THEN q.code
                                     ELSE "IDEMPOTENCY_PROOF_UNAVAILABLE")
     ELSE IF q.prepared.state # "NONE" /\ s.authorization # s.request
       THEN Act("REJECT", "AUTHORIZATION_SCOPE_MISMATCH")
     ELSE [NoPlan EXCEPT !.binds = ~q.bound /\ ~Deferred(s)]

Begin(c) ==
  /\ pc[c] = "received"
  /\ attempt[c].outcome = "RECEIVED"
  /\ Lock(c, {RequestRow(scan[c].request)})
  /\ plan' = [plan EXCEPT ![c] = EarlyPlan(c)]
  /\ pc' = [pc EXCEPT ![c] = IF EarlyPlan(c).act = "NONE" THEN "locked"
                                                         ELSE "committing"]
  /\ UNCHANGED <<tables, scan, fault, payload, tries, response, people,
                 candidates, clock>>

(* A reconciliation closed the attempt first: ATTEMPT_ALREADY_FINALIZED.   *)
BeginTooLate(c) ==
  /\ pc[c] = "received"
  /\ attempt[c].outcome # "RECEIVED"
  /\ Free(RequestRow(scan[c].request))
  /\ pc' = [pc EXCEPT ![c] = "interrupted"]
  /\ UNCHANGED <<tables, scan, fault, payload, locks, plan, tries, response,
                 people, candidates, clock>>

(* Go on to the next lock, or roll back to the savepoint and refuse.       *)
GoOn(c, code, next) ==
  IF code = "NONE"
    THEN pc' = [pc EXCEPT ![c] = next] /\ UNCHANGED plan
    ELSE /\ pc' = [pc EXCEPT ![c] = "committing"]
         /\ plan' = [plan EXCEPT ![c] =
                       [Act("REFUSE", code) EXCEPT !.binds = plan[c].binds]]

DeviceFault(c, d) ==
  IF d = None THEN "UNKNOWN_SCANNER"
  ELSE IF d \notin online THEN "SCANNER_INACTIVE"
  ELSE IF d # payload[c].device THEN "SCANNER_LOCATION_CHANGED"
  ELSE IF scan[c].mealType \notin offered THEN "MEAL_TYPE_UNAVAILABLE"
  ELSE IF scan[c].token = UnknownToken THEN "UNKNOWN_QR"
  ELSE "NONE"

OfEmployee(q) == q \in Credentials /\ Kind[q] = "EMPLOYEE"

LockDevice(c) ==
  LET d == DeviceOf(scan[c].scanner)
  IN /\ pc[c] = "locked"
     /\ Lock(c, {MealTypeRow(scan[c].mealType)}
                  \cup {DeviceRow(e) : e \in {d} \ {None}})
     /\ GoOn(c, DeviceFault(c, d),
             IF OfEmployee(scan[c].token) THEN "placed" ELSE "admitted")
     /\ UNCHANGED <<tables, scan, fault, payload, tries, response, people,
                    candidates, clock>>

LockEmployee(c) ==
  LET e == Owner[scan[c].token]
  IN /\ pc[c] = "placed"
     /\ Lock(c, {EmployeeRow(e)})
     /\ GoOn(c, IF e \in active THEN "NONE" ELSE "EMPLOYEE_INACTIVE",
             "admitted")
     /\ UNCHANGED <<tables, scan, fault, payload, tries, response, people,
                    candidates, clock>>

(* Mutant: served_at is compared the wrong way round.                    *)
InWindowReversed(v, e, m) ==
  /\ OfEmployee(v.payload.token) /\ Owner[v.payload.token] = e
  /\ v.payload.mealType = m
  /\ v.at <= clock - LockTime

(* The branches of _create_serving.  "NONE" means a serving is recorded.   *)
InWindow(v, e, m) ==
  /\ OfEmployee(v.payload.token) /\ Owner[v.payload.token] = e
  /\ v.payload.mealType = m
  /\ v.at > clock - LockTime

EmployeeFault(s) ==
  LET e == Owner[s.token]
  IN IF s.quantity # 1 THEN "EMPLOYEE_QUANTITY_MUST_BE_ONE"
     ELSE IF s.authorization # None THEN "AUTHORIZATION_NOT_APPLICABLE"
     ELSE IF s.visitor # None THEN "VISITOR_DETAILS_NOT_APPLICABLE"
     ELSE IF s.mealType \notin eligible[e] THEN "MEAL_TYPE_NOT_ELIGIBLE"
     ELSE IF LockTime > 0 /\ \E v \in servings : InWindow(v, e, s.mealType)
       THEN "MEAL_TYPE_ALREADY_RECORDED"
     ELSE "NONE"

AllocationFault(s) ==
  LET q == s.token
  IN IF s.quantity # 1 THEN "VISITOR_QUANTITY_MUST_BE_ONE"
     ELSE IF s.authorization # None \/ s.visitor # None
       THEN "MASTER_ALLOCATION_SCOPE_MISMATCH"
     ELSE IF q \in closed \/ spent[q] >= Limit[q] THEN "QR_EXPIRED"
     ELSE IF s.mealType \notin Allowed[q] THEN "MASTER_MEAL_TYPE_NOT_ALLOWED"
     ELSE IF used[q][s.mealType] >= Limit[q] THEN "MASTER_MEAL_TYPE_USED_UP"
     ELSE "NONE"

(* Mutant: the scope of an authorization is not compared.                  *)
AuthorizationUnscoped(c) ==
  LET a == request[scan[c].authorization].prepared
  IN IF a.state = "NONE" THEN "AUTHORIZATION_NOT_FOUND"
     ELSE IF Admin \notin actors THEN "AUTHORIZING_ADMIN_UNAVAILABLE"
     ELSE IF a.state = "REVOKED" THEN "AUTHORIZATION_REVOKED"
     ELSE IF a.expires <= clock THEN "AUTHORIZATION_EXPIRED"
     ELSE "NONE"

(* Begin has already compared the authorization prepared for the request.  *)
AuthorizationFault(c) ==
  LET s == scan[c]
      a == request[s.authorization].prepared
  IN IF a.state = "NONE" THEN "AUTHORIZATION_NOT_FOUND"
     ELSE IF s.authorization # s.request \/ a.scope # payload[c]
       THEN "AUTHORIZATION_SCOPE_MISMATCH"
     ELSE IF Admin \notin actors THEN "AUTHORIZING_ADMIN_UNAVAILABLE"
     ELSE IF a.state = "REVOKED" THEN "AUTHORIZATION_REVOKED"
     ELSE IF a.expires <= clock THEN "AUTHORIZATION_EXPIRED"
     ELSE "NONE"

ByAuthorization(s) ==
  /\ Kind[s.token] = "SHARED"
  /\ ~s.reading /\ s.visitor = None /\ s.authorization # None

SharedFault(c) ==
  IF ByAuthorization(scan[c]) THEN AuthorizationFault(c)
  ELSE IF scan[c].visitor # None THEN "NONE"
  ELSE "QR_EXPIRED"       \* a public scanner without a name

ServingFault(c) ==
  LET s == scan[c]
  IN IF s.token \in revoked THEN "QR_REVOKED"
     ELSE IF Expiry[s.token] <= clock THEN "QR_EXPIRED"
     ELSE IF Kind[s.token] = "EMPLOYEE" THEN EmployeeFault(s)
     ELSE IF Kind[s.token] = "ALLOCATED" THEN AllocationFault(s)
     ELSE SharedFault(c)

(* A shared credential without a visitor: reading it asks for the details, *)
(* recording it at a staff scanner rejects the attempt and leaves the      *)
(* request PENDING.                                                        *)
NeedsDetails(s) ==
  /\ Kind[s.token] = "SHARED"
  /\ s.token \notin revoked /\ clock < Expiry[s.token]
  /\ s.authorization = None /\ s.visitor = None
  /\ s.reading \/ ~s.public

Decision(c) ==
  LET s == scan[c]
      choice == IF NeedsDetails(s)
                  THEN IF s.reading THEN Act("AWAIT", "VISITOR_DETAILS")
                       ELSE Act("REJECT", "VISITOR_DETAILS_REQUIRED")
                ELSE IF ServingFault(c) # "NONE"
                  THEN Act("REFUSE", ServingFault(c))
                ELSE Act("SERVE", "APPROVED")
  IN [choice EXCEPT !.binds = plan[c].binds]

LockCredential(c) ==
  LET s == scan[c]
      prepared == IF ByAuthorization(s) THEN {AuthorizationRow(s.authorization)}
                                        ELSE {}
  IN /\ pc[c] = "admitted"
     /\ Lock(c, {CredentialRow(s.token)} \cup prepared)
     /\ plan' = [plan EXCEPT ![c] = Decision(c)]
     /\ pc' = [pc EXCEPT ![c] = "committing"]
     /\ UNCHANGED <<tables, scan, fault, payload, tries, response, people,
                    candidates, clock>>

FinishAttempt(c) ==
  LET p == plan[c]
      outcome == IF p.act = "SERVE" THEN "SUCCESS"
                 ELSE IF p.act = "AWAIT" THEN "AWAITING_DETAILS"
                 ELSE "REJECTED"
  IN attempt' = [attempt EXCEPT
       ![c].outcome = outcome,
       ![c].code = IF outcome = "REJECTED" THEN p.code ELSE None]

(* Mutant: the request gets the outcome of the attempt, SUCCESS.           *)
FinishRequestAsAttempt(c) ==
  request' = IF plan[c].act = "SERVE"
               THEN [request EXCEPT ![scan[c].request].status = "SUCCESS"]
               ELSE request

(* _bind_scan, before the decision or with it.                             *)
Binds(c) ==
  /\ ~request[scan[c].request].bound
  /\ plan[c].binds \/ plan[c].act \in {"SERVE", "REFUSE"}

FinishRequest(c) ==
  LET s == scan[c]
      p == plan[c]
      q == request[s.request]
      status == IF p.act = "SERVE" THEN "SUCCEEDED"
                ELSE IF p.act = "REFUSE" THEN "REJECTED" ELSE q.status
      binds == Binds(c)
  IN request' = [request EXCEPT ![s.request] =
       [q EXCEPT !.status = status,
                 !.code = IF p.act = "REFUSE" THEN p.code ELSE q.code,
                 !.bound = q.bound \/ binds,
                 !.authorization = IF binds THEN s.authorization
                                            ELSE q.authorization,
                 !.visitor = IF binds THEN s.visitor ELSE q.visitor]]

InsertServing(c) ==
  servings' = IF plan[c].act # "SERVE" THEN servings
              ELSE servings \cup
                {[call |-> c, request |-> scan[c].request,
                  payload |-> payload[c], visitor |-> scan[c].visitor,
                  authorization |-> scan[c].authorization, at |-> plan[c].at]}

(* Mutant: the allocation counter follows the most used type.              *)
MostUsed(q, n, count) == \A k \in Allowed[q] : count[n] >= count[k]

LeastUsed(q, n, count) == \A k \in Allowed[q] : count[n] <= count[k]

(* _use_master_meal_type: the type allowance, then the allocation counter, *)
(* which is the limit less what remains of the least used type n.          *)
UseAllowance(c) ==
  LET q == scan[c].token
      m == scan[c].mealType
  IN IF plan[c].act = "SERVE" /\ Kind[q] = "ALLOCATED"
       THEN /\ used' = [used EXCEPT ![q][m] = @ + 1]
            /\ \E n \in Allowed[q] :
                 /\ LeastUsed(q, n, used'[q])
                 /\ spent' = [spent EXCEPT ![q] = used'[q][n]]
                 /\ closed' = IF used'[q][n] = Limit[q] THEN closed \cup {q}
                                                       ELSE closed
       ELSE UNCHANGED <<used, spent, closed>>

ProcessAnswer(c) ==
  LET p == plan[c]
  IN IF p.act = "SERVE" THEN [code |-> "APPROVED", serving |-> c]
     ELSE IF p.act = "DUPLICATE"
       THEN [code |-> "APPROVED", serving |-> ServingOf(scan[c].request).call]
     ELSE [code |-> p.code, serving |-> None]

(* The plan commits.  When the acknowledgement is lost (not heard) the     *)
(* worker takes the commit for a failure and goes on to _mark_interrupted. *)
Commit(c, heard) ==
  /\ pc[c] = "committing"
  /\ FinishAttempt(c)
  /\ FinishRequest(c)
  /\ InsertServing(c)
  /\ UseAllowance(c)
  /\ Unlock(c)
  /\ pc' = [pc EXCEPT ![c] = IF heard THEN "done" ELSE "interrupted"]
  /\ response' = IF heard THEN [response EXCEPT ![c] = ProcessAnswer(c)]
                          ELSE response
  /\ UNCHANGED <<lastAttempt, scan, fault, payload, plan, tries, people,
                 candidates, clock>>

(* The transaction is a deadlock victim, times out on a lock (retry, while *)
(* tries are left) or fails otherwise: everything it did is undone.        *)
RollBack(c, retry) ==
  /\ pc[c] \in {"received", "locked", "placed", "admitted", "committing"}
  /\ retry => tries[c] + 1 < Attempts
  /\ Unlock(c)
  /\ plan' = [plan EXCEPT ![c] = NoPlan]
  /\ tries' = [tries EXCEPT ![c] = IF retry THEN @ + 1 ELSE @]
  /\ pc' = [pc EXCEPT ![c] = IF retry THEN "received" ELSE "interrupted"]
  /\ UNCHANGED <<tables, scan, fault, payload, response, people, candidates,
                 clock>>

(* Mutant: the attempt is closed whatever has become of it.                *)
InterruptAnyway(c) ==
  attempt' = [attempt EXCEPT ![c].outcome = "REJECTED",
                             ![c].code = "PROCESSING_INTERRUPTED"]

(* UPDATE scan_attempts ... WHERE id = ... AND outcome = 'RECEIVED'.       *)
Interrupt(c) ==
  attempt' = IF attempt[c].outcome # "RECEIVED" THEN attempt
             ELSE [attempt EXCEPT ![c].outcome = "REJECTED",
                                  ![c].code = "PROCESSING_INTERRUPTED"]

(* _mark_interrupted closes the attempt if it is still open; its own       *)
(* failure is swallowed.                                                   *)
MarkInterrupted(c, works) ==
  /\ pc[c] = "interrupted"
  /\ IF works THEN Interrupt(c) ELSE UNCHANGED attempt
  /\ pc' = [pc EXCEPT ![c] = "done"]
  /\ Answer(c, "PROCESSING_UNCONFIRMED", None)
  /\ UNCHANGED <<request, lastAttempt, servings, used, spent, closed, scan,
                 fault, payload, locks, plan, tries, people, candidates, clock>>

(* The worker dies; the database rolls its transaction back.               *)
Crash(c) ==
  /\ pc[c] \notin {"idle", "done", "crashed"}
  /\ Unlock(c)
  /\ plan' = [plan EXCEPT ![c] = NoPlan]
  /\ pc' = [pc EXCEPT ![c] = "crashed"]
  /\ UNCHANGED <<tables, scan, fault, payload, tries, response, people,
                 candidates, clock>>

(***************************************************************************)
(* reconcile_received: an administrator selects open attempts and closes   *)
(* them one transaction at a time; the selection may be stale by then.     *)
(***************************************************************************)
Select(chosen) ==
  /\ Admin \in actors /\ candidates = {}
  /\ chosen # {}
  /\ \A c \in chosen : attempt[c].outcome = "RECEIVED"
  /\ candidates' = chosen
  /\ UNCHANGED <<tables, handler, people, clock>>

Reconcile(c) ==
  /\ Admin \in actors /\ c \in candidates
  /\ Free(RequestRow(attempt[c].request))
  /\ Interrupt(c)
  /\ candidates' = candidates \ {c}
  /\ UNCHANGED <<request, lastAttempt, servings, used, spent, closed, handler,
                 people, clock>>

(***************************************************************************)
(* ApprovalService: an administrator prepares one visitor serving for a    *)
(* request that has not been decided, in the exact scope of scan s.        *)
(***************************************************************************)
Authorize(r, s) ==
  LET d == DeviceOf(s.scanner)
      p == PayloadOf(s, d)
  IN /\ {Admin, s.staff} \subseteq actors
     /\ d \in online /\ s.mealType \in offered
     /\ s.token \in Credentials \ revoked /\ clock < Expiry[s.token]
     /\ Kind[s.token] # "EMPLOYEE"
     /\ request[r].status = "NONE"
          \/ (request[r].status = "PENDING" /\ request[r].payload = p)
     /\ request[r].prepared.state = "NONE"
     /\ \A row \in {DeviceRow(d), CredentialRow(s.token), RequestRow(r)} :
          Free(row)
     /\ request' = [request EXCEPT ![r] =
          [@ EXCEPT !.status = "PENDING", !.payload = p,
                    !.prepared = [state |-> "VALID", scope |-> p,
                                  expires |-> clock + AuthTime]]]
     /\ UNCHANGED <<attempt, lastAttempt, servings, used, spent, closed,
                    revoked, active, eligible, label, online, offered, actors>>

RevokeAuthorization(r) ==
  /\ Admin \in actors
  /\ request[r].prepared.state = "VALID"
  /\ Free(AuthorizationRow(r))
  /\ request' = [request EXCEPT ![r].prepared.state = "REVOKED"]
  /\ UNCHANGED <<attempt, lastAttempt, servings, used, spent, closed,
                 revoked, active, eligible, label, online, offered, actors>>

(***************************************************************************)
(* What administrators change under a scan, each with the row locks its    *)
(* own transaction takes.                                                  *)
(***************************************************************************)
RevokeCredential(q) ==
  /\ q \notin revoked
  /\ Free(CredentialRow(q))
  /\ Kind[q] = "EMPLOYEE" => Free(EmployeeRow(Owner[q]))
  /\ revoked' = revoked \cup {q}
  /\ UNCHANGED <<tables, active, eligible, label, online, offered, actors>>

SetEmployeeActive(e) ==
  /\ Free(EmployeeRow(e))
  /\ active' = IF e \in active THEN active \ {e} ELSE active \cup {e}
  /\ UNCHANGED <<tables, revoked, eligible, label, online, offered, actors>>

SetMealTypes(e, types) ==
  /\ Free(EmployeeRow(e))
  /\ types \ eligible[e] \subseteq offered
  /\ eligible' = [eligible EXCEPT ![e] = types]
  /\ UNCHANGED <<tables, revoked, active, label, online, offered, actors>>

RenameScanner(d, code) ==
  /\ Free(DeviceRow(d))
  /\ \A e \in Devices : label[e] # code
  /\ label' = [label EXCEPT ![d] = code]
  /\ UNCHANGED <<tables, revoked, active, eligible, online, offered, actors>>

SetScannerActive(d) ==
  /\ Free(DeviceRow(d))
  /\ online' = IF d \in online THEN online \ {d} ELSE online \cup {d}
  /\ UNCHANGED <<tables, revoked, active, eligible, label, offered, actors>>

SetMealTypeActive(m) ==
  /\ Free(MealTypeRow(m))
  /\ offered' = IF m \in offered THEN offered \ {m} ELSE offered \cup {m}
  /\ UNCHANGED <<tables, revoked, active, eligible, label, online, actors>>

(* _process holds the scanning account's row from Begin on, and that of    *)
(* the authorizing administrator from LockCredential on.                   *)
DeactivateStaff(st) ==
  /\ st \in actors
  /\ \A c \in Calls : locks[c] # {} => scan[c].staff # st
  /\ st = Admin => \A r \in Requests : Free(AuthorizationRow(r))
  /\ actors' = actors \ {st}
  /\ UNCHANGED <<tables, revoked, active, eligible, label, online, offered>>

Change ==
  /\ changes < MaxChanges
  /\ changes' = changes + 1
  /\ \/ \E r \in Requests, s \in Scans : Authorize(r, s)
     \/ \E r \in Requests : RevokeAuthorization(r)
     \/ \E q \in Credentials : RevokeCredential(q)
     \/ \E e \in Employees : SetEmployeeActive(e)
     \/ \E e \in Employees, types \in SUBSET MealTypes : SetMealTypes(e, types)
     \/ \E d \in Devices, code \in ScannerCodes : RenameScanner(d, code)
     \/ \E d \in Devices : SetScannerActive(d)
     \/ \E m \in MealTypes : SetMealTypeActive(m)
     \/ \E st \in Staff : DeactivateStaff(st)
  /\ UNCHANGED <<handler, candidates, clock>>

Tick ==
  /\ clock < MaxClock
  /\ clock' = clock + 1
  /\ UNCHANGED <<tables, handler, people, candidates>>

(* What a live worker does next with a call it has taken.                  *)
Work(c) ==
  \/ scan[c] # None /\ Authenticate(c, scan[c])
  \/ Receive(c, TRUE)
  \/ Begin(c) \/ BeginTooLate(c)
  \/ LockDevice(c) \/ LockEmployee(c) \/ LockCredential(c)
  \/ Commit(c, TRUE)
  \/ \E works \in BOOLEAN : MarkInterrupted(c, works)

Fail(c) ==
  \/ Receive(c, FALSE)
  \/ \E retry \in BOOLEAN : ReceiveFails(c, retry) \/ RollBack(c, retry)
  \/ Commit(c, FALSE)
  \/ Crash(c)

Next ==
  \/ \E c \in Calls, s \in Scans : scan[c] = None /\ Authenticate(c, s)
  \/ \E c \in Calls : Work(c) \/ Fail(c)
  \/ \E chosen \in SUBSET Calls : Select(chosen)
  \/ \E c \in Calls : Reconcile(c)
  \/ Change
  \/ Tick

Spec == Init /\ [][Next]_vars

(* Workers run until they answer; failures and administrators are free.    *)
FairSpec == Spec /\ \A c \in Calls : WF_vars(Work(c))
-----------------------------------------------------------------------------
Places == {"idle", "authenticated", "received", "locked", "placed", "admitted",
           "committing", "interrupted", "done", "crashed"}
Responses == [code : Codes \cup {None}, serving : Calls \cup {None}]

TablesOK ==
  /\ request \in [Requests -> RequestRows]
  /\ attempt \in [Calls -> AttemptRows]
  /\ lastAttempt \in Nat
  /\ servings \subseteq ServingRows
  /\ used \in [Credentials -> [MealTypes -> Nat]]
  /\ spent \in [Credentials -> Nat]
  /\ closed \subseteq Credentials

HandlerOK ==
  /\ pc \in [Calls -> Places]
  /\ scan \in [Calls -> Scans \cup {None}]
  /\ fault \in [Calls -> Codes]
  /\ payload \in [Calls -> Payloads \cup {None}]
  /\ locks \in [Calls -> SUBSET Rows]
  /\ plan \in [Calls -> Plans]
  /\ tries \in [Calls -> Nat]
  /\ response \in [Calls -> Responses]

PeopleOK ==
  /\ revoked \subseteq Credentials
  /\ active \subseteq Employees
  /\ eligible \in [Employees -> SUBSET MealTypes]
  /\ label \in [Devices -> ScannerCodes]
  /\ online \subseteq Devices
  /\ offered \subseteq MealTypes
  /\ actors \subseteq Staff
  /\ changes \in Nat

(* Every variable keeps its type.                                          *)
TypeOK ==
  TablesOK /\ HandlerOK /\ PeopleOK /\ candidates \subseteq Calls /\ clock \in Nat

(* A request id buys at most one serving, and has one exactly when the     *)
(* request row says SUCCEEDED, whatever repeats, crashes, lost commit      *)
(* acknowledgements and reconciliations happen (_process, _create_serving).*)
ServedOnce ==
  /\ \A v, w \in servings : v.request = w.request => v = w
  /\ \A r \in Requests : request[r].status = "SUCCEEDED"
                            <=> \E v \in servings : v.request = r

(* The audit trail agrees with the ledger: an attempt is SUCCESS exactly   *)
(* when its call recorded a serving, for the request and fingerprint the   *)
(* attempt names.  In particular _mark_interrupted and reconcile_received  *)
(* never write PROCESSING_INTERRUPTED over a meal that was served.         *)
AttemptTellsServing ==
  \A c \in Calls :
    attempt[c].outcome = "SUCCESS"
      <=> \E v \in servings : /\ v.call = c
                               /\ v.request = attempt[c].request
                               /\ v.payload = attempt[c].payload

(* An APPROVED answer is true and about this scan: the serving it names    *)
(* belongs to the scan's request and was made with its token, meal type,   *)
(* staff and quantity, and, unless it only reads, its authorization and    *)
(* visitor.  A repeat with changed input never inherits an approval.       *)
ApprovalIsHonest ==
  \A c \in Calls : response[c].code = "APPROVED" =>
    \E v \in servings :
      /\ v.call = response[c].serving
      /\ v.request = scan[c].request
      /\ v.payload = PayloadOf(scan[c], v.payload.device)
      /\ ~scan[c].reading => /\ v.authorization = scan[c].authorization
                             /\ v.visitor = scan[c].visitor

(* An employee gets no second meal of one type within the lock window, on  *)
(* whatever scanners, with whatever of the employee's credentials and in   *)
(* whatever order the scans run (_check_employee_meal_type).               *)
WindowRespected ==
  \A v, w \in servings :
    /\ OfEmployee(v.payload.token) /\ OfEmployee(w.payload.token)
    /\ Owner[v.payload.token] = Owner[w.payload.token]
    /\ v.payload.mealType = w.payload.mealType
    /\ v # w
    => v.at >= w.at + LockTime \/ w.at >= v.at + LockTime

(* The counters of an allocated visitor credential count its servings:     *)
(* none above the limit of its type, the allocation's own counter equal to *)
(* the least used type, and closed exactly when every type is used up.     *)
AllowanceExact ==
  \A q \in Credentials : Kind[q] = "ALLOCATED" =>
    /\ \A m \in MealTypes :
         /\ used[q][m] = Cardinality({v \in servings :
                /\ v.payload.token = q /\ v.payload.mealType = m})
         /\ used[q][m] <= Limit[q]
    /\ \E m \in Allowed[q] : used[q][m] = spent[q]
    /\ \A m \in Allowed[q] : used[q][m] >= spent[q]
    /\ q \in closed <=> \A m \in Allowed[q] : used[q][m] = Limit[q]

(* A request an administrator prepared is served only under that           *)
(* authorization and in its exact scope, and an authorization is used by   *)
(* no other request (authorize, _process, _validate_authorization).        *)
AuthorizedScope ==
  \A v \in servings :
    LET a == request[v.request].prepared
    IN /\ a.state # "NONE" => v.authorization = v.request
       /\ v.authorization # None => /\ v.authorization = v.request
                                    /\ v.payload = a.scope

(* Row locks last to the commit: when a serving becomes visible its        *)
(* credential is unrevoked, its employee active and eligible, its scanner, *)
(* meal type and staff account still in use and its authorization valid,   *)
(* although all of them were checked in earlier steps.                     *)
ServedUnderLock ==
  [][\A v \in servings' \ servings :
       LET p == v.payload
       IN /\ p.token \notin revoked
          /\ p.staff \in actors /\ p.device \in online
          /\ p.mealType \in offered
          /\ OfEmployee(p.token) => /\ Owner[p.token] \in active
                                    /\ p.mealType \in eligible[Owner[p.token]]
          /\ v.authorization # None =>
               request[v.authorization].prepared.state = "VALID"]_vars

(* The scan core implements the ledger of MealLedger: whatever calls,      *)
(* retries, crashes and administrators do, what they leave behind could    *)
(* have been entered one meal at a time by somebody who checks the lock    *)
(* window and the allowance and enters the meal in one step.               *)
Ledger == INSTANCE MealLedger WITH
  Tokens <- Credentials,
  Eater <- LAMBDA q : IF OfEmployee(q) THEN Owner[q] ELSE None,
  NoOne <- None,
  Cap <- LAMBDA q : Limit[q],
  Capped <- LAMBDA q : Kind[q] = "ALLOCATED",
  verdict <- [r \in Requests |-> IF request[r].status = "SUCCEEDED" THEN "SERVED"
                                 ELSE IF request[r].status = "REJECTED"
                                   THEN "REFUSED" ELSE "OPEN"],
  meals <- {[request |-> v.request, token |-> v.payload.token,
             mealType |-> v.payload.mealType, at |-> v.at] : v \in servings},
  now <- clock

ImplementsLedger == Ledger!LedgerSpec

(* Every call that a worker has taken is answered unless the worker dies:  *)
(* the order in which scans lock rows has no cycle.                        *)
CallsAnswered ==
  \A c \in Calls : scan[c] # None ~> pc[c] \in {"done", "crashed"}
=============================================================================
