-------------------------- MODULE ServingInvariant --------------------------
(***************************************************************************)
(* The inductive invariant of Serving, in named parts.                     *)
(***************************************************************************)
EXTENDS Serving

(* Row locks exclude: no exclusive row has two holders, a transaction of   *)
(* _process holds its request row to the end, and one about to record an   *)
(* employee's serving holds the employee row, which all of that employee's *)
(* credentials share.                                                      *)
InTransaction(c) == pc[c] \in {"locked", "placed", "admitted", "committing"}

LockDiscipline ==
  /\ \A c, d \in Calls : c # d => locks[c] \cap locks[d] \cap ExclusiveRows = {}
  /\ \A c \in Calls :
       /\ locks[c] # {} => InTransaction(c)
       /\ InTransaction(c) => RequestRow(scan[c].request) \in locks[c]
       /\ /\ \/ pc[c] = "admitted"
             \/ pc[c] = "committing" /\ plan[c].act = "SERVE"
          /\ OfEmployee(scan[c].token)
          => EmployeeRow(Owner[scan[c].token]) \in locks[c]

(* What _process works on is what _receive wrote: while a call may still   *)
(* record a serving its attempt is open and carries its request and        *)
(* fingerprint, and a call without an attempt has recorded nothing.        *)
ReceiptKept ==
  \A c \in Calls :
    /\ pc[c] # "idle" => scan[c] \in Scans
    /\ pc[c] = "authenticated" /\ fault[c] = "NONE" =>
         scan[c].token # MalformedToken
    /\ pc[c] \in {"idle", "authenticated"} =>
         /\ attempt[c] = NoAttempt
         /\ \A v \in servings : v.call # c
    /\ pc[c] = "received" \/ InTransaction(c) =>
         /\ attempt[c].request = scan[c].request
         /\ attempt[c].payload = payload[c]
         /\ \E d \in Devices \cup {None} : payload[c] = PayloadOf(scan[c], d)
         /\ scan[c].token # MalformedToken
    /\ InTransaction(c) => attempt[c].outcome = "RECEIVED"

(* What an open transaction found out still holds when it commits.         *)
PlanCurrent ==
  \A c \in Calls : InTransaction(c) =>
    LET r == scan[c].request
    IN /\ plan[c].act \in {"NONE", "SERVE", "REFUSE"}
            => request[r].status = "PENDING"
       /\ pc[c] # "committing" => plan[c].act = "NONE"
       /\ pc[c] = "committing" => plan[c].act # "NONE"
       /\ plan[c].act = "DUPLICATE" => request[r].status = "SUCCEEDED"
       /\ pc[c] = "placed" => OfEmployee(scan[c].token)
       /\ pc[c] \in {"placed", "admitted"} \/ plan[c].act = "SERVE" =>
            /\ scan[c].token \in Credentials
            /\ payload[c].device \in Devices
       /\ plan[c].act = "SERVE" =>
            /\ plan[c].at <= clock
            /\ OfEmployee(scan[c].token) =>
                 \A v \in servings :
                   /\ OfEmployee(v.payload.token)
                   /\ Owner[v.payload.token] = Owner[scan[c].token]
                   /\ v.payload.mealType = scan[c].mealType
                   => v.at + LockTime <= plan[c].at

(* Requests are known by their fingerprint once they exist, and every      *)
(* serving has its attempt.                                                *)
RowsLinked ==
  /\ \A r \in Requests : request[r].status # "NONE" <=> request[r].payload \in Payloads
  /\ \A v \in servings :
       /\ attempt[v.call].outcome = "SUCCESS"
       /\ attempt[v.call].request = v.request
       /\ attempt[v.call].payload = v.payload
       /\ v.at <= clock
  /\ \A c \in Calls : attempt[c].outcome = "SUCCESS" => \E v \in servings : v.call = c

(* The inductive invariant behind the theorems of ServingProofs.           *)
ServingInv ==
  /\ TypeOK
  /\ LockDiscipline
  /\ ReceiptKept
  /\ PlanCurrent
  /\ RowsLinked
  /\ ServedOnce
  /\ WindowRespected

(* A request is bound to an authorization and a visitor exactly when it is *)
(* decided, an authorization has the scope of its request, and a serving   *)
(* carries what its request is bound to.                                   *)
RequestsSettled ==
  /\ \A r \in Requests :
       /\ request[r].bound <=> Final(r)
       /\ request[r].code # "APPROVED"
       /\ request[r].prepared.state # "NONE" =>
            /\ request[r].status # "NONE"
            /\ request[r].prepared.scope = request[r].payload
  /\ \A v \in servings :
       /\ request[v.request].payload = v.payload
       /\ request[v.request].authorization = v.authorization
       /\ request[v.request].visitor = v.visitor

(* A call that goes on has passed validation, and only a call that is over *)
(* has answered APPROVED.                                                  *)
InputValid(c) ==
  /\ fault[c] # "APPROVED"
  /\ response[c].code = "APPROVED" => pc[c] = "done"
  /\ \/ pc[c] = "authenticated" /\ fault[c] = "NONE"
     \/ pc[c] = "received" \/ InTransaction(c)
     => InputFault(scan[c]) = "NONE"

(* What _process read under the request lock still holds: the fingerprint, *)
(* the proof of an earlier serving, the account and the authorization.     *)
RequestRead(c) ==
  LET s == scan[c]
      act == plan[c].act
  IN /\ act \in {"REFUSE", "REJECT", "AWAIT"} => plan[c].code # "APPROVED"
     /\ plan[c].binds => act \in {"NONE", "SERVE", "REFUSE"} /\ ~Deferred(s)
     /\ act \in {"NONE", "SERVE", "REFUSE", "DUPLICATE"} =>
          request[s.request].payload = payload[c]
     /\ act = "DUPLICATE" /\ ~s.reading =>
          \A v \in servings : v.request = s.request =>
            v.authorization = s.authorization /\ v.visitor = s.visitor
     /\ act \in {"NONE", "SERVE"} =>
          /\ s.staff \in actors
          /\ request[s.request].prepared.state # "NONE" =>
               s.authorization = s.request

(* What it checked under the later locks, each with the lock that keeps it.*)
ScannerHeld(c) ==
  /\ DeviceRow(payload[c].device) \in locks[c]
  /\ MealTypeRow(scan[c].mealType) \in locks[c]
  /\ payload[c].device \in online /\ scan[c].mealType \in offered

CredentialHeld(c) ==
  LET s == scan[c]
  IN /\ CredentialRow(s.token) \in locks[c]
     /\ s.token \notin revoked
     /\ OfEmployee(s.token) => s.mealType \in eligible[Owner[s.token]]
     /\ Kind[s.token] = "ALLOCATED" => /\ s.mealType \in Allowed[s.token]
                                       /\ used[s.token][s.mealType] < Limit[s.token]
     /\ s.authorization # None =>
          /\ s.authorization = s.request
          /\ AuthorizationRow(s.request) \in locks[c]
          /\ request[s.request].prepared.state = "VALID"

CheckedUnderLock(c) ==
  /\ pc[c] \in {"placed", "admitted"} \/ plan[c].act = "SERVE" => ScannerHeld(c)
  /\ pc[c] = "admitted" \/ plan[c].act = "SERVE" =>
       (OfEmployee(scan[c].token) => Owner[scan[c].token] \in active)
  /\ plan[c].act = "SERVE" => CredentialHeld(c)

(* With it, the inductive invariant behind those of ServingLedgerProofs.   *)
LedgerInv ==
  /\ ServingInv
  /\ RequestsSettled
  /\ \A c \in Calls : InputValid(c)
  /\ \A c \in Calls : InTransaction(c) => RequestRead(c) /\ CheckedUnderLock(c)
  /\ IsFiniteSet(servings)
  /\ ApprovalIsHonest
  /\ AllowanceExact
  /\ AuthorizedScope
=============================================================================
