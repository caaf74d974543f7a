------------------------- MODULE StaffAccessProofs -------------------------
(***************************************************************************)
(* Proofs about StaffAccess for any number of workers, accounts, sessions, *)
(* phones and browsers.  Row locks carry the argument: what a transaction  *)
(* has locked nobody else changes, so what it found out is still true when *)
(* it commits.                                                             *)
(***************************************************************************)
EXTENDS StaffAccess, FiniteSetTheorems, TLAPS

(* No row has two holders.                                                 *)
LocksExclude ==
  \A v, w \in Workers : v # w => locks[v] \cap locks[w] = {}

(* A person knows tokens of sessions there are.                            *)
TokensKept == \A s \in tokens : session[s] # None

(* The rows a request has locked so far, and the administrator that        *)
(* require_actor found there.                                              *)
Authorized(w) ==
  /\ AccountRow(Actor(w)) \in locks[w]
  /\ ~session[op[w].session].revoked
  /\ IsAdministrator(Actor(w))

RowsHeldBy(w) ==
  /\ op[w] \in Operations
  /\ op[w].session # None => op[w].session \in tokens
  /\ pc[w] = "administration" => op[w].kind \in Serialized
  /\ pc[w] \in {"session", "actor"} => op[w].kind \in Administrative
  /\ op[w].kind \in Serialized /\ pc[w] # "administration" =>
       AdministrationRow \in locks[w]
  /\ op[w].kind \in Administrative /\ pc[w] \in {"actor", "target", "commit"} =>
       SessionRow(op[w].session) \in locks[w]
  /\ op[w].kind \in Administrative /\ pc[w] \in {"target", "commit"} =>
       Authorized(w)

(* What it judged about the row of its target is still so when it commits. *)
JudgementOf(w) ==
  LET o == op[w] IN
  /\ o.kind \in {"SET_ACTIVE", "SET_ROLES", "UPDATE"} =>
       AccountRow(o.who) \in locks[w] /\ o.who \in Accounts
  /\ o.kind = "SET_ACTIVE" =>
       ~LastAdministrator(o.who, o.active, account[o.who].roles)
  /\ o.kind = "SET_ROLES" =>
       ~LastAdministrator(o.who, account[o.who].active, o.roles)
  /\ o.kind = "LOGIN" =>
       /\ plan[w].who \in Accounts /\ AccountRow(plan[w].who) \in locks[w]
       /\ plan[w].since = epoch[plan[w].who]
  /\ o.kind = "LOGOUT" => SessionRow(o.session) \in locks[w]
  /\ o.kind \in {"REVOKE", "ACTIVATE"} =>
       PhoneRow(o.phone) \in locks[w] /\ phone[o.phone] # None
  /\ o.kind = "ACTIVATE" =>
       phone[o.phone].browser = None /\ ~phone[o.phone].revoked

RowsHeld == \A w \in Workers : pc[w] # "idle" => RowsHeldBy(w)
JudgementHolds == \A w \in Workers : pc[w] = "commit" => JudgementOf(w)

(* The inductive invariant.                                                *)
StaffInv ==
  /\ TypeOK /\ LocksExclude /\ TokensKept /\ RowsHeld /\ JudgementHolds
  /\ AdministratorRemains /\ SessionsEnded /\ OneBrowserPerCode

-----------------------------------------------------------------------------
(* Operations, rows and steps                                              *)

LEMMA OperationParts ==
  ASSUME NEW o \in Operations
  PROVE  /\ o.kind \in Kinds
         /\ o.session \in Sessions \cup {None}
         /\ o.roles \in SUBSET Roles /\ o.active \in BOOLEAN
         /\ o # None
         /\ o.kind \in Administrative \cup {"LOGOUT"} => o.session \in Sessions
         /\ o.kind \in {"SET_ACTIVE", "SET_ROLES", "UPDATE"} => o.who \in Staff
         /\ o.kind \in {"BOOTSTRAP", "CREATE", "UPDATE", "LOGIN"} =>
              o.address \in Addresses
         /\ o.kind \in {"REVOKE", "ACTIVATE"} => o.phone \in Phones
         /\ o.kind = "ACTIVATE" => o.browser \in Browsers
BY StaffAccessAssumption DEF OperationType

LEMMA RowsDiffer ==
  /\ \A a, b : AccountRow(a) = AccountRow(b) => a = b
  /\ \A s, t : SessionRow(s) = SessionRow(t) => s = t
  /\ \A p, q : PhoneRow(p) = PhoneRow(q) => p = q
  /\ \A a, s, p :
       /\ AccountRow(a) # SessionRow(s) /\ AccountRow(a) # PhoneRow(p)
       /\ SessionRow(s) # PhoneRow(p)
       /\ AdministrationRow \notin {AccountRow(a), SessionRow(s), PhoneRow(p)}
BY DEF AccountRow, SessionRow, PhoneRow, AdministrationRow

(* The steps of the specification.                                         *)
LEMMA NextCases ==
  ASSUME [Next]_vars
  PROVE  Tick \/ UNCHANGED vars \/ \E w \in Workers : Step(w) \/ Commit(w)
BY DEF Next

(* Every end of a transaction.                                             *)
LEMMA Ends ==
  ASSUME NEW w \in Workers, Finish(w)
  PROVE  /\ op' = [op EXCEPT ![w] = None] /\ pc' = [pc EXCEPT ![w] = "idle"]
         /\ plan' = [plan EXCEPT ![w] = NoPlan]
         /\ locks' = [locks EXCEPT ![w] = {}]
BY DEF Finish

(* A commit ends the transaction.                                          *)
LEMMA CommitEnds ==
  ASSUME NEW w \in Workers, Commit(w)
  PROVE  Finish(w) /\ pc[w] = "commit"
BY DEF Commit, Bootstrap, CreateStaff, SetActive, SetRoles, Update, Login,
       Logout, CreateCode, Revoke, Activate, Ready

(* Other steps write no table.                                             *)
LEMMA StepWritesNothing ==
  ASSUME NEW w \in Workers, Step(w)
  PROVE  UNCHANGED <<tables, told, clock, epoch>>
<1>1. CASE Begin(w)
  BY <1>1 DEF Begin
<1>2. CASE LockAdministration(w)
  BY <1>2 DEF LockAdministration, Refuse, GoOn
<1>3. CASE LockSession(w)
  BY <1>3 DEF LockSession, GoOn
<1>4. CASE LockActor(w)
  BY <1>4 DEF LockActor, Refuse, GoOn
<1>5. CASE LockTarget(w)
  BY <1>5 DEF LockTarget, Refuse, GoOn
<1>6. CASE RollBack(w) \/ AddressTaken(w)
  BY <1>6 DEF RollBack, AddressTaken, Refuse
<1> QED BY <1>1, <1>2, <1>3, <1>4, <1>5, <1>6 DEF Step

(* A worker's step touches no other worker and grants no lock that another *)
(* one has.                                                                *)
LEMMA OthersKept ==
  ASSUME TypeOK, NEW w \in Workers, Step(w) \/ Commit(w)
  PROVE  /\ \A x \in Workers \ {w} :
              /\ op'[x] = op[x] /\ pc'[x] = pc[x] /\ plan'[x] = plan[x]
              /\ locks'[x] = locks[x] /\ locks'[w] \cap locks[x] \subseteq locks[w]
<1> USE DEF TypeOK
<1>1. CASE Finish(w)
  BY <1>1, Ends
<1>2. CASE Commit(w)
  BY <1>1, <1>2, CommitEnds
<1>3. CASE Begin(w)
  BY <1>3 DEF Begin
<1>4. CASE LockAdministration(w)
  BY <1>1, <1>4 DEF LockAdministration, Refuse, GoOn, Lock, Free
<1>5. CASE LockSession(w)
  BY <1>5 DEF LockSession, GoOn, Lock, Free
<1>6. CASE LockActor(w)
  BY <1>1, <1>6 DEF LockActor, Refuse, GoOn, Lock, Free
<1>7. CASE LockTarget(w)
  <2>1. CASE ~Acceptable(op[w])
    BY <1>1, <1>7, <2>1 DEF LockTarget, Refuse
  <2>2. CASE Acceptable(op[w])
    <3>1. \A x \in Workers \ {w} : plan'[x] = plan[x]
      BY <1>7, <2>2 DEF LockTarget
    <3> QED BY <1>7, <2>2, <3>1 DEF LockTarget, GoOn, Lock, Free
  <2> QED BY <2>1, <2>2
<1>8. CASE RollBack(w)
  BY <1>1, <1>8 DEF RollBack
<1>9. CASE AddressTaken(w)
  BY <1>1, <1>9 DEF AddressTaken, Refuse
<1> QED BY <1>2, <1>3, <1>4, <1>5, <1>6, <1>7, <1>8, <1>9 DEF Step

LEMMA LocksExcludeStep ==
  ASSUME TypeOK, LocksExclude, [Next]_vars
  PROVE  LocksExclude'
<1>1. CASE Tick \/ UNCHANGED vars
  BY <1>1 DEF Tick, vars, worker, LocksExclude
<1>2. ASSUME NEW w \in Workers, Step(w) \/ Commit(w)
      PROVE  LocksExclude'
  BY <1>2, OthersKept DEF LocksExclude
<1> QED BY <1>1, <1>2, NextCases

-----------------------------------------------------------------------------
(* Types                                                                   *)

TablesOK ==
  /\ account \in [Staff -> AccountRows \cup {None}]
  /\ session \in [Sessions -> SessionRows \cup {None}]
  /\ phone \in [Phones -> PhoneRows \cup {None}]
  /\ tokens \subseteq Sessions /\ given \in [Phones -> SUBSET Browsers]
  /\ epoch \in [Staff -> Nat]

Plans == [who : Staff \cup {None}, since : Nat, now : 0..MaxClock]
Places == {"idle", "administration", "session", "actor", "target", "commit"}

WorkersOK ==
  /\ op \in [Workers -> Operations \cup {None}]
  /\ pc \in [Workers -> Places]
  /\ plan \in [Workers -> Plans]
  /\ locks \in [Workers -> SUBSET AnyRow]

BoundsOK ==
  /\ clock \in 0..MaxClock
  /\ started \in 0..MaxOperations /\ faults \in 0..MaxFaults

LEMMA TypeParts == TypeOK <=> TablesOK /\ WorkersOK /\ BoundsOK
BY DEF TypeOK, TablesOK, WorkersOK, BoundsOK, Plans, Places

LEMMA ConstantBounds ==
  /\ SessionTime \in Nat /\ IdleTime \in Nat /\ CodeTime \in Nat
  /\ PhoneTime \in Nat /\ MaxClock \in Nat /\ MaxOperations \in Nat
  /\ MaxFaults \in Nat
BY StaffAccessAssumption

LEMMA NoPlanType == NoPlan \in Plans
BY ConstantBounds DEF NoPlan, Plans

LEMMA InitTypes == Init => TypeOK
<1> SUFFICES ASSUME Init PROVE TablesOK /\ WorkersOK /\ BoundsOK
  BY TypeParts
<1>1. TablesOK
  BY DEF Init, TablesOK
<1>2. WorkersOK
  BY NoPlanType DEF Init, WorkersOK, Places
<1>3. BoundsOK
  BY ConstantBounds DEF Init, BoundsOK
<1> QED BY <1>1, <1>2, <1>3

LEMMA RowsAreRows ==
  /\ AdministrationRow \in AnyRow
  /\ \A a \in Staff : AccountRow(a) \in AnyRow
  /\ \A s \in Sessions : SessionRow(s) \in AnyRow
  /\ \A p \in Phones : PhoneRow(p) \in AnyRow
BY DEF AnyRow

(* The account a request of a known session is made by.                    *)
LEMMA ActorType ==
  ASSUME TablesOK, TokensKept, NEW w \in Workers, op[w] \in Operations,
         op[w].session # None => op[w].session \in tokens,
         op[w].kind \in Administrative
  PROVE  /\ op[w].session \in Sessions /\ session[op[w].session] \in SessionRows
         /\ Actor(w) \in Staff
<1>1. op[w].session \in Sessions
  BY OperationParts
<1>2. op[w].session # None
  BY <1>1, StaffAccessAssumption
<1>3. session[op[w].session] \in SessionRows
  BY <1>1, <1>2 DEF TokensKept, TablesOK
<1> QED BY <1>1, <1>3 DEF Actor, SessionRows

LEMMA TargetRowsType ==
  ASSUME NEW o \in Operations, Acceptable(o)
  PROVE  TargetRows(o) \subseteq AnyRow
<1>1. CASE o.kind \in {"SET_ACTIVE", "SET_ROLES", "UPDATE"}
  BY <1>1, OperationParts, RowsAreRows DEF TargetRows
<1>2. CASE o.kind = "LOGIN"
  BY <1>2, RowsAreRows DEF TargetRows, Holder, Accounts
<1>3. CASE o.kind = "LOGOUT"
  BY <1>3, OperationParts, RowsAreRows DEF TargetRows
<1>4. CASE o.kind \in {"REVOKE", "ACTIVATE"}
  BY <1>4, OperationParts, RowsAreRows DEF TargetRows
<1> QED BY <1>1, <1>2, <1>3, <1>4 DEF Acceptable

LEMMA StepWorkers ==
  ASSUME TypeOK, TokensKept, RowsHeld, NEW w \in Workers, Step(w) \/ Commit(w)
  PROVE  WorkersOK'
<1> USE TypeParts
<1>1. CASE Finish(w)
  <2>1. op' \in [Workers -> Operations \cup {None}] /\ pc' \in [Workers -> Places]
    BY <1>1, Ends DEF WorkersOK, Places
  <2>2. plan' \in [Workers -> Plans]
    BY <1>1, Ends, NoPlanType DEF WorkersOK
  <2>3. locks' \in [Workers -> SUBSET AnyRow]
    BY <1>1, Ends DEF WorkersOK
  <2> QED BY <2>1, <2>2, <2>3 DEF WorkersOK
<1>2. CASE Commit(w)
  BY <1>1, <1>2, CommitEnds
<1>3. CASE Begin(w)
  <2> PICK o \in Operations : /\ op' = [op EXCEPT ![w] = o]
                              /\ pc' = [pc EXCEPT ![w] = First(o)]
    BY <1>3 DEF Begin
  <2>1. First(o) \in Places
    BY DEF First, Places
  <2> QED BY <1>3, <2>1 DEF Begin, WorkersOK
<1>4. CASE LockAdministration(w)
  BY <1>1, <1>4, RowsAreRows
  DEF LockAdministration, Refuse, GoOn, Lock, WorkersOK, Places
<1>5. CASE LockSession(w)
  <2>1. RowsHeldBy(w) /\ op[w].kind \in Administrative
    BY <1>5 DEF LockSession, RowsHeld, RowsHeldBy
  <2>2. op[w].session \in Sessions
    BY <2>1, OperationParts DEF RowsHeldBy
  <2> QED BY <1>5, <2>2, RowsAreRows DEF LockSession, GoOn, Lock, WorkersOK, Places
<1>6. CASE LockActor(w)
  <2>1. RowsHeldBy(w) /\ op[w].kind \in Administrative
    BY <1>6 DEF LockActor, RowsHeld, RowsHeldBy
  <2>2. ActorRows(w) \subseteq AnyRow
    BY <2>1, ActorType, RowsAreRows DEF RowsHeldBy, ActorRows
  <2>3. CASE Refuse(w)
    BY <1>1, <2>3 DEF Refuse
  <2>4. CASE ~Refuse(w)
    <3>1. plan' \in [Workers -> Plans]
      BY <1>6, <2>4 DEF LockActor, WorkersOK, BoundsOK, Plans
    <3> QED BY <1>6, <2>2, <2>4, <3>1 DEF LockActor, GoOn, Lock, WorkersOK, Places
  <2> QED BY <2>3, <2>4
<1>7. CASE LockTarget(w)
  <2>1. op[w] \in Operations
    BY <1>7 DEF LockTarget, RowsHeld, RowsHeldBy
  <2>2. CASE ~Acceptable(op[w])
    BY <1>1, <1>7, <2>2 DEF LockTarget, Refuse
  <2>3. CASE Acceptable(op[w])
    <3>1. plan' \in [Workers -> Plans]
      BY <1>7, <2>3 DEF LockTarget, WorkersOK, TablesOK, BoundsOK, Plans,
                        Holder, Accounts
    <3>2. TargetRows(op[w]) \subseteq AnyRow
      BY <2>1, <2>3, TargetRowsType
    <3> QED BY <1>7, <2>3, <3>1, <3>2 DEF LockTarget, GoOn, Lock, WorkersOK, Places
  <2> QED BY <2>2, <2>3
<1>8. CASE RollBack(w)
  <2>1. First(op[w]) \in Places
    BY DEF First, Places
  <2> QED BY <1>1, <1>8, <2>1 DEF RollBack, WorkersOK
<1>9. CASE AddressTaken(w)
  BY <1>1, <1>9 DEF AddressTaken, Refuse
<1> QED BY <1>2, <1>3, <1>4, <1>5, <1>6, <1>7, <1>8, <1>9 DEF Step

LEMMA StepBounds ==
  ASSUME TypeOK, [Next]_vars
  PROVE  BoundsOK'
<1> USE TypeParts DEF BoundsOK
<1>1. CASE Tick
  BY <1>1, ConstantBounds DEF Tick, bounds
<1>2. CASE UNCHANGED vars
  BY <1>2 DEF vars, bounds
<1>3. ASSUME NEW w \in Workers, Step(w) \/ Commit(w)
      PROVE  BoundsOK'
  <2>1. UNCHANGED clock
    <3>1. CASE Step(w)
      BY <3>1, StepWritesNothing
    <3>2. CASE Commit(w)
      BY <3>2 DEF Commit, Bootstrap, CreateStaff, SetActive, SetRoles, Update,
                  Login, Logout, CreateCode, Revoke, Activate
    <3> QED BY <1>3, <3>1, <3>2
  <2>2. started' \in 0..MaxOperations
    <3>1. CASE Begin(w)
      BY <3>1, ConstantBounds DEF Begin
    <3>2. CASE ~Begin(w)
      BY <1>3, <3>2 DEF Step, LockAdministration, LockSession, LockActor,
                        LockTarget, RollBack, AddressTaken, Refuse, GoOn, bounds,
                        Commit, Bootstrap, CreateStaff, SetActive, SetRoles,
                        Update, Login, Logout, CreateCode, Revoke, Activate
    <3> QED BY <3>1, <3>2
  <2>3. faults' = faults \/ Fault
    BY <1>3 DEF Step, Begin, LockAdministration, LockSession, LockActor,
                LockTarget, RollBack, AddressTaken, Refuse, GoOn, bounds,
                Commit, Bootstrap, CreateStaff, SetActive, SetRoles, Update,
                Login, Logout, CreateCode, Revoke, Activate
  <2>4. faults' \in 0..MaxFaults
    BY <2>3, ConstantBounds DEF Fault
  <2> QED BY <2>1, <2>2, <2>4
<1> QED BY <1>1, <1>2, <1>3, NextCases

(* require_actor's write changes one row, which is locked, and in it the   *)
(* time it was seen only.                                                  *)
LEMMA SeenRows ==
  ASSUME StaffInv, NEW w \in Workers, pc[w] = "commit",
         op[w].kind \in Administrative
  PROVE  /\ op[w].session \in Sessions /\ Actor(w) \in Staff
         /\ Seen(w) \in [Sessions -> SessionRows \cup {None}]
         /\ \A s \in Sessions :
              /\ session[s] = None <=> Seen(w)[s] = None
              /\ SessionRow(s) \notin locks[w] => Seen(w)[s] = session[s]
              /\ session[s] # None =>
                   /\ Seen(w)[s].staff = session[s].staff
                   /\ Seen(w)[s].since = session[s].since
                   /\ Seen(w)[s].revoked = session[s].revoked
<1>1. RowsHeldBy(w) /\ TablesOK /\ WorkersOK
  BY TypeParts DEF StaffInv, RowsHeld
<1>2. /\ op[w].session \in Sessions /\ session[op[w].session] \in SessionRows
      /\ Actor(w) \in Staff
  BY <1>1, ActorType DEF StaffInv, RowsHeldBy
<1>3. SessionRow(op[w].session) \in locks[w]
  BY <1>1 DEF RowsHeldBy
<1>4. plan[w].now \in 0..MaxClock
  BY <1>1 DEF WorkersOK, Plans
<1>5. [session[op[w].session] EXCEPT !.seen = plan[w].now] \in SessionRows
  BY <1>2, <1>4 DEF SessionRows
<1>6. Seen(w) \in [Sessions -> SessionRows \cup {None}]
  BY <1>1, <1>2, <1>5 DEF Seen, TablesOK
<1>7. Seen(w)[op[w].session] = [session[op[w].session] EXCEPT !.seen = plan[w].now]
  BY <1>1, <1>2 DEF Seen, TablesOK
<1>8. \A s \in Sessions : s # op[w].session => Seen(w)[s] = session[s]
  BY <1>1, <1>2 DEF Seen, TablesOK
<1>9. None \notin SessionRows
  BY StaffAccessAssumption
<1>10. /\ Seen(w)[op[w].session].staff = session[op[w].session].staff
       /\ Seen(w)[op[w].session].since = session[op[w].session].since
       /\ Seen(w)[op[w].session].revoked = session[op[w].session].revoked
  BY <1>2, <1>7 DEF SessionRows
<1> QED BY <1>2, <1>3, <1>5, <1>6, <1>7, <1>8, <1>9, <1>10

LEMMA NewAccountType ==
  ASSUME NEW address \in Addresses, NEW roles \in SUBSET Roles
  PROVE  NewAccount(address, roles) \in AccountRows
BY DEF NewAccount, AccountRows

LEMMA AccountParts ==
  ASSUME TablesOK, NEW a \in Accounts
  PROVE  /\ a \in Staff /\ account[a] \in AccountRows
         /\ \A x \in BOOLEAN : [account[a] EXCEPT !.active = x] \in AccountRows
         /\ \A r \in SUBSET Roles : [account[a] EXCEPT !.roles = r] \in AccountRows
         /\ \A m \in Addresses : [account[a] EXCEPT !.address = m] \in AccountRows
BY DEF Accounts, TablesOK, AccountRows

LEMMA NoRowIsNone ==
  None \notin AccountRows /\ None \notin SessionRows /\ None \notin PhoneRows
BY StaffAccessAssumption

(* EndSessions changes rows of one account that nobody else has locked.    *)
LEMMA EndedSessions ==
  ASSUME StaffInv, NEW w \in Workers, pc[w] = "commit",
         op[w].kind \in Administrative, NEW a \in Staff, EndSessions(w, a)
  PROVE  /\ session' \in [Sessions -> SessionRows \cup {None}]
         /\ epoch' = [epoch EXCEPT ![a] = @ + 1]
         /\ \A s \in Sessions : session[s] # None =>
              /\ session'[s] # None
              /\ session'[s].staff = session[s].staff
              /\ session'[s].since = session[s].since
              /\ session[s].staff = a => session'[s].revoked
              /\ session[s].staff # a => session'[s].revoked = session[s].revoked
         /\ \A s \in Sessions : session[s] = None => session'[s] = None
         /\ \A x \in Workers \ {w}, s \in Sessions :
              SessionRow(s) \in locks[x] => session'[s] = session[s]
<1> DEFINE row(s) == [Seen(w)[s] EXCEPT !.revoked = TRUE]
<1>1. \A s \in Sessions : session'[s] = IF s \in LiveSessions(a) THEN row(s) ELSE Seen(w)[s]
  BY DEF EndSessions
<1>2. session' = [s \in Sessions |-> session'[s]]
  BY DEF EndSessions
<1>3. \A s \in LiveSessions(a) : s \in Sessions /\ session[s] # None
  BY DEF LiveSessions
<1>4. \A s \in LiveSessions(a) : Seen(w)[s] \in SessionRows
  BY <1>3, SeenRows
<1>5. \A s \in LiveSessions(a) :
        /\ row(s) \in SessionRows /\ row(s).revoked
        /\ row(s).staff = session[s].staff /\ row(s).since = session[s].since
  BY <1>3, <1>4, SeenRows DEF SessionRows
<1>6. session' \in [Sessions -> SessionRows \cup {None}]
  <2> HIDE DEF row
  <2> QED BY <1>1, <1>2, <1>5, SeenRows
<1>7. ASSUME NEW s \in Sessions, session[s] # None
      PROVE  /\ session'[s] # None
             /\ session'[s].staff = session[s].staff
             /\ session'[s].since = session[s].since
             /\ session[s].staff = a => session'[s].revoked
             /\ session[s].staff # a => session'[s].revoked = session[s].revoked
  <2> HIDE DEF row
  <2>1. CASE s \in LiveSessions(a)
    BY <1>1, <1>5, <2>1, NoRowIsNone DEF LiveSessions
  <2>2. CASE s \notin LiveSessions(a)
    BY <1>1, <1>7, <2>2, SeenRows DEF LiveSessions
  <2> QED BY <2>1, <2>2
<1>8. ASSUME NEW s \in Sessions, session[s] = None
      PROVE  session'[s] = None
  BY <1>1, <1>3, <1>8, SeenRows
<1>9. ASSUME NEW x \in Workers \ {w}, NEW s \in Sessions, SessionRow(s) \in locks[x]
      PROVE  session'[s] = session[s]
  <2>1. s \notin LiveSessions(a)
    BY <1>9 DEF EndSessions, Free
  <2>2. SessionRow(s) \notin locks[w]
    BY <1>9 DEF StaffInv, LocksExclude
  <2> QED BY <1>1, <2>1, <2>2, SeenRows
<1>10. epoch' = [epoch EXCEPT ![a] = @ + 1]
  BY DEF EndSessions
<1> QED BY <1>6, <1>7, <1>8, <1>9, <1>10

(* Requests of administrators leave every session a row, of its account.   *)
LEMMA SessionsOfRequests ==
  ASSUME StaffInv, NEW w \in Workers, pc[w] = "commit",
         op[w].kind \in Administrative, session' = Seen(w)
  PROVE  /\ session' \in [Sessions -> SessionRows \cup {None}]
         /\ \A s \in Sessions : session[s] # None =>
              /\ session'[s] # None
              /\ session'[s].staff = session[s].staff
              /\ session'[s].since = session[s].since
              /\ session'[s].revoked = session[s].revoked
         /\ \A s \in Sessions : session[s] = None => session'[s] = None
         /\ \A x \in Workers \ {w}, s \in Sessions :
              SessionRow(s) \in locks[x] => session'[s] = session[s]
<1>1. \A x \in Workers \ {w}, s \in Sessions :
        SessionRow(s) \in locks[x] => SessionRow(s) \notin locks[w]
  BY DEF StaffInv, LocksExclude
<1> QED BY <1>1, SeenRows

-----------------------------------------------------------------------------
(* Commits                                                                 *)

(* What another worker has locked is as it was.                            *)
Protected(x) ==
  /\ \A a \in Accounts : AccountRow(a) \in locks[x] =>
       account'[a] = account[a] /\ epoch'[a] = epoch[a]
  /\ \A s \in Sessions : session[s] # None /\ SessionRow(s) \in locks[x] =>
       session'[s] = session[s]
  /\ \A p \in Phones : phone[p] # None /\ PhoneRow(p) \in locks[x] =>
       phone'[p] = phone[p]
  /\ AdministrationRow \in locks[x] => Administrators' = Administrators

(* What every commit does for the invariant.                               *)
Keeps(w) ==
  /\ TablesOK' /\ TokensKept' /\ tokens \subseteq tokens'
  /\ AdministratorRemains' /\ SessionsEnded' /\ OneBrowserPerCode'
  /\ \A x \in Workers \ {w} : Protected(x)

(* What a commit relies on.                                                *)
LEMMA Committing ==
  ASSUME StaffInv, NEW w \in Workers, pc[w] = "commit"
  PROVE  /\ RowsHeldBy(w) /\ JudgementOf(w) /\ TablesOK /\ op[w] \in Operations
         /\ op[w].kind \in Serialized => AdministrationRow \in locks[w]
         /\ op[w].kind \in Administrative => Authorized(w) /\ Accounts # {}
         /\ \A x \in Workers \ {w} : locks[x] \cap locks[w] = {}
<1>1. RowsHeldBy(w) /\ JudgementOf(w) /\ TablesOK
  BY TypeParts DEF StaffInv, RowsHeld, JudgementHolds
<1>2. op[w].kind \in Administrative => Authorized(w)
  BY <1>1 DEF RowsHeldBy
<1>3. op[w].kind \in Administrative => Accounts # {}
  BY <1>2 DEF Authorized, IsAdministrator
<1>4. op[w].kind \in Serialized => AdministrationRow \in locks[w]
  BY <1>1 DEF RowsHeldBy
<1>5. \A x \in Workers \ {w} : locks[x] \cap locks[w] = {}
  BY DEF StaffInv, LocksExclude
<1> QED BY <1>1, <1>2, <1>3, <1>4, <1>5 DEF RowsHeldBy

(* The session rows of a commit that ends none or those of one account.    *)
LEMMA SessionsKept ==
  ASSUME StaffInv, NEW w \in Workers, pc[w] = "commit",
         op[w].kind \in Administrative, UNCHANGED tokens,
         \/ KeepSessions(w)
         \/ \E a \in Staff : AccountRow(a) \in locks[w] /\ EndSessions(w, a)
  PROVE  /\ session' \in [Sessions -> SessionRows \cup {None}]
         /\ epoch' \in [Staff -> Nat] /\ TokensKept' /\ SessionsEnded'
         /\ \A x \in Workers \ {w}, s \in Sessions :
              SessionRow(s) \in locks[x] => session'[s] = session[s]
         /\ \A x \in Workers \ {w}, a \in Staff :
              AccountRow(a) \in locks[x] => epoch'[a] = epoch[a]
<1> USE Committing
<1>1. CASE KeepSessions(w)
  <2>1. session' = Seen(w) /\ epoch' = epoch
    BY <1>1 DEF KeepSessions
  <2>2. TokensKept'
    BY <2>1, SessionsOfRequests DEF TokensKept, StaffInv, TablesOK
  <2>3. SessionsEnded'
    <3> SUFFICES ASSUME NEW s \in Sessions, session'[s] # None, ~session'[s].revoked
                 PROVE  session'[s].since = epoch'[session'[s].staff]
      BY DEF SessionsEnded
    <3>1. session[s] # None
      BY <2>1, SessionsOfRequests
    <3>2. /\ session'[s].staff = session[s].staff
          /\ session'[s].since = session[s].since /\ ~session[s].revoked
      BY <2>1, <3>1, SessionsOfRequests
    <3> QED BY <2>1, <3>1, <3>2 DEF StaffInv, SessionsEnded
  <2> QED BY <2>1, <2>2, <2>3, SessionsOfRequests DEF TablesOK
<1>2. ASSUME NEW a \in Staff, AccountRow(a) \in locks[w], EndSessions(w, a)
      PROVE  /\ session' \in [Sessions -> SessionRows \cup {None}]
             /\ epoch' \in [Staff -> Nat] /\ TokensKept' /\ SessionsEnded'
             /\ \A x \in Workers \ {w}, s \in Sessions :
                  SessionRow(s) \in locks[x] => session'[s] = session[s]
             /\ \A x \in Workers \ {w}, b \in Staff :
                  AccountRow(b) \in locks[x] => epoch'[b] = epoch[b]
  <2>1. TokensKept'
    BY <1>2, EndedSessions DEF TokensKept, StaffInv, TablesOK
  <2>2. SessionsEnded'
    <3> SUFFICES ASSUME NEW s \in Sessions, session'[s] # None, ~session'[s].revoked
                 PROVE  session'[s].since = epoch'[session'[s].staff]
      BY DEF SessionsEnded
    <3>1. session[s] # None
      BY <1>2, EndedSessions
    <3>2. /\ session'[s].staff = session[s].staff /\ session[s].staff # a
          /\ session'[s].since = session[s].since /\ ~session[s].revoked
      BY <1>2, <3>1, EndedSessions
    <3>3. session[s].staff \in Staff
      BY <3>1 DEF TablesOK, SessionRows
    <3>4. epoch'[session[s].staff] = epoch[session[s].staff]
      BY <1>2, <3>2, <3>3, EndedSessions DEF TablesOK
    <3> QED BY <3>1, <3>2, <3>4 DEF StaffInv, SessionsEnded
  <2>3. epoch' \in [Staff -> Nat]
    BY <1>2, EndedSessions DEF TablesOK
  <2>4. \A x \in Workers \ {w}, b \in Staff :
          AccountRow(b) \in locks[x] => epoch'[b] = epoch[b]
    <3>1. \A x \in Workers \ {w}, b \in Staff : AccountRow(b) \in locks[x] => b # a
      BY <1>2 DEF StaffInv, LocksExclude
    <3> QED BY <1>2, <3>1, EndedSessions DEF TablesOK
  <2> QED BY <1>2, <2>1, <2>2, <2>3, <2>4, EndedSessions
<1> QED BY <1>1, <1>2

(* If an account may lose its rights, another administrator is there.      *)
LEMMA AnotherAdministrator ==
  ASSUME AdministratorRemains, NEW a \in Accounts, NEW active \in BOOLEAN, NEW roles,
         ~LastAdministrator(a, active, roles), ~active \/ "ADMIN" \notin roles
  PROVE  \E b \in Administrators : b # a
<1> SUFFICES ASSUME \A b \in Administrators : b = a PROVE FALSE
  OBVIOUS
<1>1. Administrators # {}
  BY DEF AdministratorRemains
<1>2. Administrators = {a}
  BY <1>1
<1>3. IsAdministrator(a)
  BY <1>2 DEF Administrators
<1>4. Cardinality(Administrators) = 1
  BY <1>2, FS_Singleton
<1> QED BY <1>3, <1>4 DEF LastAdministrator

LEMMA BootstrapKeeps ==
  ASSUME StaffInv, NEW w \in Workers, Bootstrap(w)
  PROVE  Keeps(w)
<1>1. pc[w] = "commit" /\ op[w].kind = "BOOTSTRAP"
  BY DEF Bootstrap, Ready
<1>2. PICK a \in Staff \ Accounts :
        account' = [account EXCEPT ![a] = NewAccount(op[w].address, {"ADMIN"})]
  BY DEF Bootstrap
<1>3. NewAccount(op[w].address, {"ADMIN"}) \in AccountRows
  BY <1>1, Committing, OperationParts, NewAccountType DEF Roles
<1>4. UNCHANGED <<session, phone, tokens, given, epoch>>
  BY DEF Bootstrap, told
<1>5. TablesOK'
  BY <1>1, <1>2, <1>3, <1>4, Committing DEF TablesOK
<1>6. AdministratorRemains'
  <2>1. account'[a] = NewAccount(op[w].address, {"ADMIN"})
    BY <1>1, <1>2, Committing DEF TablesOK
  <2>2. a \in Administrators'
    BY <1>3, <2>1, NoRowIsNone DEF Administrators, IsAdministrator, Accounts, NewAccount
  <2> QED BY <2>2 DEF AdministratorRemains
<1>7. \A x \in Workers \ {w} : AdministrationRow \notin locks[x]
  BY <1>1, Committing DEF Serialized
<1>8. \A b \in Accounts : account'[b] = account[b]
  BY <1>1, <1>2, Committing DEF TablesOK, Accounts
<1> QED BY <1>4, <1>5, <1>6, <1>7, <1>8
        DEF Keeps, Protected, StaffInv, TokensKept, SessionsEnded, OneBrowserPerCode

LEMMA CreateStaffKeeps ==
  ASSUME StaffInv, NEW w \in Workers, CreateStaff(w)
  PROVE  Keeps(w)
<1>1. pc[w] = "commit" /\ op[w].kind = "CREATE" /\ op[w].kind \in Administrative
  BY DEF CreateStaff, Ready, Administrative
<1>2. PICK a \in Staff \ Accounts :
        account' = [account EXCEPT ![a] = NewAccount(op[w].address, op[w].roles)]
  BY DEF CreateStaff
<1>3. NewAccount(op[w].address, op[w].roles) \in AccountRows
  BY <1>1, Committing, OperationParts, NewAccountType
<1>4. UNCHANGED <<phone, tokens, given>> /\ KeepSessions(w)
  BY DEF CreateStaff, told, KeepSessions
<1>5. TablesOK'
  BY <1>1, <1>2, <1>3, <1>4, Committing, SessionsKept DEF TablesOK
<1>6. \A b \in Accounts : account'[b] = account[b]
  BY <1>1, <1>2, Committing DEF TablesOK, Accounts
<1>7. AdministratorRemains'
  <2>1. PICK b \in Staff : IsAdministrator(b)
    BY <1>1, Committing DEF StaffInv, AdministratorRemains, Administrators
  <2>2. b \in Administrators'
    BY <1>6, <2>1 DEF Administrators, IsAdministrator, Accounts
  <2> QED BY <2>2 DEF AdministratorRemains
<1>8. \A x \in Workers \ {w} : AdministrationRow \notin locks[x]
  BY <1>1, Committing DEF Serialized
<1>9. OneBrowserPerCode'
  BY <1>4 DEF StaffInv, OneBrowserPerCode
<1> QED BY <1>1, <1>4, <1>5, <1>6, <1>7, <1>8, <1>9, SessionsKept
        DEF Keeps, Protected, Accounts

LEMMA SetActiveKeeps ==
  ASSUME StaffInv, NEW w \in Workers, SetActive(w)
  PROVE  Keeps(w)
<1> DEFINE a == op[w].who
<1>1. pc[w] = "commit" /\ op[w].kind = "SET_ACTIVE" /\ op[w].kind \in Administrative
  BY DEF SetActive, Ready, Administrative
<1>2. /\ a \in Accounts /\ AccountRow(a) \in locks[w]
      /\ ~LastAdministrator(a, op[w].active, account[a].roles)
      /\ op[w].active \in BOOLEAN
  BY <1>1, Committing, OperationParts DEF JudgementOf
<1>3. account' = [account EXCEPT ![a] = [account[a] EXCEPT !.active = op[w].active]]
  BY DEF SetActive
<1>4. UNCHANGED <<phone, tokens, given>> /\ (KeepSessions(w) \/ EndSessions(w, a))
  BY DEF SetActive, told
<1> HIDE DEF a
<1>5. a \in Staff /\ account[a] \in AccountRows
      /\ [account[a] EXCEPT !.active = op[w].active] \in AccountRows
  BY <1>1, <1>2, Committing, AccountParts
<1>6. TablesOK'
  BY <1>1, <1>2, <1>3, <1>4, <1>5, Committing, SessionsKept DEF TablesOK
<1>7. \A b \in Staff \ {a} : account'[b] = account[b]
  BY <1>1, <1>3, Committing DEF TablesOK
<1>8. account'[a] = [account[a] EXCEPT !.active = op[w].active]
  BY <1>1, <1>3, <1>5, Committing DEF TablesOK
<1>9. AdministratorRemains'
  <2>1. CASE \E b \in Administrators : b # a
    BY <1>7, <2>1 DEF AdministratorRemains, Administrators, IsAdministrator, Accounts
  <2>2. CASE ~(\E b \in Administrators : b # a)
    <3>1. op[w].active /\ "ADMIN" \in account[a].roles
      BY <1>2, <2>2, AnotherAdministrator DEF StaffInv
    <3>2. account'[a].active = op[w].active /\ account'[a].roles = account[a].roles
      BY <1>5, <1>8 DEF AccountRows
    <3>3. a \in Administrators'
      BY <1>5, <1>8, <3>1, <3>2, NoRowIsNone DEF Administrators, IsAdministrator, Accounts
    <3> QED BY <3>3 DEF AdministratorRemains
  <2> QED BY <2>1, <2>2
<1>10. \A x \in Workers \ {w} :
         AdministrationRow \notin locks[x] /\ AccountRow(a) \notin locks[x]
  BY <1>1, <1>2, Committing DEF Serialized
<1>11. OneBrowserPerCode'
  BY <1>4 DEF StaffInv, OneBrowserPerCode
<1> QED BY <1>1, <1>2, <1>4, <1>5, <1>6, <1>7, <1>9, <1>10, <1>11, SessionsKept
        DEF Keeps, Protected, Accounts

LEMMA SetRolesKeeps ==
  ASSUME StaffInv, NEW w \in Workers, SetRoles(w)
  PROVE  Keeps(w)
<1> DEFINE a == op[w].who
<1>1. pc[w] = "commit" /\ op[w].kind = "SET_ROLES" /\ op[w].kind \in Administrative
  BY DEF SetRoles, Ready, Administrative
<1>2. /\ a \in Accounts /\ AccountRow(a) \in locks[w]
      /\ ~LastAdministrator(a, account[a].active, op[w].roles)
      /\ op[w].roles \in SUBSET Roles
  BY <1>1, Committing, OperationParts DEF JudgementOf
<1>3. account' = [account EXCEPT ![a] = [account[a] EXCEPT !.roles = op[w].roles]]
  BY DEF SetRoles
<1>4. UNCHANGED <<phone, tokens, given>> /\ KeepSessions(w)
  BY DEF SetRoles, told
<1> HIDE DEF a
<1>5. /\ a \in Staff /\ account[a] \in AccountRows
      /\ [account[a] EXCEPT !.roles = op[w].roles] \in AccountRows
  BY <1>1, <1>2, Committing, AccountParts
<1>6. TablesOK'
  BY <1>1, <1>2, <1>3, <1>4, <1>5, Committing, SessionsKept DEF TablesOK
<1>7. \A b \in Staff \ {a} : account'[b] = account[b]
  BY <1>1, <1>3, Committing DEF TablesOK
<1>8. account'[a] = [account[a] EXCEPT !.roles = op[w].roles]
  BY <1>1, <1>3, <1>5, Committing DEF TablesOK
<1>9. AdministratorRemains'
  <2>1. CASE \E b \in Administrators : b # a
    BY <1>7, <2>1 DEF AdministratorRemains, Administrators, IsAdministrator, Accounts
  <2>2. CASE ~(\E b \in Administrators : b # a)
    <3>1. account[a].active \in BOOLEAN
      BY <1>5 DEF AccountRows
    <3>2. account[a].active /\ "ADMIN" \in op[w].roles
      BY <1>2, <2>2, <3>1, AnotherAdministrator DEF StaffInv
    <3>3. account'[a].active = account[a].active /\ account'[a].roles = op[w].roles
      BY <1>5, <1>8 DEF AccountRows
    <3>4. a \in Administrators'
      BY <1>5, <1>8, <3>2, <3>3, NoRowIsNone DEF Administrators, IsAdministrator, Accounts
    <3> QED BY <3>4 DEF AdministratorRemains
  <2> QED BY <2>1, <2>2
<1>10. \A x \in Workers \ {w} :
         AdministrationRow \notin locks[x] /\ AccountRow(a) \notin locks[x]
  BY <1>1, <1>2, Committing DEF Serialized
<1>11. OneBrowserPerCode'
  BY <1>4 DEF StaffInv, OneBrowserPerCode
<1> QED BY <1>1, <1>2, <1>4, <1>5, <1>6, <1>7, <1>9, <1>10, <1>11, SessionsKept
        DEF Keeps, Protected, Accounts

LEMMA UpdateKeeps ==
  ASSUME StaffInv, NEW w \in Workers, Update(w)
  PROVE  Keeps(w)
<1> DEFINE a == op[w].who
<1>1. /\ pc[w] = "commit" /\ op[w].kind = "UPDATE" /\ op[w].kind \in Administrative
      /\ op[w].address \in Addresses
  BY Committing, OperationParts DEF Update, Ready, Administrative
<1>2. a \in Accounts /\ AccountRow(a) \in locks[w]
  BY <1>1, Committing DEF JudgementOf
<1>3. account' = [account EXCEPT ![a] = [account[a] EXCEPT !.address = op[w].address]]
  BY DEF Update
<1>4. UNCHANGED <<phone, tokens, given>> /\ (KeepSessions(w) \/ EndSessions(w, a))
  BY DEF Update, told
<1> HIDE DEF a
<1>5. /\ a \in Staff /\ account[a] \in AccountRows
      /\ [account[a] EXCEPT !.address = op[w].address] \in AccountRows
  BY <1>1, <1>2, Committing, AccountParts
<1>6. TablesOK'
  BY <1>1, <1>2, <1>3, <1>4, <1>5, Committing, SessionsKept DEF TablesOK
<1>7. \A b \in Staff \ {a} : account'[b] = account[b]
  BY <1>1, <1>3, Committing DEF TablesOK
<1>8. account'[a] = [account[a] EXCEPT !.address = op[w].address]
  BY <1>1, <1>3, <1>5, Committing DEF TablesOK
<1>9. /\ account'[a] # None /\ account'[a].active = account[a].active
      /\ account'[a].roles = account[a].roles
  BY <1>5, <1>8, NoRowIsNone DEF AccountRows
<1>10. Administrators' = Administrators /\ Accounts' = Accounts
  BY <1>2, <1>5, <1>7, <1>9 DEF Administrators, IsAdministrator, Accounts
<1>11. AdministratorRemains'
  BY <1>10 DEF StaffInv, AdministratorRemains
<1>12. \A x \in Workers \ {w} : AccountRow(a) \notin locks[x]
  BY <1>1, <1>2, Committing
<1>13. OneBrowserPerCode'
  BY <1>4 DEF StaffInv, OneBrowserPerCode
<1> QED BY <1>1, <1>2, <1>4, <1>5, <1>6, <1>7, <1>10, <1>11, <1>12, <1>13, SessionsKept
        DEF Keeps, Protected, Accounts

LEMMA LoginKeeps ==
  ASSUME StaffInv, NEW w \in Workers, Login(w)
  PROVE  Keeps(w)
<1> DEFINE row == [staff |-> plan[w].who,
                   expires |-> Expiry(plan[w].now, SessionTime),
                   seen |-> plan[w].now, revoked |-> FALSE,
                   since |-> plan[w].since]
<1>1. pc[w] = "commit" /\ op[w].kind = "LOGIN"
  BY DEF Login, Ready
<1>2. PICK s \in Sessions : /\ session[s] = None
                            /\ session' = [session EXCEPT ![s] = row]
                            /\ tokens' \in {tokens, tokens \cup {s}}
  BY DEF Login
<1>3. UNCHANGED <<account, phone, given, epoch>>
  BY DEF Login
<1>4. plan[w].who \in Staff /\ plan[w].since = epoch[plan[w].who]
  BY <1>1, Committing DEF JudgementOf, Accounts
<1>5. row \in SessionRows
  <2>1. plan[w].now \in 0..MaxClock /\ plan[w].since \in Nat
    BY TypeParts DEF StaffInv, WorkersOK, Plans
  <2>2. Expiry(plan[w].now, SessionTime) \in 0..MaxClock + SessionTime
    BY <2>1, ConstantBounds DEF Expiry
  <2> QED BY <1>4, <2>1, <2>2 DEF SessionRows
<1>6. row.staff = plan[w].who /\ row.since = plan[w].since
  OBVIOUS
<1> HIDE DEF row
<1>7. TablesOK'
  BY <1>1, <1>2, <1>3, <1>5, Committing DEF TablesOK
<1>8. session'[s] = row /\ \A t \in Sessions \ {s} : session'[t] = session[t]
  BY <1>1, <1>2, Committing DEF TablesOK
<1>9. TokensKept'
  BY <1>1, <1>2, <1>5, <1>8, NoRowIsNone, Committing DEF StaffInv, TokensKept, TablesOK
<1>10. SessionsEnded'
  BY <1>3, <1>4, <1>6, <1>8 DEF StaffInv, SessionsEnded
<1>11. AdministratorRemains' /\ OneBrowserPerCode' /\ Administrators' = Administrators
  BY <1>3 DEF StaffInv, AdministratorRemains, OneBrowserPerCode, Administrators,
              IsAdministrator, Accounts
<1> QED BY <1>2, <1>3, <1>7, <1>8, <1>9, <1>10, <1>11 DEF Keeps, Protected

LEMMA LogoutKeeps ==
  ASSUME StaffInv, NEW w \in Workers, Logout(w)
  PROVE  Keeps(w)
<1> DEFINE s == op[w].session
<1>1. pc[w] = "commit" /\ op[w].kind = "LOGOUT"
  BY DEF Logout, Ready
<1>2. s \in Sessions /\ SessionRow(s) \in locks[w] /\ session[s] \in SessionRows
  <2>1. s \in Sessions /\ SessionRow(s) \in locks[w]
    BY <1>1, Committing, OperationParts DEF JudgementOf
  <2>2. session[s] # None
    BY <1>1, <2>1, Committing, StaffAccessAssumption DEF RowsHeldBy, StaffInv, TokensKept
  <2> QED BY <1>1, <2>1, <2>2, Committing DEF TablesOK
<1>3. session' = [session EXCEPT ![s] = [session[s] EXCEPT !.revoked = TRUE]]
  BY DEF Logout
<1>4. UNCHANGED <<account, phone, tokens, given, epoch>>
  BY DEF Logout, told
<1> HIDE DEF s
<1>5. /\ [session[s] EXCEPT !.revoked = TRUE] \in SessionRows
      /\ [session[s] EXCEPT !.revoked = TRUE].revoked
  BY <1>2 DEF SessionRows
<1>6. TablesOK'
  BY <1>1, <1>2, <1>3, <1>4, <1>5, Committing DEF TablesOK
<1>7. /\ session'[s] = [session[s] EXCEPT !.revoked = TRUE]
      /\ \A t \in Sessions \ {s} : session'[t] = session[t]
  BY <1>1, <1>2, <1>3, Committing DEF TablesOK
<1>8. TokensKept'
  BY <1>1, <1>4, <1>5, <1>7, NoRowIsNone, Committing DEF StaffInv, TokensKept, TablesOK
<1>9. SessionsEnded'
  BY <1>4, <1>5, <1>7 DEF StaffInv, SessionsEnded
<1>10. \A x \in Workers \ {w} : SessionRow(s) \notin locks[x]
  BY <1>1, <1>2, Committing
<1>11. AdministratorRemains' /\ OneBrowserPerCode' /\ Administrators' = Administrators
  BY <1>4 DEF StaffInv, AdministratorRemains, OneBrowserPerCode, Administrators,
              IsAdministrator, Accounts
<1> QED BY <1>4, <1>6, <1>7, <1>8, <1>9, <1>10, <1>11 DEF Keeps, Protected

LEMMA CreateCodeKeeps ==
  ASSUME StaffInv, NEW w \in Workers, CreateCode(w)
  PROVE  Keeps(w)
<1> DEFINE row == [codeExpires |-> Expiry(plan[w].now, CodeTime),
                   until |-> Expiry(plan[w].now, PhoneTime), browser |-> None,
                   revoked |-> FALSE]
<1>1. pc[w] = "commit" /\ op[w].kind \in Administrative
  BY DEF CreateCode, Ready, Administrative
<1>2. PICK p \in Phones : phone[p] = None /\ phone' = [phone EXCEPT ![p] = row]
  BY DEF CreateCode
<1>3. UNCHANGED <<account, tokens, given>> /\ KeepSessions(w)
  BY DEF CreateCode, told, KeepSessions
<1>4. row \in PhoneRows
  <2>1. plan[w].now \in 0..MaxClock
    BY TypeParts DEF StaffInv, WorkersOK, Plans
  <2>2. /\ Expiry(plan[w].now, CodeTime) \in 0..MaxClock + CodeTime
        /\ Expiry(plan[w].now, PhoneTime) \in 0..MaxClock + PhoneTime
    BY <2>1, ConstantBounds DEF Expiry
  <2> QED BY <2>2 DEF PhoneRows
<1> HIDE DEF row
<1>5. TablesOK'
  BY <1>1, <1>2, <1>3, <1>4, Committing, SessionsKept DEF TablesOK
<1>6. \A q \in Phones \ {p} : phone'[q] = phone[q]
  BY <1>1, <1>2, Committing DEF TablesOK
<1>7. OneBrowserPerCode'
  <2>1. given[p] = {}
    BY <1>1, <1>2, Committing DEF StaffInv, OneBrowserPerCode, TablesOK
  <2> QED BY <1>3, <1>6, <2>1 DEF StaffInv, OneBrowserPerCode
<1>8. AdministratorRemains' /\ Administrators' = Administrators
  BY <1>3 DEF StaffInv, AdministratorRemains, Administrators, IsAdministrator, Accounts
<1> QED BY <1>1, <1>2, <1>3, <1>5, <1>6, <1>7, <1>8, SessionsKept
        DEF Keeps, Protected, Accounts

LEMMA RevokeKeeps ==
  ASSUME StaffInv, NEW w \in Workers, Revoke(w)
  PROVE  Keeps(w)
<1> DEFINE p == op[w].phone
<1>1. /\ pc[w] = "commit" /\ op[w].kind = "REVOKE" /\ op[w].kind \in Administrative
  BY DEF Revoke, Ready, Administrative
<1>2. /\ p \in Phones /\ PhoneRow(p) \in locks[w] /\ phone[p] # None
  BY <1>1, Committing, OperationParts DEF JudgementOf
<1>3. phone' = [phone EXCEPT ![p] = [phone[p] EXCEPT !.revoked = TRUE]]
  BY DEF Revoke
<1>4. UNCHANGED <<account, tokens, given>> /\ KeepSessions(w)
  BY DEF Revoke, told, KeepSessions
<1> HIDE DEF p
<1>5. /\ [phone[p] EXCEPT !.revoked = TRUE] \in PhoneRows
      /\ [phone[p] EXCEPT !.revoked = TRUE].browser = phone[p].browser
  BY <1>1, <1>2, Committing DEF TablesOK, PhoneRows
<1>6. TablesOK'
  BY <1>1, <1>2, <1>3, <1>4, <1>5, Committing, SessionsKept DEF TablesOK
<1>7. /\ phone'[p] = [phone[p] EXCEPT !.revoked = TRUE]
      /\ \A q \in Phones \ {p} : phone'[q] = phone[q]
  BY <1>1, <1>2, <1>3, Committing DEF TablesOK
<1>8. OneBrowserPerCode'
  <2>1. phone'[p] # None /\ phone'[p].browser = phone[p].browser
    BY <1>5, <1>7, NoRowIsNone
  <2>2. ASSUME NEW q \in Phones, NEW b \in given[q]
        PROVE  phone'[q] # None /\ phone'[q].browser = b
    <3>1. phone[q] # None /\ phone[q].browser = b
      BY DEF StaffInv, OneBrowserPerCode
    <3> QED BY <1>7, <2>1, <3>1
  <2> QED BY <1>4, <2>2 DEF OneBrowserPerCode
<1>9. \A x \in Workers \ {w} : PhoneRow(p) \notin locks[x]
  BY <1>1, <1>2, Committing
<1>10. AdministratorRemains' /\ Administrators' = Administrators
  BY <1>4 DEF StaffInv, AdministratorRemains, Administrators, IsAdministrator, Accounts
<1> QED BY <1>1, <1>4, <1>6, <1>7, <1>8, <1>9, <1>10, SessionsKept
        DEF Keeps, Protected, Accounts

LEMMA ActivateKeeps ==
  ASSUME StaffInv, NEW w \in Workers, Activate(w)
  PROVE  Keeps(w)
<1> DEFINE p == op[w].phone
           b == op[w].browser
<1>1. pc[w] = "commit" /\ op[w].kind = "ACTIVATE"
  BY DEF Activate, Ready
<1>2. /\ p \in Phones /\ PhoneRow(p) \in locks[w] /\ phone[p] # None
      /\ phone[p].browser = None /\ ~phone[p].revoked /\ b \in Browsers
  BY <1>1, Committing, OperationParts DEF JudgementOf
<1>3. phone' = [phone EXCEPT ![p] = [phone[p] EXCEPT !.browser = b]]
  BY <1>2 DEF Activate
<1>4. /\ UNCHANGED <<account, session, tokens, epoch>>
      /\ given' \in {given, [given EXCEPT ![p] = given[p] \cup {b}]}
  BY DEF Activate
<1> HIDE DEF p, b
<1>5. /\ [phone[p] EXCEPT !.browser = b] \in PhoneRows
      /\ [phone[p] EXCEPT !.browser = b].browser = b
  BY <1>1, <1>2, Committing DEF TablesOK, PhoneRows
<1>6. TablesOK'
  BY <1>1, <1>2, <1>3, <1>4, <1>5, Committing DEF TablesOK
<1>7. /\ phone'[p] = [phone[p] EXCEPT !.browser = b]
      /\ \A q \in Phones \ {p} : phone'[q] = phone[q]
  BY <1>1, <1>2, <1>3, Committing DEF TablesOK
<1>8. OneBrowserPerCode'
  <2>1. given[p] = {}
    BY <1>1, <1>2, Committing, StaffAccessAssumption
    DEF StaffInv, OneBrowserPerCode, TablesOK
  <2>2. given'[p] \subseteq {b} /\ \A q \in Phones \ {p} : given'[q] = given[q]
    BY <1>1, <1>2, <1>4, <2>1, Committing DEF TablesOK
  <2> QED BY <1>5, <1>7, <2>2, NoRowIsNone DEF StaffInv, OneBrowserPerCode
<1>9. \A x \in Workers \ {w} : PhoneRow(p) \notin locks[x]
  BY <1>1, <1>2, Committing
<1>10. /\ AdministratorRemains' /\ Administrators' = Administrators
       /\ SessionsEnded' /\ TokensKept'
  BY <1>4 DEF StaffInv, AdministratorRemains, Administrators, IsAdministrator, Accounts,
              SessionsEnded, TokensKept
<1> QED BY <1>4, <1>6, <1>7, <1>8, <1>9, <1>10 DEF Keeps, Protected

LEMMA CommitKeeps ==
  ASSUME StaffInv, NEW w \in Workers, Commit(w)
  PROVE  Keeps(w)
BY BootstrapKeeps, CreateStaffKeeps, SetActiveKeeps, SetRolesKeeps, UpdateKeeps,
   LoginKeeps, LogoutKeeps, CreateCodeKeeps, RevokeKeeps, ActivateKeeps DEF Commit

-----------------------------------------------------------------------------
(* What requests hold and have found out                                   *)

(* A worker that does not move still has its rows and its judgement.       *)
LEMMA OthersHold ==
  ASSUME StaffInv, NEW x \in Workers, Protected(x), tokens \subseteq tokens',
         op'[x] = op[x], pc'[x] = pc[x], plan'[x] = plan[x], locks'[x] = locks[x]
  PROVE  /\ pc'[x] # "idle" => RowsHeldBy(x)'
         /\ pc'[x] = "commit" => JudgementOf(x)'
<1>1. ASSUME pc[x] # "idle" PROVE RowsHeldBy(x)'
  <2>1. RowsHeldBy(x) /\ TablesOK
    BY <1>1, TypeParts DEF StaffInv, RowsHeld
  <2>2. ASSUME op[x].kind \in Administrative, pc[x] \in {"target", "commit"}
        PROVE  Authorized(x)'
    <3>1. Authorized(x) /\ SessionRow(op[x].session) \in locks[x]
      BY <2>1, <2>2 DEF RowsHeldBy
    <3>2. op[x].session \in Sessions /\ session[op[x].session] # None
      BY <2>1, <2>2, ActorType, NoRowIsNone DEF StaffInv, RowsHeldBy
    <3>3. session'[op[x].session] = session[op[x].session]
      BY <3>1, <3>2 DEF Protected
    <3>4. Actor(x)' = Actor(x)
      BY <3>3 DEF Actor
    <3>5. account'[Actor(x)] = account[Actor(x)] /\ Actor(x) \in Accounts
      BY <3>1 DEF Protected, Authorized, IsAdministrator
    <3>6. IsAdministrator(Actor(x))'
      BY <3>1, <3>4, <3>5 DEF Authorized, IsAdministrator, Accounts
    <3> QED BY <3>1, <3>3, <3>4, <3>6 DEF Authorized
  <2> QED BY <2>1, <2>2 DEF RowsHeldBy
<1>2. ASSUME pc[x] = "commit" PROVE JudgementOf(x)'
  <2> DEFINE o == op[x]
  <2>1. RowsHeldBy(x) /\ JudgementOf(x) /\ TablesOK
    BY <1>2, Committing
  <2>2. ASSUME o.kind \in {"SET_ACTIVE", "SET_ROLES", "UPDATE"}
        PROVE  /\ account'[o.who] = account[o.who] /\ o.who \in Accounts
               /\ o.who \in Accounts' /\ AccountRow(o.who) \in locks[x]
    <3>1. o.who \in Accounts /\ AccountRow(o.who) \in locks[x]
      BY <2>1, <2>2 DEF JudgementOf
    <3>2. account'[o.who] = account[o.who]
      BY <3>1 DEF Protected
    <3> QED BY <3>1, <3>2 DEF Accounts
  <2>3. ASSUME o.kind \in {"SET_ACTIVE", "SET_ROLES"}, NEW active, NEW roles,
               ~LastAdministrator(o.who, active, roles)
        PROVE  ~LastAdministrator(o.who, active, roles)'
    <3>1. AdministrationRow \in locks[x]
      BY <1>2, <2>1, <2>3 DEF RowsHeldBy, Serialized
    <3>2. Administrators' = Administrators
      BY <3>1 DEF Protected
    <3>3. IsAdministrator(o.who)' <=> IsAdministrator(o.who)
      BY <2>2, <2>3 DEF IsAdministrator
    <3> QED BY <2>3, <3>2, <3>3 DEF LastAdministrator
  <2>4. ASSUME o.kind = "SET_ACTIVE"
        PROVE  ~LastAdministrator(o.who, o.active, account[o.who].roles)'
    <3>1. ~LastAdministrator(o.who, o.active, account[o.who].roles)
      BY <2>1, <2>4 DEF JudgementOf
    <3> QED BY <2>2, <2>3, <2>4, <3>1
  <2>5. ASSUME o.kind = "SET_ROLES"
        PROVE  ~LastAdministrator(o.who, account[o.who].active, o.roles)'
    <3>1. ~LastAdministrator(o.who, account[o.who].active, o.roles)
      BY <2>1, <2>5 DEF JudgementOf
    <3> QED BY <2>2, <2>3, <2>5, <3>1
  <2>6. ASSUME o.kind = "LOGIN"
        PROVE  /\ plan[x].who \in Accounts' /\ AccountRow(plan[x].who) \in locks[x]
               /\ plan[x].since = epoch'[plan[x].who]
    BY <2>1, <2>6 DEF JudgementOf, Protected, Accounts
  <2>7. ASSUME o.kind \in {"REVOKE", "ACTIVATE"}
        PROVE  phone'[o.phone] = phone[o.phone]
    <3>1. o.phone \in Phones
      BY <2>1, <2>7, OperationParts DEF RowsHeldBy
    <3> QED BY <2>1, <2>7, <3>1 DEF JudgementOf, Protected
  <2> QED BY <2>1, <2>2, <2>4, <2>5, <2>6, <2>7 DEF JudgementOf
<1> QED BY <1>1, <1>2

(* The worker that moves.                                                  *)
LEMMA BeginHolds ==
  ASSUME StaffInv, NEW w \in Workers, Begin(w)
  PROVE  RowsHeldBy(w)' /\ pc'[w] # "commit"
<1> PICK o \in Operations : /\ o.session = None \/ o.session \in tokens
                            /\ op' = [op EXCEPT ![w] = o]
                            /\ pc' = [pc EXCEPT ![w] = First(o)]
  BY DEF Begin
<1>1. op'[w] = o /\ pc'[w] = First(o) /\ tokens' = tokens
  BY TypeParts DEF StaffInv, WorkersOK, Begin, told
<1> QED BY <1>1 DEF RowsHeldBy, First, Serialized, Administrative

(* A step that takes rows, and what the worker has then.                   *)
LEMMA Taken ==
  ASSUME StaffInv, NEW w \in Workers, NEW rows, Lock(w, rows), NEW step, GoOn(w, step)
  PROVE  /\ locks'[w] = locks[w] \cup rows /\ pc'[w] = step /\ op' = op
         /\ UNCHANGED <<account, session, phone, tokens, epoch>>
BY TypeParts DEF StaffInv, WorkersOK, Lock, GoOn, tables, told

LEMMA LockAdministrationHolds ==
  ASSUME StaffInv, NEW w \in Workers, LockAdministration(w), pc'[w] # "idle"
  PROVE  RowsHeldBy(w)' /\ (pc'[w] = "commit" => JudgementOf(w)')
<1>1. RowsHeldBy(w) /\ pc[w] = "administration"
  BY DEF LockAdministration, StaffInv, RowsHeld
<1>2. ~Refuse(w)
  BY Ends, TypeParts DEF Refuse, StaffInv, WorkersOK
<1> DEFINE step == IF op[w].kind = "BOOTSTRAP" THEN "commit" ELSE "session"
<1>3. Lock(w, {AdministrationRow}) /\ GoOn(w, step) /\ UNCHANGED plan
  BY <1>2 DEF LockAdministration
<1>4. /\ locks'[w] = locks[w] \cup {AdministrationRow} /\ pc'[w] = step /\ op' = op
      /\ tokens' = tokens
  BY <1>3, Taken
<1>5. RowsHeldBy(w)'
  BY <1>1, <1>4 DEF RowsHeldBy, Serialized, Administrative
<1>6. pc'[w] = "commit" => JudgementOf(w)'
  BY <1>4 DEF JudgementOf
<1> QED BY <1>5, <1>6

LEMMA LockSessionHolds ==
  ASSUME StaffInv, NEW w \in Workers, LockSession(w)
  PROVE  RowsHeldBy(w)' /\ pc'[w] # "commit"
<1>1. RowsHeldBy(w) /\ pc[w] = "session"
  BY DEF LockSession, StaffInv, RowsHeld
<1>2. /\ locks'[w] = locks[w] \cup {SessionRow(op[w].session)} /\ pc'[w] = "actor"
      /\ op' = op /\ tokens' = tokens
  BY Taken DEF LockSession
<1> QED BY <1>1, <1>2 DEF RowsHeldBy

LEMMA LockActorHolds ==
  ASSUME StaffInv, NEW w \in Workers, LockActor(w), pc'[w] # "idle"
  PROVE  RowsHeldBy(w)' /\ (pc'[w] = "commit" => JudgementOf(w)')
<1>1. RowsHeldBy(w) /\ pc[w] = "actor"
  BY DEF LockActor, StaffInv, RowsHeld
<1>2. ~Refuse(w)
  BY Ends, TypeParts DEF Refuse, StaffInv, WorkersOK
<1> DEFINE step == IF op[w].kind \in {"CREATE", "CREATE_CODE"} THEN "commit"
                   ELSE "target"
<1>3. /\ Authentic(op[w].session) /\ IsAdministrator(Actor(w))
      /\ Lock(w, ActorRows(w)) /\ GoOn(w, step)
  BY <1>2 DEF LockActor
<1>4. /\ locks'[w] = locks[w] \cup {AccountRow(Actor(w))} /\ pc'[w] = step /\ op' = op
      /\ UNCHANGED <<account, session, phone, tokens, epoch>>
  BY <1>3, Taken DEF ActorRows
<1>5. Authorized(w)'
  BY <1>3, <1>4 DEF Authorized, Authentic, Actor, IsAdministrator, Accounts
<1>6. RowsHeldBy(w)'
  BY <1>1, <1>4, <1>5 DEF RowsHeldBy
<1>7. pc'[w] = "commit" => JudgementOf(w)'
  BY <1>4 DEF JudgementOf
<1> QED BY <1>6, <1>7

LEMMA LockTargetHolds ==
  ASSUME StaffInv, NEW w \in Workers, LockTarget(w), pc'[w] # "idle"
  PROVE  RowsHeldBy(w)' /\ JudgementOf(w)'
<1>1. RowsHeldBy(w) /\ pc[w] = "target" /\ op[w] \in Operations
  BY DEF LockTarget, StaffInv, RowsHeld, RowsHeldBy
<1>2. ~Refuse(w)
  BY Ends, TypeParts DEF Refuse, StaffInv, WorkersOK
<1>3. Acceptable(op[w]) /\ Lock(w, TargetRows(op[w])) /\ GoOn(w, "commit")
  BY <1>2 DEF LockTarget
<1>4. /\ locks'[w] = locks[w] \cup TargetRows(op[w]) /\ pc'[w] = "commit" /\ op' = op
      /\ UNCHANGED <<account, session, phone, tokens, epoch>>
  BY <1>3, Taken
<1>5. RowsHeldBy(w)'
  <2>1. Authorized(w) => Authorized(w)'
    BY <1>4 DEF Authorized, Actor, IsAdministrator, Accounts
  <2> QED BY <1>1, <1>4, <2>1 DEF RowsHeldBy
<1>6. CASE op[w].kind \in {"SET_ACTIVE", "SET_ROLES", "UPDATE"}
  <2>1. AccountRow(op[w].who) \in locks'[w] /\ op[w].who \in Accounts
    BY <1>3, <1>4, <1>6 DEF TargetRows, Acceptable
  <2>2. op[w].kind = "SET_ACTIVE" =>
          ~LastAdministrator(op[w].who, op[w].active, account[op[w].who].roles)
    BY <1>3 DEF Acceptable
  <2>3. op[w].kind = "SET_ROLES" =>
          ~LastAdministrator(op[w].who, account[op[w].who].active, op[w].roles)
    BY <1>3 DEF Acceptable
  <2> QED BY <1>4, <1>5, <1>6, <2>1, <2>2, <2>3
          DEF JudgementOf, LastAdministrator, Administrators, IsAdministrator, Accounts
<1>7. CASE op[w].kind = "LOGIN"
  <2>1. PICK a \in Holder(op[w].address) :
          plan' = [plan EXCEPT ![w] = [who |-> a, since |-> epoch[a], now |-> clock]]
    BY <1>2, <1>7 DEF LockTarget
  <2>2. plan'[w].who = a /\ plan'[w].since = epoch[a]
    BY <2>1, TypeParts DEF StaffInv, WorkersOK
  <2>3. a \in Accounts /\ AccountRow(a) \in locks'[w]
    BY <1>4, <1>7 DEF Holder, TargetRows
  <2> QED BY <1>4, <1>5, <1>7, <2>2, <2>3 DEF JudgementOf, Accounts
<1>8. CASE op[w].kind = "LOGOUT"
  BY <1>4, <1>5, <1>8 DEF TargetRows, JudgementOf
<1>9. CASE op[w].kind \in {"REVOKE", "ACTIVATE"}
  BY <1>3, <1>4, <1>5, <1>9 DEF TargetRows, JudgementOf, Acceptable, Unused
<1> QED BY <1>3, <1>6, <1>7, <1>8, <1>9, <1>5 DEF Acceptable

LEMMA RollBackHolds ==
  ASSUME StaffInv, NEW w \in Workers, RollBack(w), pc'[w] # "idle"
  PROVE  RowsHeldBy(w)' /\ pc'[w] # "commit"
<1>1. RowsHeldBy(w)
  BY DEF RollBack, StaffInv, RowsHeld
<1>2. ~Finish(w)
  BY Ends, TypeParts DEF StaffInv, WorkersOK
<1>3. /\ op[w].kind \in Retried /\ op' = op /\ tokens' = tokens
      /\ pc'[w] = First(op[w])
  BY <1>2, TypeParts DEF RollBack, StaffInv, WorkersOK, told
<1> QED BY <1>1, <1>3 DEF RowsHeldBy, First, Serialized, Administrative, Retried

-----------------------------------------------------------------------------
(* The invariant and the theorems                                          *)

LEMMA InitInvariant == Init => StaffInv
<1> SUFFICES ASSUME Init PROVE StaffInv
  OBVIOUS
<1>1. TypeOK
  BY InitTypes
<1>2. LocksExclude /\ RowsHeld /\ JudgementHolds
  BY DEF Init, LocksExclude, RowsHeld, JudgementHolds
<1>3. TokensKept /\ SessionsEnded /\ OneBrowserPerCode
  BY DEF Init, TokensKept, SessionsEnded, OneBrowserPerCode
<1>4. AdministratorRemains
  BY DEF Init, AdministratorRemains, Accounts
<1> QED BY <1>1, <1>2, <1>3, <1>4 DEF StaffInv

(* Time changes nothing a request relies on.                               *)
LEMMA TickInvariant ==
  ASSUME StaffInv, Tick \/ UNCHANGED vars
  PROVE  StaffInv'
<1>1. /\ UNCHANGED <<account, session, phone, op, pc, plan, locks>>
      /\ UNCHANGED <<tokens, given, epoch>>
  BY DEF Tick, vars, tables, worker, told
<1>2. TypeOK'
  <2>1. TablesOK' /\ WorkersOK'
    BY <1>1, TypeParts DEF StaffInv, TablesOK, WorkersOK
  <2>2. BoundsOK'
    BY StepBounds DEF StaffInv, Next
  <2> QED BY <2>1, <2>2, TypeParts DEF TypeOK, TablesOK, WorkersOK, BoundsOK, Plans, Places
<1>3. LocksExclude' /\ TokensKept'
  BY <1>1 DEF StaffInv, LocksExclude, TokensKept
<1>4. AdministratorRemains' /\ SessionsEnded' /\ OneBrowserPerCode'
  BY <1>1 DEF StaffInv, AdministratorRemains, SessionsEnded, OneBrowserPerCode,
              Accounts, Administrators, IsAdministrator
<1>5. \A x \in Workers : Protected(x)
  BY <1>1 DEF Protected, Administrators, IsAdministrator, Accounts
<1>6. RowsHeld' /\ JudgementHolds'
  BY <1>1, <1>5, OthersHold DEF RowsHeld, JudgementHolds
<1> QED BY <1>2, <1>3, <1>4, <1>6 DEF StaffInv

LEMMA WorkerInvariant ==
  ASSUME StaffInv, NEW w \in Workers, Step(w) \/ Commit(w)
  PROVE  StaffInv'
<1>1. Keeps(w)
  <2>1. CASE Commit(w)
    BY <2>1, CommitKeeps
  <2>2. CASE Step(w)
    <3>1. UNCHANGED <<account, session, phone, tokens, given, epoch>>
      BY <2>2, StepWritesNothing DEF tables, told
    <3>2. TablesOK' /\ TokensKept'
      BY <3>1, TypeParts DEF StaffInv, TablesOK, TokensKept
    <3> QED BY <3>1, <3>2
            DEF Keeps, Protected, StaffInv, AdministratorRemains, SessionsEnded,
                OneBrowserPerCode, Accounts, Administrators, IsAdministrator
  <2> QED BY <2>1, <2>2
<1>2. TypeOK'
  <2>1. TablesOK' /\ WorkersOK'
    BY <1>1, StepWorkers DEF Keeps, StaffInv
  <2>2. BoundsOK'
    BY StepBounds DEF StaffInv, Next
  <2> QED BY <2>1, <2>2, TypeParts DEF TypeOK, TablesOK, WorkersOK, BoundsOK, Plans, Places
<1>3. LocksExclude'
  BY LocksExcludeStep DEF StaffInv, Next
<1>4. \A x \in Workers \ {w} :
        /\ pc'[x] # "idle" => RowsHeldBy(x)'
        /\ pc'[x] = "commit" => JudgementOf(x)'
  BY <1>1, OthersKept, OthersHold DEF Keeps, StaffInv
<1>5. /\ pc'[w] # "idle" => RowsHeldBy(w)'
      /\ pc'[w] = "commit" => JudgementOf(w)'
  <2>1. CASE Finish(w)
    BY <2>1, Ends, TypeParts DEF StaffInv, WorkersOK
  <2>2. CASE Commit(w)
    BY <2>1, <2>2, CommitEnds
  <2>3. CASE Begin(w) \/ LockAdministration(w) \/ LockSession(w) \/ LockActor(w)
    BY <2>3, BeginHolds, LockAdministrationHolds, LockSessionHolds, LockActorHolds
  <2>4. CASE LockTarget(w) \/ RollBack(w)
    BY <2>4, LockTargetHolds, RollBackHolds
  <2>5. CASE AddressTaken(w)
    BY <2>1, <2>5 DEF AddressTaken, Refuse
  <2> QED BY <2>2, <2>3, <2>4, <2>5 DEF Step
<1>6. RowsHeld' /\ JudgementHolds'
  BY <1>4, <1>5 DEF RowsHeld, JudgementHolds
<1> QED BY <1>1, <1>2, <1>3, <1>6 DEF StaffInv, Keeps

(* The invariant: what a transaction has locked and judged is still so, in *)
(* every reachable state.                                                  *)
THEOREM StaffInvariant == Spec => []StaffInv
<1>1. StaffInv /\ [Next]_vars => StaffInv'
  BY NextCases, TickInvariant, WorkerInvariant
<1> QED BY <1>1, InitInvariant, PTL DEF Spec

(* Every table, worker and bound keeps its type.                           *)
THEOREM StaffTypes == Spec => []TypeOK
BY StaffInvariant, PTL DEF StaffInv

(* Some active administrator is always left (_lock_administration,         *)
(* _protect_last_admin).                                                   *)
THEOREM StaffAdministratorRemains == Spec => []AdministratorRemains
<1>1. StaffInv => AdministratorRemains
  BY DEF StaffInv
<1> QED BY <1>1, StaffInvariant, PTL

(* Deactivation and a new address leave no session alive (set_active,      *)
(* update, authenticate).                                                  *)
THEOREM StaffSessionsEnded == Spec => []SessionsEnded
<1>1. StaffInv => SessionsEnded
  BY DEF StaffInv
<1> QED BY <1>1, StaffInvariant, PTL

(* A code activates one phone (activate_code, revoke).                     *)
THEOREM StaffOneBrowserPerCode == Spec => []OneBrowserPerCode
<1>1. StaffInv => OneBrowserPerCode
  BY DEF StaffInv
<1> QED BY <1>1, StaffInvariant, PTL

(* Accounts and phones change only for someone who still is an active      *)
(* administrator with a session (require_actor).                           *)
THEOREM StaffDecidedByAdministrators == Spec => DecidedByAdministrators
<1>1. StaffInv =>
        \A w \in Workers : pc[w] = "commit" /\ op[w].kind \in Administrative =>
          ~session[op[w].session].revoked /\ IsAdministrator(Actor(w))
  BY Committing DEF Authorized
<1>2. StaffInv /\ [Next]_vars =>
        [\A w \in Workers :
           /\ pc[w] = "commit" /\ pc'[w] = "idle"
           /\ op[w].kind \in Administrative
           /\ <<account, phone>>' # <<account, phone>>
           => ~session[op[w].session].revoked /\ IsAdministrator(Actor(w))]_vars
  BY <1>1
<1> QED BY <1>2, StaffInvariant, PTL DEF Spec, DecidedByAdministrators
=============================================================================
