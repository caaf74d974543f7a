---------------------------- MODULE StaffAccess ----------------------------
(***************************************************************************)
(* Who may administer: the accounts and sessions of StaffService           *)
(* (accounts.py) with require_actor (auth.py), and the activation codes of *)
(* ScannerPhoneService (scanner_phones.py), which administrators make and  *)
(* cancel.  A request is one transaction of a worker.  It takes its row    *)
(* locks one after the other, keeps them to its end, and writes nothing    *)
(* another transaction could see before it commits.                        *)
(*                                                                         *)
(* The built-in scanner account is protected in every operation and not    *)
(* part of Staff.  Passwords are left out: a request that does not know    *)
(* one changes nothing.  Role rows are only changed under their account's  *)
(* row lock, so require_actor's lock on them never waits on its own.       *)
(* Phones of the emergency secret and from before codes are left out.      *)
(***************************************************************************)
EXTENDS Naturals, FiniteSets

CONSTANTS
  Workers,
  Staff,          \* ids of staff accounts, used or not
  Addresses,      \* email addresses, which people sign in with
  Sessions,       \* ids of sessions, used or not
  Phones,         \* ids of scanner_phones rows, used or not
  Browsers,       \* browser identities made for an activation
  Operations,     \* the requests that may be made
  SessionTime, IdleTime, CodeTime, PhoneTime,
  MaxClock, MaxOperations, MaxFaults,
  None            \* the absent value

(* AUDITOR is to this module what WAITER is: not ADMIN.                    *)
Roles == {"ADMIN", "WAITER"}
Kinds == {"BOOTSTRAP", "CREATE", "SET_ACTIVE", "SET_ROLES", "UPDATE", "LOGIN",
          "LOGOUT", "CREATE_CODE", "REVOKE", "ACTIVATE"}
OperationType ==
  [kind : Kinds, session : Sessions \cup {None}, who : Staff \cup {None},
   address : Addresses \cup {None}, active : BOOLEAN, roles : SUBSET Roles,
   phone : Phones \cup {None}, browser : Browsers \cup {None}]

(* The rows of the three tables.                                           *)
AccountRows == [active : BOOLEAN, roles : SUBSET Roles, address : Addresses]
SessionRows == [staff : Staff, expires : 0..MaxClock + SessionTime,
                seen : 0..MaxClock, revoked : BOOLEAN, since : Nat]
PhoneRows == [codeExpires : 0..MaxClock + CodeTime,
              until : 0..MaxClock + PhoneTime,
              browser : Browsers \cup {None}, revoked : BOOLEAN]

(* Requests that need an administrator, that run again after a deadlock or *)
(* a time-out, and that take the administration lock.                      *)
Administrative == {"CREATE", "SET_ACTIVE", "SET_ROLES", "UPDATE",
                   "CREATE_CODE", "REVOKE"}
Retried == {"CREATE_CODE", "REVOKE", "ACTIVATE"}

(* Mutant: changes of an account do not wait for each other.               *)
FirstAccountsOnly == {"BOOTSTRAP", "CREATE"}
Serialized == {"BOOTSTRAP", "CREATE", "SET_ACTIVE", "SET_ROLES"}

ASSUME StaffAccessAssumption ==
  /\ IsFiniteSet(Staff)
  /\ {SessionTime, IdleTime, CodeTime, PhoneTime, MaxClock, MaxOperations,
      MaxFaults} \subseteq Nat
  /\ Operations \subseteq OperationType
  /\ \A o \in Operations :
       /\ o.kind \in Administrative \cup {"LOGOUT"} => o.session \in Sessions
       /\ o.kind \in {"SET_ACTIVE", "SET_ROLES", "UPDATE"} => o.who \in Staff
       /\ o.kind \in {"BOOTSTRAP", "CREATE", "UPDATE", "LOGIN"} =>
            o.address \in Addresses
       /\ o.kind \in {"REVOKE", "ACTIVATE"} => o.phone \in Phones
       /\ o.kind = "ACTIVATE" => o.browser \in Browsers
  /\ None \notin Staff \cup Addresses \cup Sessions \cup Phones \cup Browsers
                 \cup Operations \cup AccountRows \cup SessionRows \cup PhoneRows

VARIABLES
  account,     \* staff_accounts and their roles, None without a row
  session,     \* staff_sessions, None without a row
  phone,       \* scanner_phones, None without a row
  clock,
  op,          \* the request each worker is at, None without one
  pc,          \* the step it waits for
  plan,        \* what it found out: the account that signs in, the time
  locks,       \* the rows its transaction has locked
  tokens,      \* sessions whose token was answered to the person
  given,       \* of each code: browsers that were answered its activation
  epoch,       \* of each account: deactivations and changes of address
  started, faults

tables == <<account, session, phone>>
worker == <<op, pc, plan, locks>>
told == <<tokens, given>>
bounds == <<started, faults>>
vars == <<tables, worker, told, clock, epoch, bounds>>

NoPlan == [who |-> None, since |-> 0, now |-> 0]

Init ==
  /\ account = [a \in Staff |-> None]
  /\ session = [s \in Sessions |-> None]
  /\ phone = [p \in Phones |-> None]
  /\ clock = 0
  /\ op = [w \in Workers |-> None] /\ pc = [w \in Workers |-> "idle"]
  /\ plan = [w \in Workers |-> NoPlan] /\ locks = [w \in Workers |-> {}]
  /\ tokens = {} /\ given = [p \in Phones |-> {}]
  /\ epoch = [a \in Staff |-> 0]
  /\ started = 0 /\ faults = 0

-----------------------------------------------------------------------------
(* Rows and their locks                                                    *)

AdministrationRow == <<"system_locks", "bootstrap">>
AccountRow(a) == <<"staff_accounts", a>>
SessionRow(s) == <<"staff_sessions", s>>
PhoneRow(p) == <<"scanner_phones", p>>

Free(w, rows) == \A x \in Workers \ {w} : locks[x] \cap rows = {}
Lock(w, rows) ==
  /\ Free(w, rows)
  /\ locks' = [locks EXCEPT ![w] = @ \cup rows]

Accounts == {a \in Staff : account[a] # None}
IsAdministrator(a) ==
  a \in Accounts /\ account[a].active /\ "ADMIN" \in account[a].roles
Administrators == {a \in Staff : IsAdministrator(a)}
Holder(address) == {a \in Accounts : account[a].address = address}
LiveSessions(a) ==
  {s \in Sessions : session[s] # None /\ session[s].staff = a
                    /\ ~session[s].revoked}

(* The end of a transaction: its locks go and the worker is done.          *)
Finish(w) ==
  /\ op' = [op EXCEPT ![w] = None] /\ pc' = [pc EXCEPT ![w] = "idle"]
  /\ plan' = [plan EXCEPT ![w] = NoPlan] /\ locks' = [locks EXCEPT ![w] = {}]

Refuse(w) == Finish(w) /\ UNCHANGED <<tables, told, clock, epoch, bounds>>

GoOn(w, step) ==
  /\ pc' = [pc EXCEPT ![w] = step]
  /\ UNCHANGED <<op, tables, told, clock, epoch, bounds>>

First(o) ==
  IF o.kind \in Serialized THEN "administration"
  ELSE IF o.kind \in Administrative THEN "session" ELSE "target"

(* A person makes a request, with a session whose token they know.         *)
Begin(w) ==
  /\ pc[w] = "idle" /\ started < MaxOperations
  /\ started' = started + 1
  /\ \E o \in Operations :
       /\ o.session = None \/ o.session \in tokens
       /\ op' = [op EXCEPT ![w] = o]
       /\ pc' = [pc EXCEPT ![w] = First(o)]
  /\ UNCHANGED <<tables, plan, locks, told, clock, epoch, faults>>

(* _lock_administration; the first account is only made in its absence.    *)
LockAdministration(w) ==
  /\ pc[w] = "administration"
  /\ IF op[w].kind = "BOOTSTRAP" /\ Accounts # {}
     THEN Free(w, {AdministrationRow}) /\ Refuse(w)
     ELSE /\ Lock(w, {AdministrationRow})
          /\ GoOn(w, IF op[w].kind = "BOOTSTRAP" THEN "commit" ELSE "session")
          /\ UNCHANGED plan

(* require_actor locks the session's row, then the row of its account.     *)
LockSession(w) ==
  /\ pc[w] = "session"
  /\ Lock(w, {SessionRow(op[w].session)})
  /\ GoOn(w, "actor")
  /\ UNCHANGED plan

Actor(w) == session[op[w].session].staff

(* Mutant: the account is read without a lock.                             *)
NoRows(w) == {}

ActorRows(w) == {AccountRow(Actor(w))}

Authentic(s) ==
  /\ ~session[s].revoked
  /\ clock < session[s].expires /\ clock < session[s].seen + IdleTime

AddressFree(address, a) == Holder(address) \subseteq {a}

LockActor(w) ==
  /\ pc[w] = "actor"
  /\ Free(w, ActorRows(w))
  /\ IF /\ Authentic(op[w].session)
        /\ IsAdministrator(Actor(w))
        /\ op[w].kind = "CREATE" => AddressFree(op[w].address, None)
     THEN /\ Lock(w, ActorRows(w))
          /\ GoOn(w, IF op[w].kind \in {"CREATE", "CREATE_CODE"} THEN "commit"
                     ELSE "target")
          /\ plan' = [plan EXCEPT ![w].now = clock]
     ELSE Refuse(w)

AccountsOnly(o) ==
  IF o.kind \in {"SET_ACTIVE", "SET_ROLES", "UPDATE"} THEN {AccountRow(o.who)}
  ELSE IF o.kind = "LOGOUT" THEN {SessionRow(o.session)} ELSE {}

(* _protect_last_admin                                                     *)
LastAdministrator(a, active, roles) ==
  /\ IsAdministrator(a)
  /\ ~active \/ "ADMIN" \notin roles
  /\ Cardinality(Administrators) <= 1

TargetRows(o) ==
  IF o.kind \in {"SET_ACTIVE", "SET_ROLES", "UPDATE"} THEN {AccountRow(o.who)}
  ELSE IF o.kind = "LOGIN" THEN {AccountRow(a) : a \in Holder(o.address)}
  ELSE IF o.kind = "LOGOUT" THEN {SessionRow(o.session)}
  ELSE {PhoneRow(o.phone)}

(* An unused code: neither entered, nor cancelled, nor out of date.        *)
Unused(p) ==
  /\ phone[p] # None /\ phone[p].browser = None /\ ~phone[p].revoked
  /\ clock < phone[p].codeExpires /\ clock < phone[p].until

Acceptable(o) ==
  \/ o.kind = "LOGOUT"
  \/ o.kind = "LOGIN" /\ \E a \in Holder(o.address) : account[a].active
  \/ /\ o.kind = "SET_ACTIVE" /\ o.who \in Accounts
     /\ ~LastAdministrator(o.who, o.active, account[o.who].roles)
  \/ /\ o.kind = "SET_ROLES" /\ o.who \in Accounts
     /\ ~LastAdministrator(o.who, account[o.who].active, o.roles)
  \/ /\ o.kind = "UPDATE" /\ o.who \in Accounts
     /\ AddressFree(o.address, o.who)
  \/ o.kind = "REVOKE" /\ phone[o.phone] # None /\ ~phone[o.phone].revoked
  \/ o.kind = "ACTIVATE" /\ Unused(o.phone)

(* The row the request is about is locked, read and judged.                *)
LockTarget(w) ==
  /\ pc[w] = "target"
  /\ Free(w, TargetRows(op[w]))
  /\ IF Acceptable(op[w])
     THEN /\ Lock(w, TargetRows(op[w]))
          /\ IF op[w].kind = "LOGIN"
             THEN \E a \in Holder(op[w].address) :
                    plan' = [plan EXCEPT ![w] =
                               [who |-> a, since |-> epoch[a], now |-> clock]]
             ELSE UNCHANGED plan
          /\ GoOn(w, "commit")
     ELSE Refuse(w)

-----------------------------------------------------------------------------
(* The writes of each request, and its commit                              *)

Ready(w, kind) == pc[w] = "commit" /\ op[w].kind = kind

Fault == faults < MaxFaults /\ faults' = faults + 1

(* require_actor's own write                                               *)
Seen(w) == [session EXCEPT ![op[w].session].seen = plan[w].now]

Expiry(now, time) == now + time

NewAccount(address, roles) ==
  [active |-> TRUE, roles |-> roles, address |-> address]

(* bootstrap_admin                                                         *)
Bootstrap(w) ==
  /\ Ready(w, "BOOTSTRAP")
  /\ \E a \in Staff \ Accounts :
       account' = [account EXCEPT ![a] = NewAccount(op[w].address, {"ADMIN"})]
  /\ Finish(w)
  /\ UNCHANGED <<session, phone, told, clock, epoch, bounds>>

(* create_staff: update may have taken the address since it was looked up, *)
(* and then the unique key refuses the row.                                *)
CreateStaff(w) ==
  /\ Ready(w, "CREATE") /\ AddressFree(op[w].address, None)
  /\ \E a \in Staff \ Accounts :
       account' = [account EXCEPT ![a] = NewAccount(op[w].address, op[w].roles)]
  /\ session' = Seen(w)
  /\ Finish(w)
  /\ UNCHANGED <<phone, told, clock, epoch, bounds>>

(* Deactivation and a new address end every session of the account, whose  *)
(* rows the statement waits for.                                           *)
EndSessions(w, a) ==
  /\ Free(w, {SessionRow(s) : s \in LiveSessions(a)})
  /\ session' = [s \in Sessions |->
                   IF s \in LiveSessions(a)
                   THEN [Seen(w)[s] EXCEPT !.revoked = TRUE]
                   ELSE Seen(w)[s]]
  /\ epoch' = [epoch EXCEPT ![a] = @ + 1]
KeepSessions(w) == session' = Seen(w) /\ UNCHANGED epoch

SetActive(w) ==
  LET a == op[w].who IN
  /\ Ready(w, "SET_ACTIVE")
  /\ account' = [account EXCEPT ![a].active = op[w].active]
  /\ IF op[w].active THEN KeepSessions(w) ELSE EndSessions(w, a)
  /\ Finish(w)
  /\ UNCHANGED <<phone, told, clock, bounds>>

SetRoles(w) ==
  /\ Ready(w, "SET_ROLES")
  /\ account' = [account EXCEPT ![op[w].who].roles = op[w].roles]
  /\ KeepSessions(w)
  /\ Finish(w)
  /\ UNCHANGED <<phone, told, clock, bounds>>

Update(w) ==
  LET a == op[w].who IN
  /\ Ready(w, "UPDATE") /\ AddressFree(op[w].address, a)
  /\ account' = [account EXCEPT ![a].address = op[w].address]
  /\ IF account[a].address = op[w].address
     THEN KeepSessions(w) ELSE EndSessions(w, a)
  /\ Finish(w)
  /\ UNCHANGED <<phone, told, clock, bounds>>

(* authenticate: the token reaches the person with the answer only.        *)
Login(w) ==
  /\ Ready(w, "LOGIN")
  /\ \E s \in {x \in Sessions : session[x] = None} :
       /\ session' = [session EXCEPT ![s] =
            [staff |-> plan[w].who, expires |-> Expiry(plan[w].now, SessionTime),
             seen |-> plan[w].now, revoked |-> FALSE, since |-> plan[w].since]]
       /\ Finish(w)
       /\ \/ tokens' = tokens \cup {s} /\ UNCHANGED faults
          \/ Fault /\ UNCHANGED tokens
  /\ UNCHANGED <<account, phone, given, clock, epoch, started>>

Logout(w) ==
  /\ Ready(w, "LOGOUT")
  /\ session' = [session EXCEPT ![op[w].session].revoked = TRUE]
  /\ Finish(w)
  /\ UNCHANGED <<account, phone, told, clock, epoch, bounds>>

(* create_code                                                             *)
CreateCode(w) ==
  /\ Ready(w, "CREATE_CODE")
  /\ \E p \in {x \in Phones : phone[x] = None} :
       phone' = [phone EXCEPT ![p] =
         [codeExpires |-> Expiry(plan[w].now, CodeTime),
          until |-> Expiry(plan[w].now, PhoneTime), browser |-> None,
          revoked |-> FALSE]]
  /\ session' = Seen(w)
  /\ Finish(w)
  /\ UNCHANGED <<account, told, clock, epoch, bounds>>

(* revoke: of a phone, or of a code nobody has entered                     *)
Revoke(w) ==
  /\ Ready(w, "REVOKE")
  /\ phone' = [phone EXCEPT ![op[w].phone].revoked = TRUE]
  /\ session' = Seen(w)
  /\ Finish(w)
  /\ UNCHANGED <<account, told, clock, epoch, bounds>>

(* activate_code: the update asks again whether the code is unused, but    *)
(* nothing asks whether a row was updated before the browser is answered.  *)
Activate(w) ==
  LET p == op[w].phone IN
  /\ Ready(w, "ACTIVATE")
  /\ phone' = IF phone[p].browser = None /\ ~phone[p].revoked
              THEN [phone EXCEPT ![p].browser = op[w].browser] ELSE phone
  /\ Finish(w)
  /\ \/ given' = [given EXCEPT ![p] = @ \cup {op[w].browser}] /\ UNCHANGED faults
     \/ Fault /\ UNCHANGED given
  /\ UNCHANGED <<account, session, tokens, clock, epoch, started>>

-----------------------------------------------------------------------------
(* A deadlock, a time-out, a lost connection or a dead worker.             *)
RollBack(w) ==
  /\ pc[w] # "idle"
  /\ Fault
  /\ \/ Finish(w)
     \/ /\ op[w].kind \in Retried
        /\ pc' = [pc EXCEPT ![w] = First(op[w])]
        /\ locks' = [locks EXCEPT ![w] = {}]
        /\ UNCHANGED <<op, plan>>
  /\ UNCHANGED <<tables, told, clock, epoch, started>>

(* The unique key of the address refuses the row: the transaction fails.   *)
AddressTaken(w) ==
  /\ pc[w] = "commit"
  /\ \/ op[w].kind = "CREATE" /\ ~AddressFree(op[w].address, None)
     \/ op[w].kind = "UPDATE" /\ ~AddressFree(op[w].address, op[w].who)
  /\ Refuse(w)

Tick ==
  /\ clock < MaxClock /\ clock' = clock + 1
  /\ UNCHANGED <<tables, worker, told, epoch, bounds>>

Step(w) ==
  \/ Begin(w) \/ LockAdministration(w) \/ LockSession(w) \/ LockActor(w)
  \/ LockTarget(w) \/ RollBack(w) \/ AddressTaken(w)
Commit(w) ==
  \/ Bootstrap(w) \/ CreateStaff(w) \/ SetActive(w) \/ SetRoles(w)
  \/ Update(w) \/ Login(w) \/ Logout(w) \/ CreateCode(w) \/ Revoke(w)
  \/ Activate(w)

Next == Tick \/ \E w \in Workers : Step(w) \/ Commit(w)

Spec == Init /\ [][Next]_vars

-----------------------------------------------------------------------------
(* Properties                                                              *)

AnyRow == {AdministrationRow} \cup {AccountRow(a) : a \in Staff}
            \cup {SessionRow(s) : s \in Sessions}
            \cup {PhoneRow(p) : p \in Phones}

TypeOK ==
  /\ account \in [Staff -> AccountRows \cup {None}]
  /\ session \in [Sessions -> SessionRows \cup {None}]
  /\ phone \in [Phones -> PhoneRows \cup {None}]
  /\ clock \in 0..MaxClock
  /\ op \in [Workers -> Operations \cup {None}]
  /\ pc \in [Workers -> {"idle", "administration", "session", "actor",
                         "target", "commit"}]
  /\ plan \in [Workers -> [who : Staff \cup {None}, since : Nat,
                           now : 0..MaxClock]]
  /\ locks \in [Workers -> SUBSET AnyRow]
  /\ tokens \subseteq Sessions /\ given \in [Phones -> SUBSET Browsers]
  /\ epoch \in [Staff -> Nat]
  /\ started \in 0..MaxOperations /\ faults \in 0..MaxFaults

(* "The last active administrator cannot be deactivated or lose the        *)
(* administrator role" (README.md), whatever administrators do to each     *)
(* other at the same time (_lock_administration, _protect_last_admin).     *)
AdministratorRemains == Accounts # {} => Administrators # {}

(* A request changes accounts or phones only while the person who made it  *)
(* is an active administrator whose session has not been ended, although   *)
(* others may have begun to take these rights away (require_actor's row    *)
(* locks).                                                                 *)
DecidedByAdministrators ==
  [][\A w \in Workers :
       /\ pc[w] = "commit" /\ pc'[w] = "idle"
       /\ op[w].kind \in Administrative
       /\ <<account, phone>>' # <<account, phone>>
       => ~session[op[w].session].revoked /\ IsAdministrator(Actor(w))]_vars

(* Deactivation and a change of the address end all sessions, also those   *)
(* of a sign-in that was under way, and a later reactivation does not      *)
(* bring them back (set_active, update, authenticate).                     *)
SessionsEnded ==
  \A s \in Sessions :
    session[s] # None /\ ~session[s].revoked =>
      session[s].since = epoch[session[s].staff]

(* A code activates one phone: whoever was answered an activation has the  *)
(* phone's row, also when the code is entered twice or cancelled at the    *)
(* same time (activate_code, revoke).                                      *)
OneBrowserPerCode ==
  \A p \in Phones : \A b \in given[p] : phone[p] # None /\ phone[p].browser = b
=============================================================================
