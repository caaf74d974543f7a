----------------------------- MODULE MealLedger -----------------------------
(***************************************************************************)
(* What the scan core promises, without calls, locks, attempts or          *)
(* failures: each request is decided once, a served request enters exactly *)
(* one meal in the ledger, and every entry respects the meal type lock of  *)
(* its employee and the allowance of its visitor credential at the moment  *)
(* it is entered.  Serving implements this specification.                  *)
(***************************************************************************)
EXTENDS Integers, FiniteSets

CONSTANTS Requests, Tokens, MealTypes,
          Eater(_),      \* the employee a token feeds, or NoOne
          NoOne,
          Cap(_),        \* meals of one type a token is good for, if capped
          Capped(_),     \* whether it is
          LockTime

VARIABLES verdict,       \* what became of each request
          meals,         \* the entries of the ledger
          now

ledgerVars == <<verdict, meals, now>>

LedgerInit ==
  /\ verdict = [r \in Requests |-> "OPEN"]
  /\ meals = {}
  /\ now = 0

(* The ledger admits a meal for token q at time t.                         *)
Admits(q, m, t) ==
  /\ Eater(q) # NoOne =>
       \A e \in meals : Eater(e.token) = Eater(q) /\ e.mealType = m
                          => t >= e.at + LockTime
  /\ Capped(q) =>
       Cardinality({e \in meals : e.token = q /\ e.mealType = m}) < Cap(q)

(* The time of the meal may lie a little in the past.                      *)
Serve(r) ==
  /\ verdict[r] = "OPEN"
  /\ verdict' = [verdict EXCEPT ![r] = "SERVED"]
  /\ \E q \in Tokens, m \in MealTypes, t \in 0..now :
       /\ Admits(q, m, t)
       /\ meals' = meals \cup {[request |-> r, token |-> q, mealType |-> m,
                                at |-> t]}
  /\ UNCHANGED now

Refuse(r) ==
  /\ verdict[r] = "OPEN"
  /\ verdict' = [verdict EXCEPT ![r] = "REFUSED"]
  /\ UNCHANGED <<meals, now>>

Pass ==
  /\ now' = now + 1
  /\ UNCHANGED <<verdict, meals>>

LedgerNext == Pass \/ \E r \in Requests : Serve(r) \/ Refuse(r)

LedgerSpec == LedgerInit /\ [][LedgerNext]_ledgerVars
=============================================================================
