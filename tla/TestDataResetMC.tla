-------------------------- MODULE TestDataResetMC --------------------------
(***************************************************************************)
(* A small instance of TestDataReset for TLC.                              *)
(***************************************************************************)
EXTENDS TestDataReset

SomeTables == {"employees", "waiter_shifts", "audit_events"}
Order == <<"employees", "waiter_shifts", "audit_events">>

(* An employee's photo, a selfie of a shift, and a key of another format.  *)
SomeKeys == {"photo", "selfie", "odd"}
TableOf ==
  [k \in SomeKeys |-> IF k = "selfie" THEN "waiter_shifts" ELSE "employees"]
=============================================================================
