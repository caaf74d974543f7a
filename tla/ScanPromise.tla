---------------------------- MODULE ScanPromise ----------------------------
(***************************************************************************)
(* What the scan app promises the waiter about each serving request,       *)
(* whatever the network, the browser and the pages do: it is decided once, *)
(* the waiter is told at most once to hand out its meal, and only after    *)
(* the meal is recorded, and a request the waiter saw rejected is never    *)
(* served afterwards.  ScanClient implements this specification.           *)
(***************************************************************************)
EXTENDS Naturals

CONSTANT Ids                 \* serving requests

VARIABLES fate,              \* what became of each request
          meals              \* how often the waiter was told to hand it out

PromiseInit ==
  /\ fate = [r \in Ids |-> "open"]
  /\ meals = [r \in Ids |-> 0]

Settle(r, f) ==
  /\ fate[r] = "open"
  /\ fate' = [fate EXCEPT ![r] = f]
  /\ UNCHANGED meals

HandOut(r) ==
  /\ fate[r] = "served"
  /\ meals[r] = 0
  /\ meals' = [meals EXCEPT ![r] = 1]
  /\ UNCHANGED fate

PromiseNext ==
  \E r \in Ids : HandOut(r) \/ \E f \in {"served", "refused"} : Settle(r, f)

PromiseSpec == PromiseInit /\ [][PromiseNext]_<<fate, meals>>
=============================================================================
