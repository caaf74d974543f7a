---------------------------- MODULE ScanClientMC ----------------------------
(***************************************************************************)
(* Small instances of ScanClient for TLC.  Two tabs share a phone for one  *)
(* request with page loads or revocations, and for more requests when      *)
(* nothing fails; one tab alone has all of them, a revocation before its   *)
(* second request with one failure or page load only.                      *)
(***************************************************************************)
EXTENDS ScanClient, TLC

OtherTab == CHOOSE t \in Tabs : TRUE

OneTheme ==
  \/ /\ serving[OtherTab] = 0
     /\ phones = {1} \/ issued <= 1 \/ faults + reloads <= 1
  \/ issued <= 1 /\ (phones = {1} \/ faults + reloads = 0)
  \/ phones = {1} /\ reloads = 0 /\ faults = 0
=============================================================================
