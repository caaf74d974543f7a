-------------------------- MODULE EmailDeliveryMC --------------------------
(***************************************************************************)
(* Small instances of EmailDelivery for TLC.                               *)
(***************************************************************************)
EXTENDS EmailDelivery, TLC

(* Credentials differ only in name: they are issued in any order.          *)
CredentialSymmetry == Permutations(Credentials)

(* The provider accepts whatever it is given, for the run that counts      *)
(* messages: a refusal only makes fewer of them.                           *)
AllAccepted == \A s \in Senders : sender[s].fate \in {"NONE", "ACCEPTED"}
=============================================================================
