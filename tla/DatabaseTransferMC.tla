------------------------- MODULE DatabaseTransferMC -------------------------
(***************************************************************************)
(* A small instance of DatabaseTransfer for TLC.                           *)
(***************************************************************************)
EXTENDS DatabaseTransfer, TLC

Restores == Permutations(Restorers)
=============================================================================
