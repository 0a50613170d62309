---------------------------- MODULE MCRunRepair ----------------------------
(* Instances of RunRepair for TLC. *)
EXTENDS RunRepair, TLC

CONSTANTS r1, r2, a1, a2, reconciler, task1

Retries == r1 :> r2 @@ r2 :> None
=============================================================================
