---------------------------- MODULE MCIntegration ----------------------------
(* Two subtasks: the first may be reworked, the second is one commit. *)
EXTENDS Integration, TLC

CONSTANTS t1, t2, a1, a2, b1

TwoVersions == (t1 :> 2) @@ (t2 :> 1)

SameChange == {<<a2, b1>>}

TaskDelta == (t1 :> <<<<a1>>, <<a1, a2>>>>) @@ (t2 :> <<<<b1>>>>)
=============================================================================
