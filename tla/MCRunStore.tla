----------------------------- MODULE MCRunStore -----------------------------
(* Three runs on two lanes: enough for a retry on one lane to race a fresh  *)
(* run there, and for the other lane to be disturbed.                       *)
EXTENDS RunStore, TLC
Symmetry == Permutations(RunId) \cup Permutations(Lane) \cup Permutations(Owner)
=============================================================================
