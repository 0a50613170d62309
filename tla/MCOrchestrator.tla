--------------------------- MODULE MCOrchestrator ---------------------------
(* Two tasks, each of which is to wait for the other, or neither, and two   *)
(* workers: the fewest for which a spawn can replace a worker other than    *)
(* the dead one.  Which of the two dependencies is refused as a cycle       *)
(* depends on the order of the calls.                                       *)
EXTENDS Orchestrator, TLC
CONSTANTS t1, t2
Deps == (t1 :> {t2}) @@ (t2 :> {t1})
NoDeps == (t1 :> {}) @@ (t2 :> {})
Symmetry == Permutations(Tasks)
=============================================================================
