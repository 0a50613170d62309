----------------------------- MODULE MCFileLock -----------------------------
(* Instances of FileLock for TLC. *)
EXTENDS FileLock

CONSTANTS p1, p2, t1, t2, rev

\* A handler holds one task lock while reconcile takes another; a review
\* handler holds the review lock while it updates the task.
TaskNests == {<<t1, t2>>, <<t2, t1>>, <<rev, t1>>}
=============================================================================
