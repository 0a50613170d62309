--------------------------- MODULE MCVerification ---------------------------
(***************************************************************************)
(* Review rounds on a small instance: two reviewers of which one is live   *)
(* at the start, two rounds and two troubles of any kind.                  *)
(***************************************************************************)
EXTENDS Verification

CONSTANTS r1, r2

const_Reviewer == {r1, r2}
const_FirstReviewers == {r1}

=============================================================================
