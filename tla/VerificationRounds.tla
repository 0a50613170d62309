------------------------- MODULE VerificationRounds -------------------------
(***************************************************************************)
(* Verification with a count of the rounds the run loop starts by itself:  *)
(* a round requested by the sweep counts, and whatever the supervisor does *)
(* to the task starts the count anew.                                      *)
(***************************************************************************)
EXTENDS Verification

VARIABLE unattended   \* history: rounds in a row the sweep requested

RoundsInit == Init /\ unattended = 0

RoundsNext ==
    /\ Next
    /\ unattended' =
           IF requests' > requests /\ asked.auto THEN unattended + 1
           ELSE IF requests' > requests \/ troubles' > troubles THEN 0
           ELSE unattended

RoundsSpec == RoundsInit /\ [][RoundsNext]_<<vars, unattended>>

\* docs/USER_GUIDE.md says of a task's review rounds: "Policy caps how many
\* rounds a task gets (max_review_rounds) before it escalates to a human".
\* The run loop starts no more rounds in a row than that.
RoundsAreCapped == unattended <= MaxRounds

=============================================================================
