------------------------- MODULE VerificationProofs -------------------------
(***************************************************************************)
(* An approval by review is unanimous, for any set of reviewers and any    *)
(* policy.  The verdict is computed when the handler takes the lock, and   *)
(* the task is updated some writes later: the inductive invariant says     *)
(* that the submissions still justify it then.                             *)
(***************************************************************************)
EXTENDS Verification, SequenceTheorems, TLAPS

\* The verdict of r once the submission of the handler is on disk.
Pending(r) == IF Head(op.todo) = "vote" /\ r = op.by THEN op.verdict ELSE votes[r]

Justified ==
    /\ op.copy.round = disk /\ op.copy.panel \subseteq Reviewer
    /\ \A r \in op.copy.panel : Pending(r) = "approve"
    /\ \A i \in 1 .. Len(op.todo) : op.todo[i] # "request"

Writing ==
    /\ op = [todo |-> op.todo, copy |-> op.copy, outcome |-> op.outcome,
             by |-> op.by, verdict |-> op.verdict]
    /\ op.todo \in Seq(Step) /\ op.todo # <<>>
    /\ \A i \in 2 .. Len(op.todo) : op.todo[i] # "vote"
    /\ Head(op.todo) = "vote" => op.by \in Reviewer /\ op.verdict \in Verdict
    /\ (\E i \in 1 .. Len(op.todo) : op.todo[i] = "approved") => Justified

\* The inductive invariant: as long as a handler is going to approve the
\* task, the whole panel has approved in the newest round, and no new round
\* can begin before it does.
ApprovalInv ==
    /\ votes \in [Reviewer -> Verdict \cup {None}]
    /\ op # None => Writing

-----------------------------------------------------------------------------
\* What evaluate_round answers is an outcome, and an approval of the round of
\* s means that its whole panel has approved and that a request was written.
LEMMA ApprovedRound ==
    ASSUME NEW s, NEW v \in [Reviewer -> Verdict \cup {None}],
           evaluate_round(s, v) = "approved"
    PROVE  /\ s.round = disk /\ s.panel \subseteq Reviewer
           /\ \A r \in s.panel : v[r] = "approve"
<1> DEFINE given == {v[r] : r \in Voters(s, v)}
<1>1. given \subseteq Verdict
  BY DEF Voters
<1>2. "reject" \notin given /\ "revise" \notin given
  BY <1>1 DEF evaluate_round
<1>3. given \subseteq {"approve"}
  BY <1>1, <1>2 DEF Verdict
<1>4. given # {} /\ full_panel_approval_gap(s, v) = {}
  BY <1>2, <1>3 DEF evaluate_round
<1>5. s.panel \subseteq Voters(s, v)
  BY <1>4 DEF full_panel_approval_gap
<1>6. s.round = disk /\ Voters(s, v) \subseteq Reviewer
  BY <1>4 DEF Voters
<1> QED BY <1>3, <1>5, <1>6

\* task_status_for_report approves on an approved outcome only.
LEMMA ApprovedReport ==
    ASSUME NEW s, NEW outcome
    PROVE  /\ task_status_for_report(s, outcome) \in {"approved", "blocked", "changes_requested"}
           /\ task_status_for_report(s, outcome) = "approved" => outcome = "approved"
BY DEF task_status_for_report

\* A handler that is not going to approve only needs steps to take.
LEMMA PlainPlan ==
    ASSUME NEW todo \in Seq(Step \ {"vote", "approved"}), todo # <<>>, NEW copy, NEW outcome,
           Lock(todo, copy, outcome)
    PROVE  Writing'
<1>1. /\ op'.todo = todo
      /\ op' = [todo |-> op'.todo, copy |-> op'.copy, outcome |-> op'.outcome,
                by |-> op'.by, verdict |-> op'.verdict]
  BY DEF Lock
<1>2. \A i \in 1 .. Len(todo) : todo[i] \in Step \ {"vote", "approved"}
  OBVIOUS
<1>3. todo \in Seq(Step) /\ Head(todo) = todo[1] /\ Len(todo) \in Nat \ {0}
  OBVIOUS
<1> QED BY <1>1, <1>2, <1>3 DEF Writing

\* A handler that may approve the task with its first step, after a timeout.
LEMMA TimeoutPlan ==
    ASSUME ApprovalInv, UNCHANGED <<votes, disk>>, NEW s, check_timeout(s)
    PROVE  Writing'
<1> DEFINE judged == evaluate_round(s, votes)
           final == task_status_for_report(s, judged)
<1>1. CASE Lock(<<task_status_for_report(s, "escalated"), "outcome", "lease">>, s, "escalated")
  <2>1. task_status_for_report(s, "escalated") \in {"blocked", "changes_requested"}
    BY ApprovedReport
  <2>2. <<task_status_for_report(s, "escalated"), "outcome", "lease">>
            \in Seq(Step \ {"vote", "approved"})
    BY <2>1 DEF Step, Status
  <2> QED BY <1>1, <2>2, PlainPlan
<1>2. CASE Lock(<<"blocked", "outcome", "lease">>, s, "escalated")
  <2>1. <<"blocked", "outcome", "lease">> \in Seq(Step \ {"vote", "approved"})
    BY DEF Step, Status
  <2> QED BY <1>2, <2>1, PlainPlan
<1>3. CASE Lock(<<"outcome", "lease">>, s, "escalated")
  <2>1. <<"outcome", "lease">> \in Seq(Step \ {"vote", "approved"})
    BY DEF Step, Status
  <2> QED BY <1>3, <2>1, PlainPlan
<1>4. CASE Lock(<<final, "outcome", "lease">>, s, judged)
  <2>1. final \in {"approved", "blocked", "changes_requested"}
    BY ApprovedReport
  <2>2. CASE final # "approved"
    <3>1. <<final, "outcome", "lease">> \in Seq(Step \ {"vote", "approved"})
      BY <2>1, <2>2 DEF Step, Status
    <3> QED BY <1>4, <3>1, PlainPlan
  <2>3. CASE final = "approved"
    <3>1. judged = "approved"
      BY <2>3, ApprovedReport
    <3>2. s.round = disk /\ s.panel \subseteq Reviewer /\ \A r \in s.panel : votes[r] = "approve"
      BY <3>1, ApprovedRound DEF ApprovalInv
    <3>3. op' = [todo |-> <<"approved", "outcome", "lease">>, copy |-> s, outcome |-> judged,
                 by |-> None, verdict |-> None]
      BY <1>4, <2>3 DEF Lock
    <3>4. op'.todo = <<"approved", "outcome", "lease">> /\ op'.copy = s
      BY <3>3
    <3>5. /\ op'.todo \in Seq(Step) /\ Len(op'.todo) = 3 /\ Head(op'.todo) = "approved"
          /\ op'.todo[1] = "approved" /\ op'.todo[2] = "outcome" /\ op'.todo[3] = "lease"
      BY <3>4 DEF Step, Status
    <3>6. Justified'
      BY <3>2, <3>4, <3>5 DEF Justified, Pending
    <3>7. op' = [todo |-> op'.todo, copy |-> op'.copy, outcome |-> op'.outcome,
                 by |-> op'.by, verdict |-> op'.verdict]
      BY <3>3
    <3> QED BY <3>5, <3>6, <3>7 DEF Writing
  <2> QED BY <2>2, <2>3
<1> QED BY <1>1, <1>2, <1>3, <1>4 DEF check_timeout

\* The submission of the last panel member may approve, after three writes.
LEMMA SubmitPlan ==
    ASSUME ApprovalInv, NEW r \in Reviewer, NEW v \in Verdict, handle_submit_review(r, v)
    PROVE  Writing'
<1> DEFINE copy == [state EXCEPT !.submitted = @ \cup {r}]
           ballot == [votes EXCEPT ![r] = v]
           judged == evaluate_round(copy, ballot)
           outcome == IF judged = "collecting" THEN "escalated" ELSE judged
           final == task_status_for_report(copy, outcome)
<1>1. /\ UNCHANGED <<votes, disk>>
      /\ \E todo \in {<<"vote", "state", final, "outcome">>, <<"vote", "state">>} :
             op' = [todo |-> todo, copy |-> copy, outcome |-> outcome, by |-> r, verdict |-> v]
  BY DEF handle_submit_review, files
<1>2. PICK todo \in {<<"vote", "state", final, "outcome">>, <<"vote", "state">>} :
          op' = [todo |-> todo, copy |-> copy, outcome |-> outcome, by |-> r, verdict |-> v]
  BY <1>1
<1> HIDE DEF copy, ballot, judged, outcome, final
<1>3. /\ op'.todo = todo /\ op'.copy = copy /\ op'.by = r /\ op'.verdict = v
      /\ op' = [todo |-> op'.todo, copy |-> op'.copy, outcome |-> op'.outcome,
                by |-> op'.by, verdict |-> op'.verdict]
  BY <1>2
<1>4. final \in {"approved", "blocked", "changes_requested"}
  BY ApprovedReport DEF final
<1>5. CASE todo = <<"vote", "state">>
  <2>1. /\ todo \in Seq(Step) /\ Len(todo) = 2 /\ Head(todo) = "vote"
        /\ todo # << >> /\ todo[1] = "vote" /\ todo[2] = "state"
    BY <1>5 DEF Step, Status
  <2> QED BY <1>3, <2>1 DEF Writing
<1>6. CASE todo = <<"vote", "state", final, "outcome">>
  <2>1. /\ todo \in Seq(Step) /\ Len(todo) = 4 /\ Head(todo) = "vote"
        /\ todo[1] = "vote" /\ todo[2] = "state" /\ todo[3] = final /\ todo[4] = "outcome"
        /\ todo # << >>
    BY <1>4, <1>6 DEF Step, Status
  <2>2. ASSUME final = "approved" PROVE Justified'
    <3>1. judged = "approved"
      BY <2>2, ApprovedReport DEF final, outcome
    <3>2. ballot \in [Reviewer -> Verdict \cup {None}]
      BY DEF ballot, ApprovalInv
    <3>3. copy.round = disk /\ copy.panel \subseteq Reviewer /\ \A m \in copy.panel : ballot[m] = "approve"
      BY <3>1, <3>2, ApprovedRound DEF judged
    <3>4. \A m \in copy.panel : ballot[m] = IF m = r THEN v ELSE votes[m]
      BY <3>3 DEF ballot, ApprovalInv
    <3>5. \A m \in op'.copy.panel : Pending(m)'= "approve"
      BY <1>1, <1>3, <2>1, <3>3, <3>4 DEF Pending
    <3>6. \A i \in 1 .. Len(op'.todo) : op'.todo[i] # "request"
      BY <1>3, <1>4, <2>1
    <3> QED BY <1>1, <1>3, <3>3, <3>5, <3>6 DEF Justified
  <2>3. \A i \in 1 .. 4 : todo[i] = "approved" => final = "approved"
    BY <2>1
  <2>4. \A i \in 2 .. 4 : todo[i] # "vote"
    BY <1>4, <2>1
  <2> QED BY <1>3, <2>1, <2>2, <2>3, <2>4 DEF Writing
<1> QED BY <1>5, <1>6

\* What is left of a plan of at least two steps after the first.
LEMMA TailOfPlan ==
    ASSUME NEW S, NEW q \in Seq(S), q # << >>, Len(q) # 1
    PROVE  /\ Len(q) \in Nat /\ Len(q) > 1
           /\ Tail(q) \in Seq(S) /\ Len(Tail(q)) = Len(q) - 1 /\ Tail(q) # << >>
           /\ \A i \in 1 .. Len(q) - 1 : Tail(q)[i] = q[i + 1]
           /\ Head(q) = q[1] /\ Head(Tail(q)) = q[2]
<1>1. Len(q) \in Nat /\ Len(q) > 1
  <2>1. \A seq \in Seq(S) : seq # << >> => Len(seq) \in Nat \ {0}
    BY EmptySeq, Zenon
  <2>2. Len(q) \in Nat \ {0}
    BY <2>1, Zenon
  <2>3. \A n \in Nat \ {0} : n # 1 => n \in Nat /\ n > 1
    OBVIOUS
  <2> QED BY <2>2, <2>3, Zenon
<1>2. Tail(q) \in Seq(S) /\ Len(Tail(q)) = Len(q) - 1
  BY <1>1
<1>3. \A i \in 1 .. Len(q) - 1 : Tail(q)[i] = q[i + 1]
  BY <1>1
<1>4. Tail(q) # << >>
  BY <1>1, <1>2
<1>5. Head(Tail(q)) = Tail(q)[1]
  BY <1>2, <1>4
<1>6. Head(q) = q[1]
  OBVIOUS
<1> QED BY <1>1, <1>2, <1>3, <1>4, <1>5, <1>6

\* The handler after one more write: the same record, one step shorter.
IsShorter ==
    /\ op'.todo = Tail(op.todo) /\ op'.copy = op.copy /\ op'.by = op.by
    /\ op'.verdict = op.verdict
    /\ op' = [todo |-> op'.todo, copy |-> op'.copy, outcome |-> op'.outcome,
              by |-> op'.by, verdict |-> op'.verdict]
    /\ op.todo \in Seq(Step) /\ Len(op.todo) \in Nat /\ Len(op.todo) > 1
    /\ Tail(op.todo) \in Seq(Step) /\ Len(Tail(op.todo)) = Len(op.todo) - 1
    /\ Tail(op.todo) # << >>
    /\ \A i \in 1 .. Len(op.todo) - 1 : Tail(op.todo)[i] = op.todo[i + 1]
    /\ \A i \in 1 .. Len(Tail(op.todo)) : Tail(op.todo)[i] # "vote"
    /\ Head(op.todo) = op.todo[1] /\ Head(Tail(op.todo)) # "vote"

LEMMA Shorter ==
    ASSUME Writing, Done, op' # None
    PROVE  IsShorter
<1> USE DEF IsShorter
<1>1. op' = [op EXCEPT !.todo = Tail(op.todo)] /\ Len(op.todo) # 1
  BY DEF Done
<1>2. /\ op'.todo = Tail(op.todo) /\ op'.copy = op.copy /\ op'.by = op.by
      /\ op'.verdict = op.verdict
      /\ op' = [todo |-> op'.todo, copy |-> op'.copy, outcome |-> op'.outcome,
                by |-> op'.by, verdict |-> op'.verdict]
  <2>1. PICK t, c, o, b, v : op = [todo |-> t, copy |-> c, outcome |-> o, by |-> b, verdict |-> v]
    BY DEF Writing
  <2>2. op.copy = c /\ op.by = b /\ op.verdict = v
    BY <2>1
  <2>3. \A u : [op EXCEPT !.todo = u]
                   = [todo |-> u, copy |-> c, outcome |-> o, by |-> b, verdict |-> v]
    BY <2>1
  <2> QED BY <1>1, <2>2, <2>3
<1>3. /\ op.todo \in Seq(Step) /\ Len(op.todo) \in Nat /\ Len(op.todo) > 1
      /\ Tail(op.todo) \in Seq(Step) /\ Len(Tail(op.todo)) = Len(op.todo) - 1
      /\ Tail(op.todo) # << >>
      /\ \A i \in 1 .. Len(op.todo) - 1 : Tail(op.todo)[i] = op.todo[i + 1]
      /\ Head(op.todo) = op.todo[1] /\ Head(Tail(op.todo)) = op.todo[2]
  <2>1. op.todo \in Seq(Step) /\ op.todo # << >>
    BY DEF Writing
  <2> QED BY <1>1, <2>1, TailOfPlan
<1>4. /\ \A i \in 1 .. Len(Tail(op.todo)) : Tail(op.todo)[i] # "vote"
      /\ Head(Tail(op.todo)) # "vote"
  BY <1>3 DEF Writing
<1> QED BY <1>2, <1>3, <1>4

\* Going on to the next write keeps what is left to write justified, as long
\* as disk stays and the submission the handler was to write is written.
LEMMA NextWrite ==
    ASSUME Writing, Done, op' # None, disk' = disk,
           \A r \in Reviewer : Pending(r) = votes'[r]
    PROVE  Writing'
<1>0. IsShorter
  BY Shorter
<1>1. ASSUME NEW i \in 1 .. Len(Tail(op.todo)), Tail(op.todo)[i] = "approved"
      PROVE  Justified'
  <2>1. i + 1 \in 1 .. Len(op.todo) /\ op.todo[i + 1] = "approved"
    BY <1>0, <1>1 DEF IsShorter
  <2>2. Justified
    BY <2>1 DEF Writing
  <2>3. \A j \in 1 .. Len(Tail(op.todo)) : Tail(op.todo)[j] # "request"
    <3> SUFFICES ASSUME NEW j \in 1 .. Len(Tail(op.todo)) PROVE Tail(op.todo)[j] # "request"
      OBVIOUS
    <3>1. j + 1 \in 1 .. Len(op.todo) /\ Tail(op.todo)[j] = op.todo[j + 1]
      BY <1>0 DEF IsShorter
    <3> QED BY <2>2, <3>1 DEF Justified
  <2>4. \A r \in op.copy.panel : votes'[r] = "approve"
    BY <2>2 DEF Justified
  <2>5. \A r \in op'.copy.panel : Pending(r)' = "approve"
    BY <2>4, <1>0 DEF IsShorter, Pending
  <2> QED BY <2>2, <2>3, <2>5, <1>0 DEF IsShorter, Justified
<1> QED BY <1>1, <1>0 DEF IsShorter, Writing

\* The handler that has written a new round is not one that approves.
LEMMA RequestWritten ==
    ASSUME Writing, Done, op' # None, Head(op.todo) = "request"
    PROVE  Writing'
<1>0. IsShorter
  BY Shorter
<1>1. op.todo[1] = "request" /\ 1 \in 1 .. Len(op.todo)
  <2>1. op.todo[1] = "request"
    BY <1>0, Zenon DEF IsShorter
  <2>2. Len(op.todo) \in Nat /\ Len(op.todo) > 1
    BY <1>0, Zenon DEF IsShorter
  <2> QED BY <2>1, <2>2
<1>2. \A i \in 1 .. Len(op.todo) : op.todo[i] # "approved"
  BY <1>1 DEF Writing, Justified
<1>3. \A i \in 1 .. Len(Tail(op.todo)) : Tail(op.todo)[i] # "approved"
  <2> SUFFICES ASSUME NEW i \in 1 .. Len(Tail(op.todo)) PROVE Tail(op.todo)[i] # "approved"
    OBVIOUS
  <2>1. i + 1 \in 1 .. Len(op.todo) /\ Tail(op.todo)[i] = op.todo[i + 1]
    BY <1>0 DEF IsShorter
  <2> QED BY <1>2, <2>1
<1> QED BY <1>3, <1>0 DEF IsShorter, Writing

\* A step that touches neither the lock, nor the submissions, nor the rounds.
LEMMA Untouched ==
    ASSUME ApprovalInv, UNCHANGED <<op, votes, disk>>
    PROVE  ApprovalInv'
BY DEF ApprovalInv, Writing, Justified, Pending

\* A handler that takes the lock with a plan that is in order.
LEMMA Begun ==
    ASSUME ApprovalInv, UNCHANGED votes, Writing'
    PROVE  ApprovalInv'
BY DEF ApprovalInv

\* The writes of a handler.
LEMMA HandlerStepInv ==
    ASSUME ApprovalInv, HandlerStep
    PROVE  ApprovalInv'
<1> USE DEF ApprovalInv
<1>1. op # None /\ Writing
  BY DEF HandlerStep
<1>2. Head(op.todo) # "vote" => \A r \in Reviewer : Pending(r) = votes[r]
  BY DEF Pending
<1>3. CASE WriteTask
  <2>1. CASE op' = None
    BY <1>3, <2>1 DEF WriteTask, rollback_review_submission
  <2>2. CASE op' # None
    <3>1. Done /\ UNCHANGED <<votes, disk>> /\ Head(op.todo) # "vote"
      BY <1>3, <2>2 DEF WriteTask, Status
    <3>2. Writing'
      BY <1>1, <1>2, <2>2, <3>1, NextWrite
    <3> QED BY <3>1, <3>2
  <2> QED BY <2>1, <2>2
<1>4. CASE WriteVote
  <2>1. op.by \in Reviewer /\ Head(op.todo) = "vote"
    BY <1>1, <1>4 DEF WriteVote, Writing
  <2>2. /\ Done /\ disk' = disk /\ votes' = [votes EXCEPT ![op.by] = op.verdict]
    BY <1>4 DEF WriteVote
  <2>3. \A r \in Reviewer : Pending(r) = votes'[r]
    BY <2>1, <2>2 DEF Pending
  <2>4. op' # None => Writing'
    BY <1>1, <2>2, <2>3, NextWrite
  <2>5. votes' \in [Reviewer -> Verdict \cup {None}]
    BY <1>1, <2>1, <2>2 DEF Writing
  <2> QED BY <2>4, <2>5
<1>5. CASE WriteState
  <2>1. Done /\ UNCHANGED <<votes, disk>> /\ Head(op.todo) # "vote"
    BY <1>5 DEF WriteState
  <2>2. op' # None => Writing'
    BY <1>1, <1>2, <2>1, NextWrite
  <2> QED BY <2>1, <2>2
<1>6. CASE WriteRequest
  <2>1. Done /\ votes' = [r \in Reviewer |-> None] /\ Head(op.todo) = "request"
    BY <1>6 DEF WriteRequest
  <2>2. op' # None => Writing'
    BY <1>1, <2>1, RequestWritten
  <2> QED BY <2>1, <2>2
<1>7. CASE WriteRest
  <2>1. Done /\ UNCHANGED <<votes, disk>> /\ Head(op.todo) # "vote"
    BY <1>7 DEF WriteRest
  <2>2. op' # None => Writing'
    BY <1>1, <1>2, <2>1, NextWrite
  <2> QED BY <2>1, <2>2
<1> QED BY <1>3, <1>4, <1>5, <1>6, <1>7 DEF HandlerStep

\* A handler that ends early leaves nothing to write.
LEMMA EndHandlerInv ==
    ASSUME ApprovalInv, EndHandler
    PROVE  ApprovalInv'
BY DEF ApprovalInv, EndHandler, rollback_review_submission

\* The handlers that never approve a task begin with a plan without it.
LEMMA PlainHandlersInv ==
    ASSUME ApprovalInv,
           \/ cleanup_review_artifacts_for_supervisor_conflict
           \/ handle_request_review
           \/ \E outcome \in {"changes_requested", "rejected"} : handle_override(outcome)
           \/ \E force \in BOOLEAN : handle_reset_rounds(force)
           \/ handle_release_panel
           \/ release_superseded_review_state
    PROVE  ApprovalInv'
<1> DEFINE P == Step \ {"vote", "approved"}
<1>1. /\ <<"lease", "delete">> \in Seq(P) /\ <<"lease">> \in Seq(P)
      /\ <<"in_review">> \in Seq(P) /\ <<"outcome", "lease">> \in Seq(P)
      /\ <<"changes_requested", "outcome">> \in Seq(P)
      /\ <<"lease", "leave", "outcome">> \in Seq(P)
  BY DEF Step, Status
<1>2. /\ <<"in_review", "state", "request">> \in Seq(P)
      /\ <<"review_ready", "in_review", "state", "request">> \in Seq(P)
  BY DEF Step, Status
<1> HIDE DEF P
<1>3. ASSUME NEW todo \in Seq(P), todo # << >>, NEW copy, NEW outcome,
             Lock(todo, copy, outcome), UNCHANGED votes
      PROVE  ApprovalInv'
  BY <1>3, PlainPlan, Begun DEF P
<1>4. CASE cleanup_review_artifacts_for_supervisor_conflict
  BY <1>1, <1>3, <1>4 DEF cleanup_review_artifacts_for_supervisor_conflict, files
<1>5. CASE handle_request_review
  <2>1. UNCHANGED <<votes, disk>>
    BY <1>5 DEF handle_request_review
  <2>2. CASE request_is_admitted
    BY <1>2, <1>3, <1>5, <2>1, <2>2 DEF handle_request_review
  <2>3. CASE ~request_is_admitted
    BY <1>5, <2>1, <2>3, Untouched DEF handle_request_review
  <2> QED BY <2>2, <2>3
<1>6. CASE \E outcome \in {"changes_requested", "rejected"} : handle_override(outcome)
  BY <1>1, <1>3, <1>6 DEF handle_override, files
<1>7. CASE \E force \in BOOLEAN : handle_reset_rounds(force)
  BY <1>1, <1>3, <1>7 DEF handle_reset_rounds, files
<1>8. CASE handle_release_panel
  BY <1>1, <1>3, <1>8 DEF handle_release_panel, files
<1>9. CASE release_superseded_review_state
  <2>1. UNCHANGED <<votes, disk>>
    BY <1>9 DEF release_superseded_review_state, files
  <2>2. \/ Lock(<<"lease", "delete">>, state, "collecting")
        \/ Lock(<<"in_review">>, state, "collecting")
        \/ UNCHANGED op
    BY <1>9 DEF release_superseded_review_state
  <2> QED BY <1>1, <1>3, <2>1, <2>2, Untouched
<1> QED BY <1>4, <1>5, <1>6, <1>7, <1>8, <1>9

\* The handlers that may approve a task: a submission, and a timeout that the
\* supervisor or the sweep notices.
LEMMA JudgingHandlersInv ==
    ASSUME ApprovalInv,
           \/ \E r \in Reviewer, v \in Verdict : handle_submit_review(r, v)
           \/ handle_review_status
           \/ SweepCollecting
    PROVE  ApprovalInv'
<1>1. CASE \E r \in Reviewer, v \in Verdict : handle_submit_review(r, v)
  <2>1. PICK r \in Reviewer, v \in Verdict : handle_submit_review(r, v)
    BY <1>1
  <2>2. UNCHANGED votes
    BY <2>1 DEF handle_submit_review, files
  <2>3. Writing'
    BY <2>1, SubmitPlan
  <2> QED BY <2>2, <2>3, Begun
<1>2. CASE handle_review_status
  <2>1. UNCHANGED <<votes, disk>> /\ check_timeout(state)
    BY <1>2 DEF handle_review_status, files
  <2>2. Writing'
    BY <2>1, TimeoutPlan
  <2> QED BY <2>1, <2>2, Begun
<1>3. CASE SweepCollecting
  <2>1. UNCHANGED <<votes, disk>> /\ (UNCHANGED op \/ check_timeout(state))
    BY <1>3 DEF SweepCollecting
  <2>2. CASE UNCHANGED op
    BY <2>1, <2>2, Untouched
  <2>3. CASE check_timeout(state)
    <3>1. Writing'
      BY <2>1, <2>3, TimeoutPlan
    <3> QED BY <2>1, <3>1, Begun
  <2> QED BY <2>1, <2>2, <2>3
<1> QED BY <1>1, <1>2, <1>3

\* Every other step leaves the lock, the submissions and the rounds alone.
LEMMA OtherStepsInv ==
    ASSUME ApprovalInv,
           \/ Ask \/ PreflightConflict \/ handle_reassign_panel \/ handle_reseat_panel
           \/ execute_update \/ execute_progress \/ Settle \/ Clean \/ EndClean
           \/ SweepGate \/ recover_orphaned_review_gate_task \/ SweepStale
           \/ auto_request_review_ready_task \/ Age \/ Turnover
           \/ UNCHANGED vars
    PROVE  ApprovalInv'
<1> SUFFICES UNCHANGED <<op, votes, disk>>
  BY Untouched
<1>1. CASE Ask \/ PreflightConflict \/ handle_reassign_panel \/ handle_reseat_panel
  BY <1>1 DEF Ask, PreflightConflict, handle_reassign_panel, handle_reseat_panel, files, procs
<1>2. CASE execute_update \/ execute_progress \/ Settle \/ Clean \/ EndClean
  BY <1>2 DEF execute_update, execute_progress, Settle, Clean, EndClean, files, procs
<1>3. CASE SweepGate \/ recover_orphaned_review_gate_task \/ SweepStale
           \/ auto_request_review_ready_task
  BY <1>3 DEF SweepGate, recover_orphaned_review_gate_task, SweepStale,
              auto_request_review_ready_task, files
<1>4. CASE Age \/ Turnover \/ UNCHANGED vars
  BY <1>4 DEF Age, Turnover, vars, files, procs
<1> QED BY <1>1, <1>2, <1>3, <1>4

LEMMA InitInv == Init => ApprovalInv
BY DEF Init, ApprovalInv

LEMMA NextInv ==
    ASSUME ApprovalInv, [Next]_vars
    PROVE  ApprovalInv'
BY HandlerStepInv, EndHandlerInv, PlainHandlersInv, JudgingHandlersInv, OtherStepsInv
   DEF Next, Supervisor, Sweep

-----------------------------------------------------------------------------
\* Only the write of a handler makes a task approved, and it was justified.
LEMMA ApprovalStep ==
    ASSUME ApprovalInv, [Next]_vars, status # "approved", status' = "approved"
    PROVE  /\ op # None /\ op.copy.round = disk
           /\ \A r \in op.copy.panel : votes[r] = "approve"
<1>1. HandlerStep
  <2>1. \/ HandlerStep \/ PreflightConflict \/ execute_update \/ execute_progress \/ Settle
        \/ recover_orphaned_review_gate_task \/ UNCHANGED status
    BY DEF Next, Supervisor, Sweep, vars, files, EndHandler, Ask,
           cleanup_review_artifacts_for_supervisor_conflict, handle_request_review,
           handle_submit_review, handle_review_status, handle_reassign_panel,
           handle_override, handle_reset_rounds, handle_reseat_panel, handle_release_panel,
           Clean, EndClean, SweepGate, SweepStale, release_superseded_review_state,
           auto_request_review_ready_task, SweepCollecting, Age, Turnover
  <2>2. ~PreflightConflict /\ ~execute_progress /\ ~recover_orphaned_review_gate_task
    BY DEF PreflightConflict, execute_progress, recover_orphaned_review_gate_task
  <2>3. ~execute_update
    BY DEF execute_update, supervisor_transitions
  <2>4. ~Settle
    BY DEF Settle
  <2> QED BY <2>1, <2>2, <2>3, <2>4
<1>2. op # None /\ Writing
  BY <1>1 DEF HandlerStep, ApprovalInv
<1>3. Head(op.todo) = "approved"
  BY <1>1 DEF HandlerStep, WriteTask, WriteVote, WriteState, WriteRequest, WriteRest
<1>4. op.todo[1] = "approved" /\ 1 \in 1 .. Len(op.todo)
  <2>1. op.todo \in Seq(Step) /\ op.todo # << >>
    BY <1>2 DEF Writing
  <2>2. \A q \in Seq(Step) : q # << >> => Len(q) \in Nat \ {0}
    BY EmptySeq, Zenon
  <2>3. \A q \in Seq(Step) : q # << >> => Head(q) = q[1]
    OBVIOUS
  <2>4. \A n \in Nat \ {0} : 1 \in 1 .. n
    OBVIOUS
  <2> QED BY <1>3, <2>1, <2>2, <2>3, <2>4, Zenon
<1>5. Justified
  BY <1>2, <1>4 DEF Writing
<1> QED BY <1>2, <1>3, <1>5 DEF Justified, Pending

\* Whatever handlers, workers, the supervisor, integration and the sweep do,
\* and wherever a handler dies: update_task_status_atomic makes a task
\* approved only when all members of the panel have approved the newest round.
THEOREM UnanimousApprovals == Spec => ApprovalsAreUnanimous
<1>1. Spec => []ApprovalInv
  BY InitInv, NextInv, PTL DEF Spec
<1>2. ASSUME ApprovalInv, [Next]_vars
      PROVE  [status # "approved" /\ status' = "approved"
                  => /\ op # None /\ op.copy.round = disk
                     /\ \A r \in op.copy.panel : votes[r] = "approve"]_vars
  BY <1>2, ApprovalStep
<1> QED BY <1>1, <1>2, PTL DEF Spec, ApprovalsAreUnanimous

=============================================================================
