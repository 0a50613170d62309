---------------------------- MODULE Verification ----------------------------
(***************************************************************************)
(* The review rounds of one task as the verification tool keeps them in    *)
(* files: the task's status, state.json, the round directories and the     *)
(* panel lease.  Handlers of several processes hold the task's review lock *)
(* from their first check to their last write; the files are written one   *)
(* by one, and a handler may end at any of them.  Workers, the supervisor's*)
(* task updates and integration change the same files without that lock,   *)
(* and the sweep of the run loop repairs what it finds every minute.       *)
(*                                                                         *)
(* Other tasks appear as `busy': one of them leases the implicit panel     *)
(* (no configured panels, FullCouncil, Exclusive: the defaults).  A score  *)
(* that is too low counts as a verdict to revise.  The task has a commit,  *)
(* so pending and assigned are out of reach.  Feedback, followups, events, *)
(* prompts and the worker's ownership do not steer the rounds.             *)
(***************************************************************************)
EXTENDS Integers, Sequences, FiniteSets

CONSTANTS
    Reviewer, None,
    FirstReviewers,   \* the reviewers that are live at the start
    MaxRounds,        \* policy.max_review_rounds
    MaxResetCycles,   \* MAX_REVIEW_RESET_CYCLES_PER_TASK
    MinApprovals,     \* policy.min_approvals
    MaxRequests,      \* bound: rounds that are started
    MaxTroubles       \* bound: interventions of the supervisor, handlers that end before
                      \* their last write and changes among the reviewers, all together

Status == {"in_progress", "review_ready", "in_review", "changes_requested",
           "approved", "blocked", "closed"}
Outcome == {"collecting", "approved", "changes_requested", "rejected",
            "escalated", "released"}
Verdict == {"approve", "revise", "reject"}

ASSUME VerificationAssumption ==
    /\ FirstReviewers \subseteq Reviewer /\ IsFiniteSet(Reviewer)
    /\ None \notin Reviewer \cup Status \cup Verdict
    /\ MaxRounds \in Nat /\ MaxResetCycles \in Nat \ {0} /\ MinApprovals \in Nat
    /\ {MaxRequests, MaxTroubles} \subseteq Nat

VARIABLES
    status,     \* the task's status
    state,      \* state.json, or None
    disk,       \* highest_round_on_disk: the last round with a request
    votes,      \* the submissions of that round
    lease,      \* the task owns a panel lease
    conflict,   \* task_has_integration_conflict_recovery_marker
    live,       \* reviewers with a live session
    busy,       \* another task leases the implicit panel
    aged,       \* reviews up to this id are older than timeout_minutes
    op,         \* the handler that holds the review lock, or None
    asked,      \* a request for review that waits for the lock, or None
    clean,      \* unlocked cleanup integration or an update has still to do
    sweep,      \* where the sweep is, with the status it read
    requests,   \* review ids given out
    troubles

files == <<status, state, disk, votes, lease, conflict>>
world == <<live, busy, aged>>
procs == <<op, asked, clean, sweep>>
vars == <<files, world, procs, requests, troubles>>

ReviewState ==
    [id : 1 .. MaxRequests, status : Outcome, round : Nat \ {0},
     cycle_start : Nat \ {0}, epoch_start : Nat \ {0},
     panel : SUBSET Reviewer, submitted : SUBSET Reviewer]

\* What a handler has still to write: a step that is a status updates the task.
Step == Status \cup {"vote", "state", "outcome", "request", "lease", "delete", "leave"}
Handler == [todo : Seq(Step), copy : ReviewState \cup {None}, outcome : Outcome,
            by : Reviewer \cup {None}, verdict : Verdict \cup {None}]

TypeOK ==
    /\ status \in Status
    /\ state \in ReviewState \cup {None}
    /\ disk \in Nat
    /\ votes \in [Reviewer -> Verdict \cup {None}]
    /\ lease \in BOOLEAN /\ conflict \in BOOLEAN /\ busy \in BOOLEAN
    /\ live \subseteq Reviewer
    /\ aged \in 0 .. MaxRequests /\ requests \in 0 .. MaxRequests
    /\ op = None \/ op \in Handler
    /\ asked = None \/ asked \in [was : Status \cup {"conflict"}, auto : BOOLEAN]
    /\ clean \in Seq({"lease", "delete"})
    /\ sweep \in [at : {"gate", "gate_locked", "stale", "stale_locked", "stale_done",
                         "collecting"},
                  saw : Status \cup {None}]

Init ==
    /\ status = "in_progress" /\ state = None
    /\ disk = 0 /\ votes = [r \in Reviewer |-> None]
    /\ lease = FALSE /\ conflict = FALSE
    /\ live = FirstReviewers /\ busy = FALSE /\ aged = 0
    /\ op = None /\ asked = None /\ clean = <<>>
    /\ sweep = [at |-> "gate", saw |-> None]
    /\ requests = 0
    /\ troubles = 0

Collecting == state # None /\ state.status = "collecting"

-----------------------------------------------------------------------------
\* Rounds counted from the start of a cycle or of an epoch.
rounds_since(start, round) == IF round >= start THEN round - start + 1 ELSE round

review_cycle_round(s, round) == rounds_since(s.cycle_start, round)

review_epoch_round(s, round) == rounds_since(s.epoch_start, round)

total_review_round_limit ==
    (IF MaxRounds = 0 THEN 1 ELSE MaxRounds) * MaxResetCycles

total_review_rounds_exhausted(s, round) ==
    review_epoch_round(s, round) >= total_review_round_limit

\* read_round_submissions: the reviewers with a submission in the round of s.
Voters(s, v) == IF s.round = disk THEN {r \in Reviewer : v[r] # None} ELSE {}

\* Mutant: the panel is not compared with the submissions.
full_panel_approval_gap_ignored(s, v) == {}
\* Panel members without a submission.
full_panel_approval_gap(s, v) == s.panel \ Voters(s, v)

\* evaluate_round over ThresholdEvaluator::evaluate.
evaluate_round(s, v) ==
    LET given == {v[r] : r \in Voters(s, v)}
        approvals == {r \in Voters(s, v) : v[r] = "approve"} IN
    IF "reject" \in given THEN "rejected"
    ELSE IF "revise" \in given THEN
        IF \/ total_review_rounds_exhausted(s, s.round)
           \/ review_cycle_round(s, s.round) >= MaxRounds
        THEN "escalated" ELSE "changes_requested"
    ELSE IF \/ given = {}
            \/ Cardinality(approvals) < MinApprovals
            \/ full_panel_approval_gap(s, v) # {}
         THEN "collecting" ELSE "approved"

\* task_status_for_report, with task_status_for_review_outcome.
task_status_for_report(s, outcome) ==
    IF outcome = "approved" THEN "approved"
    ELSE IF outcome = "escalated" /\ total_review_rounds_exhausted(s, s.round) THEN "blocked"
    ELSE "changes_requested"

\* The transitions update_task_status_atomic accepts, besides staying.
review_transitions ==
    ({"in_review"} \X {"changes_requested", "approved", "blocked"})
    \cup ({"review_ready"} \X {"in_review", "changes_requested"})
    \cup ({"in_progress"} \X {"in_review", "review_ready"})
    \cup ({"changes_requested"} \X {"in_review", "approved", "review_ready", "blocked"})
    \cup {<<"blocked", "review_ready">>, <<"approved", "changes_requested">>}

may_become(s) == s = status \/ <<status, s>> \in review_transitions

-----------------------------------------------------------------------------
\* A handler takes the review lock with the writes it is going to make.
Lock(todo, copy, outcome) ==
    op' = [todo |-> todo, copy |-> copy, outcome |-> outcome, by |-> None, verdict |-> None]

Trouble == troubles < MaxTroubles /\ troubles' = troubles + 1

\* A write that fails, a dirty checkout that forbids an approval or a process
\* that dies ends the handler.  A submission that cannot be concluded is taken
\* back by rollback_review_submission when the process survives.
rollback_review_submission ==
    /\ votes' = [votes EXCEPT ![op.by] = None]
    /\ state' = [op.copy EXCEPT !.submitted = @ \ {op.by}]

EndHandler ==
    /\ op # None /\ Trouble
    /\ op' = None
    /\ \/ UNCHANGED <<votes, state>>
       \/ op.by # None /\ Head(op.todo) = "approved" /\ rollback_review_submission
    /\ UNCHANGED <<status, disk, lease, conflict, world, asked, clean, sweep, requests>>

Done == op' = IF Len(op.todo) = 1 THEN None ELSE [op EXCEPT !.todo = Tail(@)]

\* The next write of the handler that holds the review lock.
WriteTask ==
    /\ Head(op.todo) \in Status
    /\ IF may_become(Head(op.todo))
       THEN /\ status' = Head(op.todo)
            /\ Done
            /\ UNCHANGED <<state, votes>>
       ELSE /\ op' = None
            /\ IF op.by # None THEN rollback_review_submission
                               ELSE UNCHANGED <<state, votes>>
            /\ UNCHANGED status
    /\ UNCHANGED <<disk, lease, conflict>>

WriteVote ==
    /\ Head(op.todo) = "vote"
    /\ votes' = [votes EXCEPT ![op.by] = op.verdict]
    /\ Done
    /\ UNCHANGED <<status, state, disk, lease, conflict>>

WriteState ==
    /\ Head(op.todo) \in {"state", "outcome"}
    /\ state' = IF Head(op.todo) = "state" THEN op.copy
                ELSE [op.copy EXCEPT !.status = op.outcome]
    \* A request has cleared the conflict marker before.
    /\ conflict' = (conflict /\ op.todo # <<"state", "request">>)
    /\ Done
    /\ UNCHANGED <<status, disk, votes, lease>>

WriteRequest ==
    /\ Head(op.todo) = "request"
    /\ disk' = op.copy.round
    /\ votes' = [r \in Reviewer |-> None]
    /\ Done
    /\ UNCHANGED <<status, state, lease, conflict>>

WriteRest ==
    /\ Head(op.todo) \in {"lease", "delete", "leave"}
    /\ lease' = (lease /\ Head(op.todo) # "lease")
    /\ state' = IF Head(op.todo) = "delete" THEN None ELSE state
    /\ status' = IF Head(op.todo) = "leave" /\ status = "in_review"
                 THEN "changes_requested" ELSE status
    /\ Done
    /\ UNCHANGED <<disk, votes, conflict>>

HandlerStep ==
    /\ op # None
    /\ WriteTask \/ WriteVote \/ WriteState \/ WriteRequest \/ WriteRest
    /\ UNCHANGED <<world, asked, clean, sweep, requests, troubles>>

-----------------------------------------------------------------------------
\* handle_request_review up to the lock: the status is read here, by the
\* supervisor or by the sweep, and not again.
Ask ==
    /\ asked = None /\ Trouble
    /\ \/ status \in {"in_progress", "review_ready", "in_review", "changes_requested"}
       \/ status = "blocked" /\ conflict
    /\ asked' = [was |-> status, auto |-> FALSE]
    /\ UNCHANGED <<files, world, op, clean, sweep, requests>>

\* The preflight meets a conflict: mark_task_supervisor_integration_conflict
\* whatever the status is by now; the cleanup then waits for the lock.
PreflightConflict ==
    /\ asked # None /\ asked.was # "conflict"
    /\ Trouble
    /\ status' = "changes_requested" /\ conflict' = TRUE
    /\ asked' = [asked EXCEPT !.was = "conflict"]
    /\ UNCHANGED <<state, disk, votes, lease, world, op, clean, sweep, requests>>

cleanup_review_artifacts_for_supervisor_conflict ==
    /\ op = None /\ asked # None /\ asked.was = "conflict"
    /\ asked' = None
    /\ Lock(<<"lease", "delete">>, None, "collecting")
    /\ UNCHANGED <<files, world, clean, sweep, requests, troubles>>

next_round ==
    1 + IF state # None /\ state.round > disk THEN state.round ELSE disk

\* The checks of a request that holds the lock: no active round, no limit
\* reached unless the state is gone, and a panel that is its own or free.
request_is_admitted ==
    /\ ~Collecting
    /\ state # None => /\ review_epoch_round(state, next_round) <= total_review_round_limit
                       /\ review_cycle_round(state, next_round) <= MaxRounds
    /\ lease \/ ~busy
    /\ live # {}
    /\ requests < MaxRequests

\* handle_request_review from the lock on.
handle_request_review ==
    /\ op = None /\ asked # None /\ asked.was # "conflict"
    /\ asked' = None
    /\ IF request_is_admitted
       THEN /\ requests' = requests + 1
            /\ lease' = TRUE
            /\ Lock(IF asked.was \in {"changes_requested", "blocked"}
                    THEN <<"review_ready", "in_review", "state", "request">>
                    ELSE <<"in_review", "state", "request">>,
                    [id |-> requests + 1, status |-> "collecting", round |-> next_round,
                     cycle_start |-> IF state = None THEN next_round ELSE state.cycle_start,
                     epoch_start |-> IF state = None THEN next_round ELSE state.epoch_start,
                     panel |-> live, submitted |-> {}],
                    "collecting")
       ELSE UNCHANGED <<requests, lease, op>>
    /\ UNCHANGED <<status, state, disk, votes, conflict, world, clean, sweep, troubles>>

\* handle_submit_review, by a reviewer the request has reached.  The last
\* submission of the panel is judged: the task first, state.json last.
handle_submit_review(r, v) ==
    LET copy == [state EXCEPT !.submitted = @ \cup {r}]
        judged == evaluate_round(copy, [votes EXCEPT ![r] = v])
        outcome == IF judged = "collecting" THEN "escalated" ELSE judged IN
    /\ op = None /\ Collecting /\ status = "in_review"
    /\ r \in live \cap (state.panel \ state.submitted) /\ state.round = disk
    /\ op' = [todo |-> IF copy.panel \subseteq copy.submitted
                       THEN <<"vote", "state", task_status_for_report(copy, outcome), "outcome">>
                       ELSE <<"vote", "state">>,
              copy |-> copy, outcome |-> outcome, by |-> r, verdict |-> v]
    /\ UNCHANGED <<files, world, asked, clean, sweep, requests, troubles>>

\* Mutant: a round with submissions does not time out.
timeout_of_silent_rounds_only(s) ==
    IF Voters(s, votes) = {}
    THEN Lock(<<task_status_for_report(s, "escalated"), "outcome", "lease">>, s, "escalated")
    ELSE UNCHANGED op
\* A silent round goes back to the worker, an incomplete one is escalated
\* where it is, a complete one is judged.
check_timeout(s) ==
    LET given == Cardinality(Voters(s, votes))
        judged == evaluate_round(s, votes) IN
    IF given = 0 THEN
        Lock(<<task_status_for_report(s, "escalated"), "outcome", "lease">>, s, "escalated")
    ELSE IF given < Cardinality(s.panel) THEN
        Lock(IF total_review_rounds_exhausted(s, s.round)
             THEN <<"blocked", "outcome", "lease">> ELSE <<"outcome", "lease">>,
             s, "escalated")
    ELSE Lock(<<task_status_for_report(s, judged), "outcome", "lease">>, s, judged)

\* reassign_dead_panel_members: every missing member is replaced or none is.
DeadMembers == state.panel \ (live \cup state.submitted)

reassign_dead_panel_members ==
    LET fresh == {new \in SUBSET (live \ state.panel) :
                      Cardinality(new) = Cardinality(DeadMembers)} IN
    IF fresh = {} THEN UNCHANGED state
    ELSE \E new \in fresh :
             state' = [state EXCEPT !.panel = (@ \ DeadMembers) \cup new]

\* handle_review_status checks for a timeout; handle_reassign_panel does not.
handle_review_status ==
    /\ op = None /\ Collecting /\ state.id <= aged /\ Trouble
    /\ check_timeout(state)
    /\ UNCHANGED <<files, world, asked, clean, sweep, requests>>

handle_reassign_panel ==
    /\ op = None /\ Collecting /\ Trouble
    /\ reassign_dead_panel_members
    /\ UNCHANGED <<status, disk, votes, lease, conflict, world, procs, requests>>

\* handle_override: the task, then state.json.
handle_override(outcome) ==
    /\ op = None /\ state # None /\ status # "closed" /\ Trouble
    /\ Lock(<<"changes_requested", "outcome">>, state, outcome)
    /\ UNCHANGED <<files, world, asked, clean, sweep, requests>>

\* handle_reset_rounds: the next round starts a cycle, by force an epoch.
handle_reset_rounds(force) ==
    LET consumed == next_round - 1 IN
    /\ op = None /\ state # None /\ status # "closed" /\ Trouble
    /\ total_review_rounds_exhausted(state, consumed) => force
    /\ state.status = "escalated" \/ review_cycle_round(state, state.round) >= MaxRounds
    /\ Lock(<<"lease", "leave", "outcome">>,
            [state EXCEPT !.cycle_start = next_round,
                          !.epoch_start = IF force THEN next_round ELSE @],
            "released")
    /\ UNCHANGED <<files, world, asked, clean, sweep, requests>>

\* handle_reseat_panel writes a lease for the round that lost it.
handle_reseat_panel ==
    /\ op = None /\ Collecting /\ ~lease /\ ~busy /\ Trouble
    /\ lease' = TRUE
    /\ UNCHANGED <<status, state, disk, votes, conflict, world, procs, requests>>

\* handle_release_panel: the round is released, the task stays where it is.
handle_release_panel ==
    /\ op = None /\ lease /\ Trouble
    /\ Lock(IF Collecting THEN <<"outcome", "lease">> ELSE <<"lease">>, state, "released")
    /\ UNCHANGED <<files, world, asked, clean, sweep, requests>>

-----------------------------------------------------------------------------
\* execute_progress: the worker resumes or hands over.  Rework clears an
\* obsolete review state without the review lock.
obsolete(s) == s # None /\ s.status \in {"changes_requested", "released", "rejected", "escalated"}

execute_progress ==
    /\ status \in {"in_progress", "changes_requested"}
    /\ status' \in {"in_progress", "review_ready"} /\ status' # status
    /\ state' = IF status = "changes_requested" /\ obsolete(state) THEN None ELSE state
    /\ UNCHANGED <<disk, votes, lease, conflict, world, procs, requests, troubles>>

\* The updates validate_status_transition leaves to a supervisor.
supervisor_transitions ==
    ({"in_progress"} \X {"review_ready", "blocked"})
    \cup ({"in_review"} \X {"changes_requested", "blocked"})
    \cup ({"changes_requested"} \X {"in_progress", "review_ready", "blocked"})
    \cup {<<"review_ready", "changes_requested">>, <<"approved", "changes_requested">>}

execute_update ==
    /\ Trouble
    /\ \E t \in supervisor_transitions \cup
                (IF conflict THEN {<<"blocked", "review_ready">>} ELSE {}) :
           status = t[1] /\ status' = t[2]
    /\ conflict' = (conflict /\ status' # "review_ready")
    /\ UNCHANGED <<state, disk, votes, lease, world, procs, requests>>

\* Integration and closing work on an approved task without the review lock:
\* the task first, then the lease, then (not after a plain update) state.json.
\* Integrating removes the conflict marker, closing leaves it.
Settle ==
    /\ status = "approved" /\ clean = <<>>
    /\ \/ /\ status' = "closed" /\ clean' \in {<<"lease", "delete">>, <<"lease">>}
          /\ conflict' \in {conflict, FALSE}
       \/ status' = "approved" /\ clean' = <<"lease", "delete">> /\ UNCHANGED conflict
       \/ status' = "review_ready" /\ clean' = <<>> /\ UNCHANGED conflict
    /\ UNCHANGED <<state, disk, votes, lease, world, op, asked, sweep, requests, troubles>>

Clean ==
    /\ clean # <<>>
    /\ clean' = Tail(clean)
    /\ lease' = (lease /\ Head(clean) # "lease")
    /\ state' = IF Head(clean) = "delete" THEN None ELSE state
    /\ UNCHANGED <<status, disk, votes, conflict, world, op, asked, sweep, requests, troubles>>

EndClean ==
    /\ clean # <<>> /\ Trouble
    /\ clean' = <<>>
    /\ UNCHANGED <<files, world, op, asked, sweep, requests>>

-----------------------------------------------------------------------------
\* sweep_collecting_reviews, pass by pass.
At(p) == sweep.at = p
GoTo(p) == sweep' = [at |-> p, saw |-> None]

\* recover_orphaned_review_gate_task reads state.json before it has any lock;
\* feedback and blockers decide where the task returns to.
SweepGate ==
    /\ At("gate") /\ op = None
    /\ IF state = None THEN GoTo("gate_locked")
       ELSE sweep' = [at |-> "stale_locked", saw |-> status]
    /\ UNCHANGED <<files, world, op, asked, clean, requests, troubles>>

recover_orphaned_review_gate_task ==
    /\ At("gate_locked") /\ GoTo("stale")
    /\ status' \in IF status = "in_review" THEN {"changes_requested", "review_ready"}
                                           ELSE {status}
    /\ UNCHANGED <<state, disk, votes, lease, conflict, world, op, asked, clean, requests, troubles>>

\* Mutant: the state of a closed task is kept.
superseded_unless_closed(s, t) ==
    \/ s.status # "collecting" /\ t \in {"review_ready", "in_progress"}
    \/ s.status = "approved" /\ t = "changes_requested"
\* Mutant: a finished round is not superseded by a task that is ready again.
superseded_by_resumed_work(s, t) ==
    \/ t = "closed"
    \/ s.status # "collecting" /\ t = "in_progress"
    \/ s.status = "approved" /\ t = "changes_requested"
\* The status of the task has left the round behind.
review_state_is_superseded_by_task_status(s, t) ==
    \/ t = "closed"
    \/ s.status # "collecting" /\ t \in {"review_ready", "in_progress"}
    \/ s.status = "approved" /\ t = "changes_requested"

\* release_superseded_review_state compares with the status it read before
\* it took the lock.
SweepStale ==
    /\ At("stale")
    /\ sweep' = [at |-> "stale_locked", saw |-> status]
    /\ UNCHANGED <<files, world, op, asked, clean, requests, troubles>>

release_superseded_review_state ==
    /\ At("stale_locked") /\ op = None
    /\ GoTo("stale_done")
    /\ IF state = None THEN UNCHANGED op
       ELSE IF review_state_is_superseded_by_task_status(state, sweep.saw)
            THEN Lock(<<"lease", "delete">>, state, "collecting")
       ELSE IF Collecting /\ sweep.saw # "in_review"
            THEN Lock(<<"in_review">>, state, "collecting")
       ELSE UNCHANGED op
    /\ UNCHANGED <<files, world, asked, clean, requests, troubles>>

auto_request_review_ready_task ==
    /\ At("stale_done") /\ op = None
    /\ GoTo("collecting")
    /\ asked' = IF state = None /\ status = "review_ready" /\ asked = None
                THEN [was |-> status, auto |-> TRUE] ELSE asked
    /\ UNCHANGED <<files, world, op, clean, requests, troubles>>

\* The last pass, under the lock: time out, otherwise replace the dead.
SweepCollecting ==
    /\ At("collecting") /\ op = None
    /\ asked # None => ~asked.auto
    /\ GoTo("gate")
    /\ IF ~Collecting THEN UNCHANGED <<op, state>>
       ELSE IF state.id <= aged THEN check_timeout(state) /\ UNCHANGED state
       ELSE reassign_dead_panel_members /\ UNCHANGED op
    /\ UNCHANGED <<status, disk, votes, lease, conflict, world, asked, clean, requests, troubles>>

Sweep ==
    \/ SweepGate \/ recover_orphaned_review_gate_task
    \/ SweepStale \/ release_superseded_review_state
    \/ auto_request_review_ready_task \/ SweepCollecting

-----------------------------------------------------------------------------
\* timeout_minutes pass for the round that is collecting.
Age ==
    /\ Collecting /\ aged < state.id
    /\ aged' = state.id
    /\ UNCHANGED <<files, live, busy, procs, requests, troubles>>

\* Reviewers' sessions end and begin; another task leases the implicit panel
\* or gives it back.
Turnover ==
    /\ Trouble
    /\ live' \in SUBSET Reviewer /\ busy' \in BOOLEAN
    /\ UNCHANGED <<files, aged, procs, requests>>

Supervisor ==
    \/ handle_review_status \/ handle_reassign_panel
    \/ \E outcome \in {"changes_requested", "rejected"} : handle_override(outcome)
    \/ \E force \in BOOLEAN : handle_reset_rounds(force)
    \/ handle_reseat_panel \/ handle_release_panel \/ execute_update

Next ==
    \/ HandlerStep \/ EndHandler
    \/ Ask \/ PreflightConflict
    \/ cleanup_review_artifacts_for_supervisor_conflict \/ handle_request_review
    \/ \E r \in Reviewer, v \in Verdict : handle_submit_review(r, v)
    \/ Supervisor
    \/ execute_progress \/ Settle \/ Clean \/ EndClean
    \/ Sweep
    \/ Age \/ Turnover

Spec == Init /\ [][Next]_vars

\* Handlers run to their end, a waiting request gets the lock, the run loop
\* keeps sweeping and time passes.  Nothing is assumed of agents.
Fairness ==
    /\ WF_vars(HandlerStep) /\ WF_vars(Clean) /\ WF_vars(Sweep) /\ WF_vars(Age)
    /\ WF_vars(cleanup_review_artifacts_for_supervisor_conflict)
    /\ WF_vars(handle_request_review)

FairSpec == Spec /\ Fairness

-----------------------------------------------------------------------------
\* A review approves a task only when every member of the panel of the round
\* has submitted an approval to the newest round: not by the submission of a
\* member that was replaced, after a crash or at a late timeout.
ApprovalsAreUnanimous ==
    [][status # "approved" /\ status' = "approved"
           => /\ op # None /\ op.copy.round = disk
              /\ \A r \in op.copy.panel : votes[r] = "approve"]_vars

\* A round that no verdict can close, although it has all submissions it
\* waits for: too few members, or the submission of a replaced member.
Inconclusive ==
    /\ Cardinality(Voters(state, votes)) >= Cardinality(state.panel)
    /\ evaluate_round(state, votes) = "collecting"

\* A collecting round ends, also when handlers die between their writes or
\* reviewers leave, unless the supervisor blocked the task or the round is
\* inconclusive: check_timeout leaves the last two collecting for ever.
ReviewsEnd ==
    ~<>[](Collecting /\ status # "blocked" /\ ~Inconclusive)

\* A task that waits for review while reviewers are live and the panel is
\* free gets a round from the sweep, whatever state.json of an earlier round
\* was left behind (until the bound on rounds).
ReadyTasksAreReviewed ==
    ~<>[](status = "review_ready" /\ live # {} /\ ~busy /\ requests < MaxRequests)

\* The review state of a closed task does not stay, although closing deletes
\* it without the lock and a handler may write it back.
ClosedReviewsAreCleared ==
    ~<>[](status = "closed" /\ state # None)

=============================================================================
