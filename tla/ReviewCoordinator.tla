------------------------- MODULE ReviewCoordinator -------------------------
(***************************************************************************)
(* The review coordinator as the consumer of the lease queue: it claims    *)
(* review requests, spawns a panel for each, judges rounds when every      *)
(* reviewer has submitted, and acknowledges and announces approvals.       *)
(*                                                                         *)
(* tick and submit_review both borrow the coordinator mutably, so a        *)
(* submission arrives between ticks.  Within a tick the clock, other users *)
(* of the store and a crash interleave at every await, and any error ends  *)
(* the tick where it is.  Session contents, feedback text, calibration     *)
(* statistics and the review context shown in the UI are left out.         *)
(***************************************************************************)
EXTENDS LeaseQueue, Sequences, FiniteSetsExt

CONSTANTS
    LANE_NAMES,     \* the lanes in the order they are polled
    PriorityOf,     \* the lane of a review's priority
    Reviewers,      \* the panel select_reviewers returns
    Opinion,        \* [score, verdict] a reviewer may submit
    MinAverage, MinIndividual, BlockingScore, MinApprovals,  \* ReviewPolicy
    MaxRounds,      \* policy.max_review_rounds
    MaxFailures     \* bound: appends, spawns and kills that fail

Verdict == {"Approve", "ChangesRequested", "Reject"}

ASSUME ReviewAssumption ==
    /\ LANE_NAMES \in Seq(Lane) /\ LANE_NAMES # <<>>
    /\ PriorityOf \in [Item -> Lane]
    /\ Reviewers # {}
    /\ Opinion \subseteq [score : 1 .. 10, verdict : Verdict]
    /\ None \notin Opinion /\ None \notin Item /\ None \notin [claim : ClaimId, item : Item]
    /\ None # "Approved"
    /\ MaxRounds \in Nat \ {0} /\ MaxFailures \in Nat

VARIABLES
    requested,   \* reviews whose request was appended (idempotency keys)
    active,      \* active_reviews
    pc,          \* where tick is
    todo,        \* indices whose outcome tick has still to apply
    finished,    \* completed_indices
    lane,        \* index in LANE_NAMES that claim_next polls
    opening,     \* the claim start_review is working on
    closing,     \* the acknowledged review whose approval is not appended yet
    panels,      \* claims whose reviewer sessions run
    leaked,      \* history: claims a kill failed for
    decision,    \* latest verdict event of a review
    approvals,   \* history: ReviewApproved events of a review
    lost,        \* history: acknowledged reviews whose approval was not appended
    failures

tickVars == <<pc, todo, finished, lane, opening, closing>>
eventVars == <<decision, approvals, lost>>
allVars == <<vars, requested, active, tickVars, panels, leaked, eventVars, failures>>

ActiveReview ==
    [item : Item, claim : ClaimId, round : 1 .. MaxRounds,
     submissions : SUBSET Reviewers,
     collector : [Reviewers -> Opinion \cup {None}]]

-----------------------------------------------------------------------------
\* ScoreCollector and ThresholdEvaluator::evaluate.
Scored(collector) == {r \in Reviewers : collector[r] # None}

approval_count(collector) ==
    Cardinality({r \in Scored(collector) : collector[r].verdict = "Approve"})

average_is_below(collector, limit) ==
    MapThenSumSet(LAMBDA r : collector[r].score, Scored(collector))
        < limit * Cardinality(Scored(collector))

evaluate(collector) ==
    LET some(P(_)) == \E r \in Scored(collector) : P(collector[r]) IN
    IF Scored(collector) = {} THEN "NeedMoreReviewers"
    ELSE IF some(LAMBDA o : o.score <= 3 \/ o.verdict = "Reject") THEN "Rejected"
    ELSE IF some(LAMBDA o : o.score <= BlockingScore \/ o.verdict = "ChangesRequested")
         THEN "ChangesRequested"
    ELSE IF approval_count(collector) < MinApprovals THEN "NeedMoreReviewers"
    ELSE IF \/ some(LAMBDA o : o.score < MinIndividual)
            \/ average_is_below(collector, MinAverage)
         THEN "ChangesRequested"
    ELSE "Approved"

is_round_complete(review) == review.submissions = Reviewers

\* process_round reports an error, and the round waits, without an outcome.
Judged(review) ==
    is_round_complete(review) /\ evaluate(review.collector) # "NeedMoreReviewers"

check_max_rounds(round) == round >= MaxRounds

-----------------------------------------------------------------------------
\* PriorityQueue::enqueue; the key of a review makes a second call do nothing.
enqueue(i) ==
    /\ i \notin requested
    /\ requested' = requested \cup {i}
    /\ Enqueue(PriorityOf[i], i)
    /\ UNCHANGED <<active, tickVars, panels, leaked, eventVars, failures>>

submitted(review, r, o) ==
    [review EXCEPT !.submissions = @ \cup {r}, !.collector[r] = o]

\* Mutant: the newest review of the id takes the submission.
submit_to_newest(i, r, o) ==
    /\ pc = "idle" /\ up
    /\ \E k \in DOMAIN active :
        /\ active[k].item = i
        /\ \A j \in k + 1 .. Len(active) : active[j].item # i
        /\ active' = [active EXCEPT ![k] = submitted(@, r, o)]
    /\ UNCHANGED <<vars, requested, tickVars, panels, leaked, eventVars, failures>>

\* The first active review of the id takes the submission, over an earlier one
\* of the same reviewer.
submit_review(i, r, o) ==
    /\ pc = "idle" /\ up
    /\ \E k \in DOMAIN active :
        /\ active[k].item = i
        /\ \A j \in 1 .. k - 1 : active[j].item # i
        /\ active' = [active EXCEPT ![k] = submitted(@, r, o)]
    /\ UNCHANGED <<vars, requested, tickVars, panels, leaked, eventVars, failures>>

\* check_active_reviews evaluates every complete round first.
tick ==
    /\ pc = "idle" /\ up
    /\ pc' = "tick"
    /\ todo' = {k \in DOMAIN active : Judged(active[k])}
    /\ UNCHANGED <<vars, requested, active, finished, lane, opening, closing, panels,
                   leaked, eventVars, failures>>

\* An error ends the tick; what it had still to do is forgotten.
Abort ==
    /\ pc' = "idle"
    /\ todo' = {} /\ finished' = {} /\ lane' = 1
    /\ opening' = None /\ closing' = None

Fails ==
    /\ failures < MaxFailures
    /\ failures' = failures + 1

Judge(k) == pc = "tick" /\ k \in todo /\ \A j \in todo : k <= j

JudgeApproved(k) ==
    /\ Judge(k) /\ evaluate(active[k].collector) = "Approved"
    /\ todo' = todo \ {k}
    /\ finished' = finished \cup {k}
    /\ UNCHANGED <<vars, requested, active, pc, lane, opening, closing, panels, leaked,
                   eventVars, failures>>

\* The next round starts with an empty collector and the panel's submissions
\* of the round before.
NextRound(review) ==
    [review EXCEPT !.round = @ + 1, !.collector = [r \in Reviewers |-> None]]

\* emit_changes_requested or emit_rejection, then the review's next round or
\* its end.
JudgeNegative(k) ==
    LET i == active[k].item
        outcome == evaluate(active[k].collector)
        last == outcome = "Rejected" \/ check_max_rounds(active[k].round)
    IN
    /\ Judge(k) /\ outcome \in {"ChangesRequested", "Rejected"}
    /\ decision' = [decision EXCEPT ![i] = outcome]
    /\ todo' = todo \ {k}
    /\ finished' = IF last THEN finished \cup {k} ELSE finished
    /\ active' = IF last THEN active ELSE [active EXCEPT ![k] = NextRound(@)]
    /\ UNCHANGED <<vars, requested, pc, lane, opening, closing, panels, leaked,
                   approvals, lost, failures>>

\* The event cannot be appended.
JudgeFails(k) ==
    /\ Judge(k) /\ evaluate(active[k].collector) # "Approved"
    /\ Fails
    /\ Abort
    /\ UNCHANGED <<vars, requested, active, panels, leaked, eventVars>>

\* kill_all_sessions of the claims in cs; errors are only logged.
kill_all_sessions(cs) ==
    \E bad \in SUBSET cs :
        /\ failures + Cardinality(bad) <= MaxFailures
        /\ failures' = failures + Cardinality(bad)
        /\ panels' = panels \ (cs \ bad)
        /\ leaked' = leaked \cup bad

AckOk(c) == Live(c) /\ ack_claim(c)

\* The claim is unknown or the disk fails; or it has expired and is dropped.
AckError(c) ==
    \/ UNCHANGED vars
    \/ ~Live(c) /\ ack_claim(c)

\* Vec::remove.
RemoveAt(s, k) == SubSeq(s, 1, k - 1) \o SubSeq(s, k + 1, Len(s))

\* The completed reviews leave from the last index on, their sessions first.
Finish(k) ==
    /\ pc = "tick" /\ todo = {}
    /\ k \in finished /\ \A j \in finished : j <= k
    /\ active' = RemoveAt(active, k)
    /\ kill_all_sessions({active[k].claim})

\* Mutant: a review that ends without an approval is acknowledged as well.
FinishNegativeAcked(k) ==
    /\ Finish(k) /\ evaluate(active[k].collector) # "Approved"
    /\ finished' = finished \ {k}
    /\ AckOk(active[k].claim) \/ AckError(active[k].claim)
    /\ UNCHANGED <<requested, pc, todo, lane, opening, closing, eventVars>>

\* A rejected review, or one past its last round, keeps its row and its claim.
FinishNegative(k) ==
    /\ Finish(k) /\ evaluate(active[k].collector) # "Approved"
    /\ finished' = finished \ {k}
    /\ UNCHANGED <<vars, requested, pc, todo, lane, opening, closing, eventVars>>

\* Mutant: the approval is announced although the ack was refused.
FinishUnchecked(k) ==
    /\ Finish(k) /\ evaluate(active[k].collector) = "Approved"
    /\ AckOk(active[k].claim) \/ AckError(active[k].claim)
    /\ finished' = finished \ {k}
    /\ pc' = "emit" /\ closing' = active[k].item
    /\ UNCHANGED <<requested, todo, lane, opening, eventVars>>

FinishApproved(k) ==
    /\ Finish(k) /\ evaluate(active[k].collector) = "Approved"
    /\ AckOk(active[k].claim)
    /\ finished' = finished \ {k}
    /\ pc' = "emit" /\ closing' = active[k].item
    /\ UNCHANGED <<requested, todo, lane, opening, eventVars>>

FinishAckFails(k) ==
    /\ Finish(k) /\ evaluate(active[k].collector) = "Approved"
    /\ AckError(active[k].claim)
    /\ Abort
    /\ UNCHANGED <<requested, eventVars>>

emit_approval ==
    /\ pc = "emit"
    /\ decision' = [decision EXCEPT ![closing] = "Approved"]
    /\ approvals' = [approvals EXCEPT ![closing] = @ + 1]
    /\ pc' = "tick" /\ closing' = None
    /\ UNCHANGED <<vars, requested, active, todo, finished, lane, opening, panels,
                   leaked, lost, failures>>

EmitFails ==
    /\ pc = "emit"
    /\ Fails
    /\ lost' = lost \cup {closing}
    /\ Abort
    /\ UNCHANGED <<vars, requested, active, panels, leaked, decision, approvals>>

-----------------------------------------------------------------------------
\* PriorityQueue::claim_next, once the active reviews are checked, polls one
\* lane after the other.
Polling == pc = "tick" /\ todo = {} /\ finished = {}

ClaimLane(c) ==
    /\ Polling
    /\ claim_next(LANE_NAMES[lane], c)
    /\ opening' = [claim |-> c, item |-> lease'[c].item]
    /\ pc' = "spawn" /\ lane' = 1
    /\ UNCHANGED <<requested, active, todo, finished, closing, panels, leaked,
                   eventVars, failures>>

NothingToClaim(q) ==
    \A n \in Rows, i \in Item : Queued(n, q, i) => claim_marker_is_active(q, i)

\* Once the model has no claim ids left (a bound) every lane counts as empty.
NextLane ==
    /\ Polling
    /\ (NothingToClaim(LANE_NAMES[lane]) \/ used = ClaimId)
    /\ IF lane < Len(LANE_NAMES)
       THEN lane' = lane + 1 /\ UNCHANGED pc
       ELSE pc' = "idle" /\ lane' = 1
    /\ UNCHANGED <<vars, requested, active, todo, finished, opening, closing, panels,
                   leaked, eventVars, failures>>

\* A lane cannot be read: the tick ends.
ClaimFails ==
    /\ Polling
    /\ Abort
    /\ UNCHANGED <<vars, requested, active, panels, leaked, eventVars, failures>>

\* start_review: the panel's sessions are spawned and the review is active.
start_review ==
    /\ pc = "spawn"
    /\ panels' = panels \cup {opening.claim}
    /\ active' = Append(active,
            [item |-> opening.item, claim |-> opening.claim, round |-> 1,
             submissions |-> {}, collector |-> [r \in Reviewers |-> None]])
    /\ pc' = "idle" /\ opening' = None
    /\ UNCHANGED <<vars, requested, todo, finished, lane, closing, leaked, eventVars,
                   failures>>

\* Mutant: the sessions that did start are left running.
StartFailsUncleaned ==
    /\ pc = "spawn"
    /\ Fails
    /\ panels' = panels \cup {opening.claim}
    /\ Abort
    /\ UNCHANGED <<vars, requested, active, leaked, eventVars>>

\* A session cannot be spawned: those that were are killed, which may fail
\* too, and the claim is left to expire.
StartFails ==
    /\ pc = "spawn"
    /\ Fails
    /\ \/ UNCHANGED <<panels, leaked>>
       \/ /\ panels' = panels \cup {opening.claim}
          /\ leaked' = leaked \cup {opening.claim}
    /\ Abort
    /\ UNCHANGED <<vars, requested, active, eventVars>>

\* shutdown ends every review without an ack.
shutdown ==
    /\ pc = "idle" /\ up /\ active # <<>>
    /\ active' = <<>>
    /\ kill_all_sessions({active[k].claim : k \in DOMAIN active})
    /\ UNCHANGED <<vars, requested, tickVars, eventVars>>

\* The process dies with its reviews and sessions; the next one opens the store.
Crash ==
    /\ Restart
    /\ active' = <<>>
    /\ Abort
    /\ lost' = IF pc = "emit" THEN lost \cup {closing} ELSE lost
    /\ panels' = {} /\ leaked' = {}
    /\ UNCHANGED <<requested, decision, approvals, failures>>

\* The store on its own: its clock, its cleanup and its recovery.
Store ==
    /\ \/ Tick
       \/ cleanup_expired_claims
       \/ \E c \in ClaimId : RemoveMarker(c) \/ RemoveLease(c)
       \/ RecoveryDone
    /\ UNCHANGED <<requested, active, tickVars, panels, leaked, eventVars, failures>>

-----------------------------------------------------------------------------
\* No lease of an earlier process is damaged (LeaseQueue has that case).
ReviewInit ==
    /\ Init /\ used = {}
    /\ requested = {} /\ active = <<>>
    /\ pc = "idle" /\ todo = {} /\ finished = {} /\ lane = 1
    /\ opening = None /\ closing = None
    /\ panels = {} /\ leaked = {}
    /\ decision = [i \in Item |-> None]
    /\ approvals = [i \in Item |-> 0]
    /\ lost = {} /\ failures = 0

Coordinator ==
    \/ tick
    \/ \E k \in todo : JudgeApproved(k) \/ JudgeNegative(k) \/ JudgeFails(k)
    \/ \E k \in finished : FinishNegative(k) \/ FinishApproved(k) \/ FinishAckFails(k)
    \/ emit_approval
    \/ EmitFails
    \/ \E c \in ClaimId : ClaimLane(c)
    \/ NextLane
    \/ ClaimFails
    \/ start_review
    \/ StartFails

ReviewNext ==
    \/ \E i \in Item : enqueue(i)
    \/ \E i \in Item, r \in Reviewers, o \in Opinion : submit_review(i, r, o)
    \/ Coordinator
    \/ shutdown
    \/ Crash
    \/ Store

ReviewSpec == ReviewInit /\ [][ReviewNext]_allVars

-----------------------------------------------------------------------------
\* The coordinator's variables have their shapes; the queue's are LeaseQueue's.
ReviewTypeOK ==
    /\ TypeOK
    /\ requested \subseteq Item
    /\ active \in Seq(ActiveReview)
    /\ pc \in {"idle", "tick", "emit", "spawn"}
    /\ todo \subseteq DOMAIN active /\ finished \subseteq DOMAIN active
    /\ lane \in DOMAIN LANE_NAMES
    /\ opening \in [claim : ClaimId, item : Item] \cup {None}
    /\ closing \in Item \cup {None}
    /\ panels \subseteq used /\ leaked \subseteq panels
    /\ decision \in [Item -> {"Approved", "ChangesRequested", "Rejected", None}]
    /\ approvals \in [Item -> Nat] /\ lost \subseteq Item
    /\ failures \in 0 .. MaxFailures

\* "exactly-once processing": a request is approved at most once, although its
\* unrenewed lease expires and the coordinator claims it again beside the first
\* review of it: the ack that comes first decides.
ApprovedOnce == \A i \in Item : approvals[i] <= 1

\* An approval is the last word on a request: no review of it that was started
\* beside the approved one announces another verdict later.
ApprovalIsLast ==
    [][\A i \in Item : decision[i] = "Approved" => decision'[i] = "Approved"]_allVars

\* A request that nobody approved stays on the queue, whatever is rejected,
\* fails, expires or crashes, except where the approval could not be appended
\* after the ack.
RequestsStayQueued ==
    \A i \in requested :
        (approvals[i] = 0 /\ i # closing /\ i \notin lost) =>
            \E n \in Rows, q \in Lane : Queued(n, q, i)

\* Between ticks exactly the active reviews have reviewer sessions, apart from
\* sessions that refused to be killed.
PanelsAreTornDown ==
    pc = "idle" => panels \ leaked = {active[k].claim : k \in DOMAIN active} \ leaked
=============================================================================
