----------------------------- MODULE RunRepair -----------------------------
(***************************************************************************)
(* The orchestrator's passes over the run store (RunStore): the reconciler *)
(* plans repairs from a snapshot of the active runs and applies them one   *)
(* store call at a time, then the continuation pass prompts idle runs.     *)
(* Agents claim runs, work on them and die at any moment in between.       *)
(*                                                                         *)
(* A lane is a task with its worker role.  An agent's session carries the  *)
(* agent's name; the claims the reconciler takes for repair have no        *)
(* session.  Board and pool belong to the orchestrator and change between  *)
(* its passes only; the store changes at any moment.  The events the       *)
(* passes append and the repairs of tasks and workers are left out.        *)
(***************************************************************************)
EXTENDS RunStore, FiniteSets

CONSTANTS
    Reconciler,         \* RECONCILER_OWNER
    RetryRun,           \* retry_attempt_run_id, None where the bound ends
    MaxAttempts,        \* retry_policy.max_attempts
    MaxTurnsPerRun,     \* continuation_policy.max_turns_per_run
    AgentLease,         \* the lease an agent asks for
    RepairLease,        \* REPAIR_LEASE_SECONDS
    MaxPrompts,         \* bound: continuation prompts counted per run
    MaxAgentClaims      \* bound: the generation up to which agents claim

Agents == Owner \ {Reconciler}

ASSUME RunRepairAssumption ==
    /\ Reconciler \in Owner
    /\ RetryRun \in [RunId -> RunId \cup {None}]
    /\ MaxAttempts \in Nat \ {0} /\ MaxTurnsPerRun \in Nat \ {0}
    /\ AgentLease \in Nat \ {0} /\ RepairLease \in Nat \ {0} /\ MaxPrompts \in Nat
    /\ MaxAgentClaims \in 1 .. MaxGeneration

VARIABLES
    held,       \* Agents -> <<run, generation>> the agent works under, or None
    alive,      \* agents whose session the pool has as alive
    working,    \* the lane whose task an agent's records name, or None
    over,       \* lanes whose task is merged
    phase,      \* where the tick is: "idle", "repair" or "continue"
    seen,       \* the now the pass started with
    plan,       \* repairs still to apply
    cur,        \* the repair being applied, between two store calls
    prompts     \* history: continuation prompts sent, per run

passVars == <<phase, seen, plan, cur>>
agentVars == <<held, alive, working, over>>
allVars == <<vars, agentVars, passVars, prompts>>

-----------------------------------------------------------------------------
\* Reconciler::reconcile, for the runs.  A planned repair is the snapshot of
\* its record with what is to be done.

Repair(do, r) == [do |-> do, run |-> r, rec |-> runs[r]]

Expired(r) == claim_is_expired_at(runs[r], now)
SessionAlive(r) == runs[r].owner \in alive
ActiveOperation(r) ==
    SessionAlive(r) /\ working[runs[r].owner] = runs[r].lane

\* Mutant: a retry due this instant waits.
DueRetriesLater ==
    {r \in active_runs : retry_is_due_at(runs[r], now - 1)}

DueRetries == {r \in active_runs : retry_is_due_at(runs[r], now)}

\* reconcile_claims
Renewals ==
    {r \in active_runs :
        has_active_claim(runs[r].status) /\ Expired(r) /\ ActiveOperation(r)}

\* Mutant: a dead session's claim is left to run out.
AbandonedByExpiry ==
    {r \in active_runs \ Renewals :
        has_active_claim(runs[r].status) /\ Expired(r)}

Abandoned ==
    {r \in active_runs \ Renewals :
        has_active_claim(runs[r].status) /\ (Expired(r) \/ ~SessionAlive(r))}

\* Mutant: only claimed runs of a merged task fail.
OfTerminalTasksClaimed ==
    {r \in active_runs : runs[r].lane \in over /\ has_active_claim(runs[r].status)}

\* reconcile_task_run_mismatches: a merged task's runs fail, a queued one once
\* it is due.
OfTerminalTasks ==
    {r \in active_runs :
        /\ runs[r].lane \in over
        /\ runs[r].status = "RetryQueued" => retry_is_due_at(runs[r], now)}

Failures ==
    {r \in Abandoned : runs[r].status = "Running"} \cup OfTerminalTasks

\* A failure replaces a retry or a release of the same run, not a renewal.
Plan ==
    {Repair("retry", r) : r \in DueRetries \ Failures}
    \cup {Repair("renew", r) : r \in Renewals}
    \cup {Repair("release", r) :
            r \in {q \in Abandoned : runs[q].status = "Claimed"} \ Failures}
    \cup {Repair("fail", r) : r \in Failures}

Rank == [retry |-> 1, renew |-> 2, release |-> 3, fail |-> 4]

\* decide_retry for a planned failure: TRUE to queue a retry at once, FALSE to
\* fail the run (terminal task, unclaimed run, attempts exhausted).
decide_retry(rec) ==
    /\ rec.lane \notin over
    /\ has_active_claim(rec.status)
    /\ rec.attempt < MaxAttempts

-----------------------------------------------------------------------------
\* reconcile_before_dispatch starts: one snapshot, one now.
StartPass ==
    /\ phase = "idle"
    /\ phase' = "repair"
    /\ seen' = now
    /\ plan' = Plan
    /\ UNCHANGED <<vars, agentVars, cur, prompts>>

\* apply_run_actions takes the repairs kind by kind.
NextRepair(a) ==
    /\ phase = "repair" /\ cur = None
    /\ a \in plan /\ \A b \in plan : Rank[a.do] <= Rank[b.do]

\* Any error but a stale generation ends the tick, and the plan with it.
Abort ==
    /\ phase' = "idle" /\ plan' = {} /\ cur' = None
    /\ UNCHANGED <<vars, agentVars, seen, prompts>>

\* The repair is over; the next one follows.
Done(a) ==
    /\ plan' = plan \ {a} /\ cur' = None
    /\ UNCHANGED <<agentVars, phase, seen, prompts>>

\* apply_run_retry_attempt.  handle_run_store_error passes over a generation
\* that is not the planned one; a due retry has no other way to change.
RetryAttempt(a) ==
    /\ NextRepair(a) /\ a.do = "retry" /\ RetryRun[a.run] # None
    /\ \/ start_retry_attempt(a.run, a.rec.generation, RetryRun[a.run], seen)
       \/ runs[a.run].generation # a.rec.generation /\ UNCHANGED vars
    /\ Done(a)

\* The claim was expired when the pass began, or there was none to fail.
NeedsClaim(a) ==
    \/ claim_is_expired_at(a.rec, seen)
    \/ a.do = "fail" /\ ~has_active_claim(a.rec.status)

\* Mutant: the generation is read again instead of taken from the snapshot.
BeginRepairOfCurrent(a) ==
    /\ NextRepair(a) /\ a.do # "retry"
    /\ cur' = [do |-> IF a.do = "fail" /\ decide_retry(a.rec) THEN "queue" ELSE a.do,
               of |-> a, run |-> a.run, generation |-> runs[a.run].generation,
               stage |-> IF NeedsClaim(a) THEN "claim" ELSE "apply",
               again |-> FALSE]
    /\ UNCHANGED <<vars, agentVars, phase, seen, plan, prompts>>

\* apply_run_renewal, apply_run_release and apply_run_failure begin alike.
BeginRepair(a) ==
    /\ NextRepair(a) /\ a.do # "retry"
    /\ cur' = [do |-> IF a.do = "fail" /\ decide_retry(a.rec) THEN "queue" ELSE a.do,
               of |-> a, run |-> a.run, generation |-> a.rec.generation,
               stage |-> IF NeedsClaim(a) THEN "claim" ELSE "apply",
               again |-> FALSE]
    /\ UNCHANGED <<vars, agentVars, phase, seen, plan, prompts>>

\* claim_run_for_repair: in the owner's name to renew, else in its own.
claim_run_for_repair ==
    LET owner == IF cur.do = "renew" THEN cur.of.rec.owner ELSE Reconciler
    IN  /\ phase = "repair" /\ cur # None /\ cur.stage = "claim"
        /\ \/ /\ claim_run(cur.run, owner, seen, seen + RepairLease)
              /\ cur' = [cur EXCEPT !.stage = "apply",
                                    !.generation = runs'[cur.run].generation]
              /\ UNCHANGED <<agentVars, phase, seen, plan, prompts>>
           \/ ~can_claim(runs[cur.run]) /\ Abort

StoreCall ==
    \/ cur.do = "renew" /\ renew_claim(cur.run, cur.generation)
    \/ cur.do = "release" /\ release_claim(cur.run, cur.generation)
    \/ cur.do = "fail" /\ fail_run(cur.run, cur.generation)
    \/ cur.do = "queue" /\ queue_retry(cur.run, cur.generation, seen)

\* An expired lease is claimed once more; then every error is final.
ApplyRepair ==
    LET rec == runs[cur.run]
        stale == rec.generation # cur.generation
        expired == /\ ~stale /\ has_active_claim(rec.status)
                   /\ claim_is_expired_at(rec, now)
        ended == ~stale /\ ~has_active_claim(rec.status)
    IN  /\ phase = "repair" /\ cur # None /\ cur.stage = "apply"
        /\ \/ StoreCall /\ Done(cur.of)
           \/ stale /\ ~cur.again /\ Done(cur.of) /\ UNCHANGED vars
           \/ /\ expired /\ ~cur.again
              /\ cur' = [cur EXCEPT !.stage = "claim", !.again = TRUE]
              /\ UNCHANGED <<vars, agentVars, phase, seen, plan, prompts>>
           \/ ended /\ Abort
           \/ (stale \/ expired) /\ cur.again /\ Abort

-----------------------------------------------------------------------------
\* continue_active_runs: a new snapshot of the claimed runs.
StartContinuations ==
    /\ phase = "repair" /\ plan = {} /\ cur = None
    /\ phase' = "continue"
    /\ seen' = now
    /\ plan' = {Repair("prompt", r) :
                    r \in {q \in active_runs : has_active_claim(runs[q].status)}}
    /\ UNCHANGED <<vars, agentVars, cur, prompts>>

\* decide_continuation; the session's health and how long the run has been
\* idle are left open.
decide_continuation(rec) ==
    /\ rec.lane \notin over
    /\ rec.owner # Reconciler /\ working[rec.owner] = rec.lane
    /\ rec.turns < MaxTurnsPerRun

SkipContinuation(a) ==
    /\ phase = "continue" /\ cur = None /\ a \in plan
    /\ Done(a) /\ UNCHANGED vars

\* send_continuation_prompt: the prompt goes out, then the turn is recorded.
SendPrompt(a) ==
    /\ phase = "continue" /\ cur = None /\ a \in plan
    /\ decide_continuation(a.rec)
    /\ prompts[a.run] < MaxPrompts
    /\ prompts' = [prompts EXCEPT ![a.run] = @ + 1]
    /\ cur' = [of |-> a, run |-> a.run]
    /\ UNCHANGED <<vars, agentVars, phase, seen, plan>>

RecordTurn ==
    LET a == cur.of
    IN  /\ phase = "continue" /\ cur # None
        /\ \/ /\ record_continuation(a.run, a.rec.generation, a.rec.turns + 1)
              /\ Done(a)
           \/ ~ensure_current(a.run, a.rec.generation) /\ Abort

EndTick ==
    /\ phase = "continue" /\ plan = {} /\ cur = None
    /\ phase' = "idle"
    /\ UNCHANGED <<vars, agentVars, seen, plan, cur, prompts>>

Pass ==
    \/ StartPass
    \/ \E a \in plan : \/ RetryAttempt(a) \/ BeginRepair(a)
                       \/ SkipContinuation(a) \/ SendPrompt(a)
    \/ claim_run_for_repair
    \/ ApplyRepair
    \/ StartContinuations
    \/ RecordTurn
    \/ EndTick

-----------------------------------------------------------------------------
\* The agents, between any two steps of a pass.

RunVars == UNCHANGED <<passVars, prompts>>

\* A fresh run on a lane; retries get their own ids.
NewRun(r, l) ==
    /\ \A q \in RunId : RetryRun[q] # r
    /\ CreateFresh(r, l)
    /\ UNCHANGED agentVars /\ RunVars

\* The agent's session creates the run already running.
AgentStarts(a, r, l) ==
    /\ a \in alive /\ working[a] = l /\ held[a] = None
    /\ \A q \in RunId : RetryRun[q] # r
    /\ CreateRunning(r, l, a, now + AgentLease)
    /\ held' = [held EXCEPT ![a] = <<r, 1>>]
    /\ UNCHANGED <<alive, working, over>> /\ RunVars

AgentClaims(a, r) ==
    /\ a \in alive /\ held[a] = None
    /\ runs[r] # None /\ working[a] = runs[r].lane
    /\ runs[r].generation < MaxAgentClaims
    /\ claim_run(r, a, now, now + AgentLease)
    /\ held' = [held EXCEPT ![a] = <<r, runs'[r].generation>>]
    /\ UNCHANGED <<alive, working, over>> /\ RunVars

AgentRenews(a) ==
    /\ a \in alive /\ held[a] # None
    /\ renew_claim(held[a][1], held[a][2])
    /\ UNCHANGED agentVars /\ RunVars

\* Done, or put back, or found out that the claim is no longer its own.
AgentEnds(a) ==
    LET r == held[a][1]  g == held[a][2] IN
    /\ a \in alive /\ held[a] # None
    /\ \/ complete_run(r, g)
       \/ release_claim(r, g)
       \/ ~ensure_current(r, g) /\ UNCHANGED vars
    /\ held' = [held EXCEPT ![a] = None]
    /\ UNCHANGED <<alive, working, over>> /\ RunVars

\* Board and pool, between the passes.
WorkAssigned(a, l) ==
    /\ phase = "idle" /\ a \in alive /\ working[a] = None /\ l \notin over
    /\ \A b \in Agents : working[b] # l
    /\ working' = [working EXCEPT ![a] = l]
    /\ UNCHANGED <<vars, held, alive, over>> /\ RunVars

WorkTaken(a) ==
    /\ phase = "idle" /\ working[a] # None
    /\ working' = [working EXCEPT ![a] = None]
    /\ UNCHANGED <<vars, held, alive, over>> /\ RunVars

AgentDies(a) ==
    /\ phase = "idle" /\ a \in alive
    /\ alive' = alive \ {a}
    /\ UNCHANGED <<vars, held, working, over>> /\ RunVars

TaskMerged(l) ==
    /\ phase = "idle" /\ l \notin over
    /\ over' = over \cup {l}
    /\ UNCHANGED <<vars, held, alive, working>> /\ RunVars

Clock == Tick /\ UNCHANGED agentVars /\ RunVars

RepairInit ==
    /\ Init
    /\ held = [a \in Agents |-> None]
    /\ alive = Agents
    /\ working = [a \in Agents |-> None]
    /\ over = {}
    /\ phase = "idle" /\ seen = 0 /\ plan = {} /\ cur = None
    /\ prompts = [r \in RunId |-> 0]

RepairNext ==
    \/ Pass
    \/ \E r \in RunId, l \in Lane : NewRun(r, l)
    \/ \E a \in Agents, r \in RunId : AgentClaims(a, r)
    \/ \E a \in Agents, r \in RunId, l \in Lane : AgentStarts(a, r, l)
    \/ \E a \in Agents : AgentRenews(a) \/ AgentEnds(a) \/ WorkTaken(a) \/ AgentDies(a)
    \/ \E a \in Agents, l \in Lane : WorkAssigned(a, l)
    \/ \E l \in Lane : TaskMerged(l)
    \/ Clock

RepairSpec == RepairInit /\ [][RepairNext]_allVars

\* The orchestrator's loop keeps ticking.
FairRepairSpec == RepairSpec /\ WF_allVars(Pass)

-----------------------------------------------------------------------------
Working(r) ==
    /\ runs[r] # None /\ has_active_claim(runs[r].status)
    /\ ~Expired(r) /\ ActiveOperation(r) /\ runs[r].lane \notin over

\* Variables of the passes have their shapes; records are RunStore's.
RepairTypeOK ==
    /\ TypeOK
    /\ held \in [Agents -> (RunId \X (1 .. MaxGeneration)) \cup {None}]
    /\ alive \subseteq Agents /\ over \subseteq Lane
    /\ working \in [Agents -> Lane \cup {None}]
    /\ phase \in {"idle", "repair", "continue"} /\ seen \in 0 .. now
    /\ \A a \in plan : a.run \in RunId /\ a.rec \in RunRecord
    /\ cur # None => cur.of \in plan
    /\ prompts \in [RunId -> 0 .. MaxPrompts]

\* A pass never takes a run from an agent at work: whatever was claimed,
\* expired or handed over since the snapshot, apply_run_release,
\* apply_run_failure and claim_run_for_repair only end or move claims that no
\* live session holds under an unexpired lease.
WorkIsNotTaken ==
    [][Pass => \A r \in RunId : Working(r) =>
        /\ runs'[r].owner = runs[r].owner
        /\ runs'[r].generation = runs[r].generation
        /\ has_active_claim(runs'[r].status)]_allVars

\* A claim whose session is gone does not stay: some pass ends it, although
\* every store error gives the rest of a pass's plan up.
OrphansAreRepaired ==
    \A r \in RunId :
        (is_active(runs[r]) /\ has_active_claim(runs[r].status) /\ ~SessionAlive(r))
            ~> ~(is_active(runs[r]) /\ has_active_claim(runs[r].status) /\ ~SessionAlive(r))

\* A merged task keeps no active run: the pass fails them all in the end.
MergedTasksHaveNoRuns ==
    \A r \in RunId :
        (is_active(runs[r]) /\ runs[r].lane \in over) ~> ~is_active(runs[r])

\* A queued retry does not stay queued: it is started, claimed, or failed with
\* its task, one pass's abort after another's.
QueuedRetriesEnd ==
    \A r \in RunId :
        (runs[r] # None /\ runs[r].status = "RetryQueued")
            ~> ~(runs[r] # None /\ runs[r].status = "RetryQueued")
=============================================================================
