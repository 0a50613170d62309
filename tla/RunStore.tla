------------------------------ MODULE RunStore ------------------------------
(***************************************************************************)
(* The durable run store: run records, the claim that at most one owner    *)
(* has on a run, and the marker that keeps one non-terminal run per        *)
(* (task, role) lane.  Every operation of RunStoreManager runs under       *)
(* mutation_lock and commits one SyncAll batch, so each is one atomic      *)
(* step; an operation that returns an error leaves the store as it was.    *)
(*                                                                         *)
(* Callers supply the claim generation they believe in, which may be any   *)
(* generation.  Timestamps that are only recorded (updated_at, failed_at,  *)
(* ...) and the owner, session and task indexes are left out.              *)
(***************************************************************************)
EXTENDS Integers

CONSTANTS
    RunId,          \* run identifiers
    Lane,           \* (task, role) pairs
    Owner,          \* claim owners
    None,           \* an absent Option value
    MaxTime,        \* bound: last instant of the wall clock
    MaxGeneration,  \* bound: u64::MAX in the code, where next() saturates
    MaxAttempt,     \* bound: u32::MAX in the code, where attempt saturates
    MaxTurns,       \* bound on continuation turns (u32 in the code)
    RenewalTime     \* DEFAULT_RENEWAL_SECONDS

ASSUME BoundsAssumption ==
    /\ MaxTime \in Nat /\ MaxGeneration \in Nat /\ MaxGeneration > 0
    /\ MaxAttempt \in Nat /\ MaxAttempt > 0 /\ MaxTurns \in Nat
    /\ RenewalTime \in Nat \ {0}

VARIABLES
    runs,      \* RunId -> record, or None when the id is unused
    marker,    \* active-task-role key of each lane: the run it names, or None
    active,    \* runs with an active-role index key
    now,       \* Utc::now()
    promised,  \* history: per lane, until when the last claim was promised
    retryOf    \* history: per run, the queued run it was started from

vars == <<runs, marker, active, now, promised, retryOf>>

Time == 0 .. MaxTime
RunStatus == {"Created", "Claimed", "Running", "Released", "RetryQueued",
              "Completed", "Failed", "Abandoned"}

\* RunRecord, as far as the store reads it back.
RunRecord ==
    [lane : Lane, status : RunStatus, generation : 0 .. MaxGeneration,
     owner : Owner \cup {None}, lease : Nat \cup {None},
     attempt : 1 .. MaxAttempt, retry_at : Time \cup {None},
     turns : 0 .. MaxTurns]

ASSUME NoneAssumption ==
    /\ None \notin RunId /\ None \notin Owner /\ None \notin Int
    /\ None \notin RunRecord

-----------------------------------------------------------------------------
is_terminal(s) == s \in {"Completed", "Failed", "Abandoned"}

has_active_claim(s) == s \in {"Claimed", "Running"}

\* A stored run that is not terminal.
is_active(rec) == rec # None /\ ~is_terminal(rec.status)

claim_is_expired_at(rec, t) == rec.lease # None /\ rec.lease <= t

retry_is_due_at(rec, t) ==
    /\ rec.status = "RetryQueued"
    /\ rec.retry_at # None => rec.retry_at <= t

\* Mutant: a live lease does not stop another claim.
can_claim_over_lease(rec) ==
    \/ rec.status \in {"Created", "Released"}
    \/ retry_is_due_at(rec, now)
    \/ has_active_claim(rec.status)

can_claim(rec) ==
    \/ rec.status \in {"Created", "Released"}
    \/ retry_is_due_at(rec, now)
    \/ has_active_claim(rec.status) /\ claim_is_expired_at(rec, now)

\* RunRecord::new
NewRecord(l) ==
    [lane |-> l, status |-> "Created", generation |-> 0, owner |-> None,
     lease |-> None, attempt |-> 1, retry_at |-> None, turns |-> 0]

clear_claim(rec) == [rec EXCEPT !.owner = None, !.lease = None]

\* Mutant: only a claimed run counts as occupying the lane.
find_claimed_duplicate(r, l) ==
    /\ marker[l] \notin {None, r}
    /\ runs[marker[l]] # None /\ has_active_claim(runs[marker[l]].status)

\* The run, other than r, that already occupies lane l.
find_active_duplicate(r, l) ==
    /\ marker[l] \notin {None, r}
    /\ is_active(runs[marker[l]])

\* Mutant: generation and lease are checked, the status is not.
ensure_current_any_status(r, g) ==
    /\ runs[r] # None
    /\ runs[r].generation = g
    /\ ~claim_is_expired_at(runs[r], now)

\* The caller holds the current generation of a claim that is still running.
ensure_current(r, g) ==
    /\ runs[r] # None
    /\ runs[r].generation = g
    /\ has_active_claim(runs[r].status)
    /\ ~claim_is_expired_at(runs[r], now)

\* One batch: the previous record's index keys go, the new record's come.
commit_record(r, rec) ==
    /\ runs' = [runs EXCEPT ![r] = rec]
    /\ marker' = [marker EXCEPT ![rec.lane] =
                    IF is_active(rec) THEN r
                    ELSE IF is_active(runs[r]) THEN None ELSE @]
    /\ active' = IF is_active(rec) THEN active \cup {r} ELSE active \ {r}

Promise(l, t) == promised' = [promised EXCEPT ![l] = t]

-----------------------------------------------------------------------------
\* create_run, with a fresh record or with one already running (generation 1).
create_run(r, l, rec) ==
    /\ runs[r] = None
    /\ ~find_active_duplicate(r, l)
    /\ commit_record(r, rec)
    /\ IF has_active_claim(rec.status) THEN Promise(l, rec.lease)
                                       ELSE UNCHANGED promised
    /\ UNCHANGED <<now, retryOf>>

CreateFresh(r, l) == create_run(r, l, NewRecord(l))

CreateRunning(r, l, o, until) ==
    create_run(r, l, [NewRecord(l) EXCEPT !.status = "Running",
                        !.generation = 1, !.owner = o, !.lease = until])

\* claim_run: claimed_at and lease_expires_at are the caller's.
claim_run(r, o, claimed_at, until) ==
    /\ runs[r] # None
    /\ runs[r].status = "RetryQueued" => retry_is_due_at(runs[r], claimed_at)
    /\ can_claim(runs[r])
    /\ runs[r].generation < MaxGeneration
    /\ commit_record(r, [runs[r] EXCEPT !.status = "Claimed",
                            !.generation = @ + 1, !.owner = o,
                            !.lease = until])
    /\ Promise(runs[r].lane, until)
    /\ UNCHANGED <<now, retryOf>>

renew_claim(r, g) ==
    /\ ensure_current(r, g)
    /\ commit_record(r, [runs[r] EXCEPT !.lease = now + RenewalTime])
    /\ Promise(runs[r].lane, now + RenewalTime)
    /\ UNCHANGED <<now, retryOf>>

\* What release, completion, failure and retry queueing share: the claim ends.
EndClaim(r, g, rec) ==
    /\ ensure_current(r, g)
    /\ commit_record(r, clear_claim(rec))
    /\ Promise(runs[r].lane, now)
    /\ UNCHANGED <<now, retryOf>>

release_claim(r, g) == EndClaim(r, g, [runs[r] EXCEPT !.status = "Released"])

complete_run(r, g) == EndClaim(r, g, [runs[r] EXCEPT !.status = "Completed"])

fail_run(r, g) == EndClaim(r, g, [runs[r] EXCEPT !.status = "Failed"])

queue_retry(r, g, retry_at) ==
    EndClaim(r, g, [runs[r] EXCEPT !.status = "RetryQueued",
                                   !.retry_at = retry_at])

record_continuation(r, g, turn) ==
    /\ ensure_current(r, g)
    /\ turn = runs[r].turns + 1
    /\ turn <= MaxTurns
    /\ commit_record(r, [runs[r] EXCEPT !.turns = turn])
    /\ UNCHANGED <<now, promised, retryOf>>

\* Mutant: the next attempt is created, the queued run left as it is.
start_retry_keeping_queued(r, g, new, created_at) ==
    /\ runs[r] # None
    /\ runs[r].generation = g
    /\ runs[r].status = "RetryQueued"
    /\ runs[new] = None
    /\ runs[r].attempt < MaxAttempt
    /\ runs' = [runs EXCEPT ![new] = [NewRecord(runs[r].lane) EXCEPT
                                        !.attempt = runs[r].attempt + 1]]
    /\ marker' = [marker EXCEPT ![runs[r].lane] = new]
    /\ active' = active \cup {new}
    /\ retryOf' = [retryOf EXCEPT ![new] = r]
    /\ UNCHANGED <<now, promised>>

\* The queued run fails for good and the next attempt takes its lane.
start_retry_attempt(r, g, new, created_at) ==
    /\ runs[r] # None
    /\ runs[r].generation = g
    /\ runs[r].status = "RetryQueued"
    /\ runs[r].retry_at # None => runs[r].retry_at <= created_at
    /\ runs[new] = None
    /\ runs[r].attempt < MaxAttempt
    /\ ~(find_active_duplicate(new, runs[r].lane) /\ marker[runs[r].lane] # r)
    /\ runs' = [runs EXCEPT ![r].status = "Failed",
                            ![new] = [NewRecord(runs[r].lane) EXCEPT
                                        !.attempt = runs[r].attempt + 1]]
    /\ marker' = [marker EXCEPT ![runs[r].lane] = new]
    /\ active' = (active \ {r}) \cup {new}
    /\ retryOf' = [retryOf EXCEPT ![new] = r]
    /\ UNCHANGED <<now, promised>>

\* active_runs(): what the reconciler and the continuation pass are given.
active_runs == {r \in active : is_active(runs[r])}

Tick ==
    /\ now < MaxTime
    /\ now' = now + 1
    /\ UNCHANGED <<runs, marker, active, promised, retryOf>>

-----------------------------------------------------------------------------
Init ==
    /\ runs = [r \in RunId |-> None]
    /\ marker = [l \in Lane |-> None]
    /\ active = {}
    /\ now = 0
    /\ promised = [l \in Lane |-> 0]
    /\ retryOf = [r \in RunId |-> None]

Holder(r) ==
    \E g \in 0 .. MaxGeneration :
        \/ renew_claim(r, g)
        \/ release_claim(r, g)
        \/ complete_run(r, g)
        \/ fail_run(r, g)
        \/ \E t \in Time : queue_retry(r, g, t)
        \/ \E turn \in 1 .. MaxTurns : record_continuation(r, g, turn)

Next ==
    \/ \E r \in RunId, l \in Lane : CreateFresh(r, l)
    \/ \E r \in RunId, l \in Lane, o \in Owner, t \in Time :
            CreateRunning(r, l, o, t)
    \/ \E r \in RunId, o \in Owner, at \in Time, t \in Time :
            claim_run(r, o, at, t)
    \/ \E r \in RunId : Holder(r)
    \/ \E r, new \in RunId, g \in 0 .. MaxGeneration, t \in Time :
            start_retry_attempt(r, g, new, t)
    \/ Tick

Spec == Init /\ [][Next]_vars

-----------------------------------------------------------------------------
\* Every variable has the shape the store's keys give it.
TypeOK ==
    /\ runs \in [RunId -> RunRecord \cup {None}]
    /\ marker \in [Lane -> RunId \cup {None}]
    /\ active \in SUBSET RunId
    /\ now \in Time
    /\ promised \in [Lane -> Nat]
    /\ retryOf \in [RunId -> RunId \cup {None}]

\* A lane never has two non-terminal runs, whatever the callers interleave:
\* DuplicateActiveClaim in create_run and start_retry_attempt, which trust the
\* marker alone, are enough.
OneActiveRunPerLane ==
    \A r, s \in RunId :
        (is_active(runs[r]) /\ is_active(runs[s]) /\ runs[r].lane = runs[s].lane)
            => r = s

\* The index keys agree with the records: a lane's marker names exactly its
\* non-terminal run and active_runs() misses none and invents none.
IndexesMatchRecords ==
    /\ \A l \in Lane, r \in RunId :
            marker[l] = r <=> (is_active(runs[r]) /\ runs[r].lane = l)
    /\ active_runs = {r \in RunId : is_active(runs[r])}

\* A claim is granted on a lane only once the previous claim on that lane, of
\* whichever run, was ended by its holder or ran out: leases of a lane never
\* overlap, across releases, retries and fresh runs.
ClaimsNeverOverlap ==
    [][\A r \in RunId :
        ( /\ runs'[r] # None
          /\ has_active_claim(runs'[r].status)
          /\ runs[r] = None \/ runs'[r].generation # runs[r].generation )
            => promised[runs'[r].lane] <= now]_vars

\* A terminal record is never changed again ("no later mutation should
\* reactivate this run"), and a generation never goes back.
TerminalIsFinal ==
    [][\A r \in RunId : runs[r] # None =>
        /\ runs'[r] # None
        /\ runs'[r].generation >= runs[r].generation
        /\ is_terminal(runs[r].status) => runs'[r] = runs[r]]_vars

\* A queued retry is consumed once: no two attempts are started from the same
\* run, the run they came from is Failed, and attempts number the chain.
RetryConsumedOnce ==
    \A r \in RunId : retryOf[r] # None =>
        /\ runs[retryOf[r]].status = "Failed"
        /\ runs[r].attempt = runs[retryOf[r]].attempt + 1
        /\ \A s \in RunId : retryOf[s] = retryOf[r] => s = r
=============================================================================
