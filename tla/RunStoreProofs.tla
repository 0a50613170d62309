--------------------------- MODULE RunStoreProofs ---------------------------
(***************************************************************************)
(* The run store's safety properties, for any sets of runs, lanes and      *)
(* owners and any bounds.  The inductive invariant adds to the properties  *)
(* what the lane markers and the promised leases mean: a marker names the  *)
(* lane's non-terminal run and nothing else, and a lane without a claimed  *)
(* run has no lease running.  Then the same with the repair passes of the  *)
(* orchestrator, which act on old snapshots: what a plan knows of its runs *)
(* stays true, and so no pass takes a run from an agent at work.           *)
(***************************************************************************)
EXTENDS RunRepair, TLAPS

\* The index keys, in the two directions the operations rely on.
IndexInv ==
    /\ \A r \in RunId : is_active(runs[r]) => marker[runs[r].lane] = r
    /\ \A l \in Lane : marker[l] # None =>
            is_active(runs[marker[l]]) /\ runs[marker[l]].lane = l
    /\ active = {r \in RunId : is_active(runs[r])}

Claimed(r) == runs[r] # None /\ has_active_claim(runs[r].status)

\* What is promised on a lane is the lease of its claimed run, if there is one.
PromiseInv ==
    /\ \A r \in RunId : Claimed(r) =>
            runs[r].lease \in Nat /\ promised[runs[r].lane] = runs[r].lease
    /\ \A l \in Lane :
            (\A r \in RunId : ~(Claimed(r) /\ runs[r].lane = l))
                => promised[l] <= now

\* A started attempt and the run it came from are both stored.
RetryInv ==
    /\ RetryConsumedOnce
    /\ \A r \in RunId : retryOf[r] # None =>
            runs[r] # None /\ runs[retryOf[r]] # None

Inv == TypeOK /\ IndexInv /\ PromiseInv /\ RetryInv

\* An operation writes a well-formed record for one run: into an id that was
\* free, on a lane found unoccupied, or over a record of the same lane that it
\* does not bring back from a terminal status.
Write(r, rec) ==
    /\ rec \in RunRecord
    /\ commit_record(r, rec)
    /\ \/ runs[r] = None /\ ~find_active_duplicate(r, rec.lane)
       \/ /\ runs[r] # None /\ rec.lane = runs[r].lane
          /\ ~is_terminal(runs[r].status)
          /\ rec.generation >= runs[r].generation

-----------------------------------------------------------------------------
\* commit_record keeps the stored state well formed.
LEMMA WriteType ==
    ASSUME TypeOK, NEW r \in RunId, NEW rec, Write(r, rec)
    PROVE  /\ runs' \in [RunId -> RunRecord \cup {None}]
           /\ marker' \in [Lane -> RunId \cup {None}]
           /\ active' \in SUBSET RunId
  BY DEF TypeOK, Write, commit_record, RunRecord

\* Where an operation writes, no other run of the lane is active.
LEMMA LaneIsFree ==
    ASSUME TypeOK, IndexInv, NEW r \in RunId, NEW rec, Write(r, rec)
    PROVE  \A s \in RunId \ {r} : is_active(runs[s]) => runs[s].lane # rec.lane
  BY NoneAssumption DEF Write, IndexInv, TypeOK, RunRecord, find_active_duplicate,
                        is_active

\* commit_record keeps markers and index keys in step with the records.
LEMMA WriteIndexes ==
    ASSUME TypeOK, IndexInv, NEW r \in RunId, NEW rec, Write(r, rec)
    PROVE  IndexInv'
  <1> rec \in RunRecord /\ rec.lane \in Lane /\ rec # None
    BY NoneAssumption DEF Write, RunRecord
  <1>1. \A s \in RunId : runs'[s] = IF s = r THEN rec ELSE runs[s]
    BY DEF TypeOK, Write, commit_record
  <1>2. \A l \in Lane : l # rec.lane => marker'[l] = marker[l]
    BY DEF TypeOK, Write, commit_record
  <1>3. marker'[rec.lane] = IF is_active(rec) THEN r
                            ELSE IF is_active(runs[r]) THEN None
                                 ELSE marker[rec.lane]
    BY DEF TypeOK, Write, commit_record
  <1>4. \A s \in RunId \ {r} : is_active(runs[s]) => runs[s].lane # rec.lane
    BY LaneIsFree
  <1>5. \A s \in RunId : is_active(runs'[s]) => marker'[runs'[s].lane] = s
    <2> SUFFICES ASSUME NEW s \in RunId, is_active(runs'[s])
                 PROVE  marker'[runs'[s].lane] = s
      OBVIOUS
    <2>1. CASE s = r
      BY <2>1, <1>1, <1>3
    <2>2. CASE s # r
      <3>1. runs'[s] = runs[s] /\ runs[s].lane \in Lane
        BY <2>2, <1>1 DEF TypeOK, RunRecord, is_active
      <3> QED BY <2>2, <3>1, <1>2, <1>4 DEF IndexInv
    <2> QED BY <2>1, <2>2
  <1>6. \A l \in Lane : marker'[l] # None =>
            is_active(runs'[marker'[l]]) /\ runs'[marker'[l]].lane = l
    BY <1>1, <1>2, <1>3, <1>4, NoneAssumption
       DEF IndexInv, TypeOK, RunRecord, is_active, Write
  <1>7. active' = {s \in RunId : is_active(runs'[s])}
    BY <1>1 DEF Write, commit_record, IndexInv, TypeOK
  <1> QED BY <1>5, <1>6, <1>7 DEF IndexInv, is_active, is_terminal

\* commit_record leaves chains of attempts as they are, as long as the attempt
\* number of a stored run is kept.
LEMMA WriteRetry ==
    ASSUME TypeOK, RetryInv, NEW r \in RunId, NEW rec, Write(r, rec),
           runs[r] # None => rec.attempt = runs[r].attempt,
           retryOf' = retryOf
    PROVE  RetryInv'
  <1>1. \A s \in RunId : runs'[s] = IF s = r THEN rec ELSE runs[s]
    BY DEF TypeOK, Write, commit_record
  <1>2. rec # None
    BY NoneAssumption DEF Write
  <1>3. \A s \in RunId : runs[s] # None =>
            /\ runs'[s] # None
            /\ runs'[s].attempt = runs[s].attempt
            /\ runs[s].status = "Failed" => runs'[s] = runs[s]
    BY <1>1, <1>2 DEF Write, is_terminal
  <1>4. \A s \in RunId : retryOf[s] # None => retryOf[s] \in RunId
    BY DEF TypeOK
  <1> SUFFICES ASSUME NEW s \in RunId, retryOf[s] # None
               PROVE  /\ runs'[s] # None /\ runs'[retryOf[s]] # None
                      /\ runs'[retryOf[s]].status = "Failed"
                      /\ runs'[s].attempt = runs'[retryOf[s]].attempt + 1
                      /\ \A t \in RunId : retryOf[t] = retryOf[s] => t = s
    BY DEF RetryInv, RetryConsumedOnce
  <1> QED BY <1>3, <1>4 DEF RetryInv, RetryConsumedOnce

\* The promise follows the write: the lease of a claimed record, and nothing
\* beyond the present for any other.
LEMMA WritePromise ==
    ASSUME TypeOK, IndexInv, PromiseInv, NEW r \in RunId, NEW rec, Write(r, rec),
           now' = now, NEW p \in Nat,
           promised' = [promised EXCEPT ![rec.lane] = p],
           has_active_claim(rec.status) => rec.lease = p,
           ~has_active_claim(rec.status) => p <= now
    PROVE  PromiseInv' /\ promised' \in [Lane -> Nat]
  <1>1. \A s \in RunId : runs'[s] = IF s = r THEN rec ELSE runs[s]
    BY DEF TypeOK, Write, commit_record
  <1>2. rec # None /\ rec.lane \in Lane
    BY NoneAssumption DEF Write, RunRecord
  <1>3. \A s \in RunId \ {r} : Claimed(s) => runs[s].lane # rec.lane
    BY LaneIsFree DEF Claimed, is_active, is_terminal, has_active_claim
  <1>4. Claimed(r) => runs[r].lane = rec.lane
    BY DEF Write, Claimed
  <1>5. \A l \in Lane : promised'[l] = IF l = rec.lane THEN p ELSE promised[l]
    BY DEF TypeOK
  <1>6. ASSUME NEW s \in RunId, Claimed(s)'
        PROVE  runs'[s].lease \in Nat /\ promised'[runs'[s].lane] = runs'[s].lease
    <2>1. CASE s = r
      BY <2>1, <1>1, <1>2, <1>5, <1>6 DEF Claimed, has_active_claim
    <2>2. CASE s # r
      <3>1. Claimed(s) /\ runs'[s] = runs[s] /\ runs[s].lane \in Lane
        BY <2>2, <1>1, <1>6 DEF Claimed, has_active_claim, TypeOK, RunRecord
      <3> QED BY <3>1, <2>2, <1>3, <1>5 DEF PromiseInv
    <2> QED BY <2>1, <2>2
  <1>7. ASSUME NEW l \in Lane, \A s \in RunId : ~(Claimed(s)' /\ runs'[s].lane = l)
        PROVE  promised'[l] <= now'
    <2>1. CASE l = rec.lane
      <3>1. ~has_active_claim(rec.status)
        BY <2>1, <1>7, <1>1, <1>2 DEF Claimed, has_active_claim
      <3> QED BY <3>1, <2>1, <1>5
    <2>2. CASE l # rec.lane
      <3>1. \A s \in RunId : ~(Claimed(s) /\ runs[s].lane = l)
        BY <2>2, <1>1, <1>4, <1>7 DEF Claimed, has_active_claim
      <3> QED BY <3>1, <2>2, <1>5 DEF PromiseInv
    <2> QED BY <2>1, <2>2
  <1>8. promised' \in [Lane -> Nat]
    BY Zenon DEF TypeOK
  <1> QED BY <1>6, <1>7, <1>8 DEF PromiseInv

\* What every operation but start_retry_attempt is: a write that keeps the
\* attempt number, promises p, grants a claim only on a lane where the last
\* promise has passed, and under a new generation.
Writes(r, rec, p) ==
    /\ Write(r, rec)
    /\ runs[r] # None => rec.attempt = runs[r].attempt
    /\ UNCHANGED <<now, retryOf>>
    /\ p \in Nat
    /\ promised' = [promised EXCEPT ![rec.lane] = p]
    /\ has_active_claim(rec.status) => rec.lease = p
    /\ ~has_active_claim(rec.status) => p <= now
    /\ (has_active_claim(rec.status)
            /\ (runs[r] = None \/ rec.generation # runs[r].generation))
        => promised[rec.lane] <= now
    /\ (/\ runs[r] # None /\ has_active_claim(rec.status)
        /\ rec.generation = runs[r].generation)
        => has_active_claim(runs[r].status) /\ rec.owner = runs[r].owner

LEMMA WriteStep ==
    ASSUME Inv, NEW r \in RunId, NEW rec, NEW p, Writes(r, rec, p)
    PROVE  Inv'
  <1> USE DEF Writes
  <1>1. IndexInv'
    BY WriteIndexes DEF Inv
  <1>2. RetryInv'
    BY WriteRetry DEF Inv
  <1>3. PromiseInv' /\ promised' \in [Lane -> Nat]
    BY WritePromise, Zenon DEF Inv
  <1>4. TypeOK'
    BY WriteType, <1>3 DEF Inv, TypeOK
  <1> QED BY <1>1, <1>2, <1>3, <1>4 DEF Inv

-----------------------------------------------------------------------------
\* A mutation by the holder of the current claim writes over a claimed record.
LEMMA HolderWrites ==
    ASSUME TypeOK, PromiseInv, NEW r \in RunId, NEW g, ensure_current(r, g)
    PROVE  /\ runs[r] \in RunRecord /\ runs[r] # None
           /\ ~is_terminal(runs[r].status)
           /\ Claimed(r) /\ runs[r].lease \in Nat
           /\ promised[runs[r].lane] = runs[r].lease
  BY DEF TypeOK, PromiseInv, ensure_current, Claimed, is_terminal, has_active_claim

\* Ending a claim keeps the invariant, whatever non-claimed status it leaves.
LEMMA EndClaimStep ==
    ASSUME Inv, NEW r \in RunId, NEW g, NEW rec \in RunRecord,
           EndClaim(r, g, rec), rec.lane = runs[r].lane,
           rec.attempt = runs[r].attempt, rec.generation = runs[r].generation,
           ~has_active_claim(rec.status)
    PROVE  \E w, p : Writes(r, w, p)
  <1> DEFINE new == clear_claim(rec)
  <1>1. runs[r] \in RunRecord /\ runs[r] # None /\ ~is_terminal(runs[r].status)
    BY HolderWrites DEF Inv, EndClaim
  <1>2. /\ new \in RunRecord /\ new.lane = runs[r].lane
        /\ new.attempt = runs[r].attempt /\ new.status = rec.status
        /\ new.generation = runs[r].generation
    BY Zenon DEF clear_claim, RunRecord
  <1>3. Write(r, new)
    BY <1>1, <1>2, SMTT(30) DEF EndClaim, Write, RunRecord
  <1>4. now \in Nat
    BY BoundsAssumption DEF Inv, TypeOK, Time
  <1>5. promised' = [promised EXCEPT ![new.lane] = now] /\ UNCHANGED <<now, retryOf>>
    BY <1>2 DEF EndClaim, Promise
  <1> HIDE DEF new
  <1>6. ~has_active_claim(new.status) /\ now <= now
    BY <1>2, <1>4
  <1>7. Writes(r, new, now)
    BY <1>1, <1>2, <1>3, <1>4, <1>5, <1>6, Zenon DEF Writes
  <1> QED BY <1>7

\* Release, completion and failure end the claim.
LEMMA EndsClaim ==
    ASSUME Inv, NEW r \in RunId, NEW g,
           release_claim(r, g) \/ complete_run(r, g) \/ fail_run(r, g)
    PROVE  \E w, p : Writes(r, w, p)
  <1>1. ensure_current(r, g)
    BY DEF release_claim, complete_run, fail_run, EndClaim
  <1>2. runs[r] \in RunRecord
    BY <1>1, HolderWrites DEF Inv
  <1>3. ASSUME NEW s \in {"Released", "Completed", "Failed"},
               EndClaim(r, g, [runs[r] EXCEPT !.status = s])
        PROVE  \E w, p : Writes(r, w, p)
    <2> DEFINE ended == [runs[r] EXCEPT !.status = s]
    <2>1. /\ ended \in RunRecord /\ ended.lane = runs[r].lane
          /\ ended.attempt = runs[r].attempt
          /\ ended.generation = runs[r].generation
          /\ ~has_active_claim(ended.status)
      BY <1>2 DEF RunRecord, RunStatus, has_active_claim
    <2> QED BY <1>3, <2>1, EndClaimStep, Zenon
  <1> QED BY <1>3 DEF release_claim, complete_run, fail_run

\* So does queueing a retry.
LEMMA QueuesRetry ==
    ASSUME Inv, NEW r \in RunId, NEW g, NEW t \in Time, queue_retry(r, g, t)
    PROVE  \E w, p : Writes(r, w, p)
  <1> DEFINE queued == [runs[r] EXCEPT !.status = "RetryQueued", !.retry_at = t]
  <1>1. runs[r] \in RunRecord
    BY HolderWrites DEF Inv, queue_retry, EndClaim
  <1>2. /\ queued \in RunRecord /\ queued.lane = runs[r].lane
        /\ queued.attempt = runs[r].attempt
        /\ queued.generation = runs[r].generation
        /\ ~has_active_claim(queued.status)
    BY <1>1 DEF RunRecord, RunStatus, has_active_claim
  <1> QED BY <1>2, EndClaimStep, Zenon DEF queue_retry

\* Renewal keeps the claim, with a new lease.
LEMMA Renews ==
    ASSUME Inv, NEW r \in RunId, NEW g, renew_claim(r, g)
    PROVE  \E w, p : Writes(r, w, p)
  <1> DEFINE rec == [runs[r] EXCEPT !.lease = now + RenewalTime]
  <1>1. /\ runs[r] \in RunRecord /\ runs[r] # None
        /\ ~is_terminal(runs[r].status) /\ has_active_claim(runs[r].status)
    BY HolderWrites DEF Inv, Claimed, renew_claim
  <1>2. now + RenewalTime \in Nat
    BY BoundsAssumption DEF Inv, TypeOK, Time
  <1>3. /\ rec \in RunRecord /\ rec.lane = runs[r].lane /\ rec.status = runs[r].status
        /\ rec.attempt = runs[r].attempt /\ rec.lease = now + RenewalTime
        /\ rec.generation = runs[r].generation /\ rec.owner = runs[r].owner
    BY <1>1, <1>2 DEF RunRecord
  <1>4. Write(r, rec)
    BY <1>1, <1>3 DEF renew_claim, Write, RunRecord
  <1>5. promised' = [promised EXCEPT ![rec.lane] = now + RenewalTime]
        /\ UNCHANGED <<now, retryOf>>
    BY <1>3 DEF renew_claim, Promise
  <1> HIDE DEF rec
  <1>6. Writes(r, rec, now + RenewalTime)
    BY <1>1, <1>2, <1>3, <1>4, <1>5, Zenon DEF Writes
  <1> QED BY <1>6

\* A recorded continuation keeps the claim and its lease.
LEMMA Continues ==
    ASSUME Inv, NEW r \in RunId, NEW g, NEW turn \in 1 .. MaxTurns,
           record_continuation(r, g, turn)
    PROVE  \E w, p : Writes(r, w, p)
  <1> DEFINE rec == [runs[r] EXCEPT !.turns = turn]
  <1>1. /\ runs[r] \in RunRecord /\ runs[r] # None
        /\ ~is_terminal(runs[r].status) /\ has_active_claim(runs[r].status)
        /\ runs[r].lease \in Nat /\ promised[runs[r].lane] = runs[r].lease
    BY HolderWrites DEF Inv, Claimed, record_continuation
  <1>2. /\ rec \in RunRecord /\ rec.lane = runs[r].lane /\ rec.status = runs[r].status
        /\ rec.attempt = runs[r].attempt /\ rec.lease = runs[r].lease
        /\ rec.generation = runs[r].generation /\ rec.owner = runs[r].owner
    BY <1>1, BoundsAssumption DEF RunRecord
  <1>3. Write(r, rec)
    BY <1>1, <1>2 DEF record_continuation, Write, RunRecord
  <1>4. promised' = [promised EXCEPT ![rec.lane] = runs[r].lease]
        /\ UNCHANGED <<now, retryOf>>
    BY <1>1, <1>2 DEF record_continuation, Inv, TypeOK
  <1> HIDE DEF rec
  <1>5. Writes(r, rec, runs[r].lease)
    BY <1>1, <1>2, <1>3, <1>4, Zenon DEF Writes
  <1> QED BY <1>5

\* Where no run of a lane is claimed, the last promise on it has passed.
LEMMA UnclaimedLane ==
    ASSUME Inv, NEW r \in RunId, NEW rec, Write(r, rec), ~Claimed(r)
    PROVE  promised[rec.lane] <= now /\ promised[rec.lane] \in Nat
  <1>1. rec.lane \in Lane
    BY DEF Write, RunRecord
  <1>2. \A s \in RunId : ~(Claimed(s) /\ runs[s].lane = rec.lane)
    BY LaneIsFree DEF Inv, Claimed, is_active, is_terminal, has_active_claim
  <1> QED BY <1>1, <1>2 DEF Inv, PromiseInv, TypeOK

\* create_run of a fresh record.
LEMMA CreatesFresh ==
    ASSUME Inv, NEW r \in RunId, NEW l \in Lane, CreateFresh(r, l)
    PROVE  \E w, p : Writes(r, w, p)
  <1> DEFINE fresh == NewRecord(l)
  <1>1. fresh \in RunRecord /\ fresh.lane = l /\ ~has_active_claim(fresh.status)
    <2>1. 0 \in 0 .. MaxGeneration /\ 1 \in 1 .. MaxAttempt /\ 0 \in 0 .. MaxTurns
      BY BoundsAssumption
    <2> QED BY <2>1 DEF NewRecord, RunRecord, RunStatus, has_active_claim
  <1>2. create_run(r, l, fresh)
    BY DEF CreateFresh
  <1> HIDE DEF fresh
  <1>3. Write(r, fresh) /\ runs[r] = None
    BY <1>1, <1>2 DEF create_run, Write
  <1>4. promised[l] <= now /\ promised[l] \in Nat
    BY <1>1, <1>3, UnclaimedLane DEF Claimed
  <1>5. promised' = [promised EXCEPT ![l] = promised[l]] /\ UNCHANGED <<now, retryOf>>
    BY <1>1, <1>2 DEF create_run, Inv, TypeOK
  <1>6. Writes(r, fresh, promised[l])
    BY <1>1, <1>3, <1>4, <1>5 DEF Writes
  <1> QED BY <1>6

\* create_run of a record that is already running.
LEMMA CreatesRunning ==
    ASSUME Inv, NEW r \in RunId, NEW l \in Lane, NEW o \in Owner, NEW t \in Nat,
           CreateRunning(r, l, o, t)
    PROVE  \E w, p : Writes(r, w, p)
  <1> DEFINE running == [NewRecord(l) EXCEPT !.status = "Running",
                            !.generation = 1, !.owner = o, !.lease = t]
  <1>1. /\ running \in RunRecord /\ running.lane = l
        /\ has_active_claim(running.status) /\ running.lease = t /\ t \in Nat
    <2>1. /\ 1 \in 0 .. MaxGeneration /\ 1 \in 1 .. MaxAttempt
          /\ 0 \in 0 .. MaxTurns /\ t \in Nat
      BY BoundsAssumption DEF Time
    <2>2. running \in RunRecord
      BY <2>1, Zenon DEF NewRecord, RunRecord, RunStatus
    <2> QED BY <2>1, <2>2 DEF NewRecord, has_active_claim
  <1>2. create_run(r, l, running)
    BY DEF CreateRunning
  <1> HIDE DEF running
  <1>3. Write(r, running) /\ runs[r] = None
    BY <1>1, <1>2, Zenon DEF create_run, Write
  <1>4. promised' = [promised EXCEPT ![l] = t] /\ UNCHANGED <<now, retryOf>>
    BY <1>1, <1>2 DEF create_run, Promise
  <1>5. promised[l] <= now
    BY <1>1, <1>3, UnclaimedLane DEF Claimed
  <1>6. Writes(r, running, t)
    BY <1>1, <1>3, <1>4, <1>5, Zenon DEF Writes
  <1> QED BY <1>6

\* claim_run writes a claimed record over one that may be claimed.
LEMMA Claims ==
    ASSUME Inv, NEW r \in RunId, NEW o \in Owner, NEW at \in Time, NEW t \in Nat,
           claim_run(r, o, at, t)
    PROVE  \E w, p : Writes(r, w, p)
  <1> DEFINE rec == [runs[r] EXCEPT !.status = "Claimed", !.generation = @ + 1,
                                    !.owner = o, !.lease = t]
  <1>1. runs[r] \in RunRecord /\ t \in Nat
    BY BoundsAssumption DEF Inv, TypeOK, claim_run, Time
  <1>0. /\ runs[r].generation \in Int
        /\ runs[r].generation + 1 \in 0 .. MaxGeneration
    BY <1>1, BoundsAssumption DEF claim_run, RunRecord
  <1>2. /\ rec \in RunRecord /\ rec.lane = runs[r].lane
        /\ rec.attempt = runs[r].attempt /\ rec.lease = t
        /\ has_active_claim(rec.status) /\ rec.generation > runs[r].generation
    <2>1. rec \in RunRecord
      BY <1>0, <1>1, Zenon DEF RunRecord, RunStatus
    <2>2. rec.status = "Claimed" /\ rec.generation = runs[r].generation + 1
      BY <1>1 DEF RunRecord
    <2> QED BY <1>0, <1>1, <2>1, <2>2 DEF RunRecord, has_active_claim
  <1>3. ~is_terminal(runs[r].status)
    BY DEF claim_run, can_claim, is_terminal, has_active_claim, retry_is_due_at
  <1>4. Write(r, rec)
    <2>1. rec.generation >= runs[r].generation
      BY <1>0, <1>2 DEF RunRecord
    <2> QED BY <1>2, <1>3, <2>1 DEF claim_run, Write
  <1>5. promised' = [promised EXCEPT ![rec.lane] = t]
    BY <1>2 DEF claim_run, Promise
  <1> HIDE DEF rec
  <1>6. promised[rec.lane] <= now
    <2>1. CASE Claimed(r)
      <3>1. claim_is_expired_at(runs[r], now)
        BY <2>1 DEF Claimed, claim_run, can_claim, has_active_claim, retry_is_due_at
      <3> QED BY <2>1, <3>1, <1>2, Zenon DEF Inv, PromiseInv, claim_is_expired_at
    <2>2. CASE ~Claimed(r)
      BY <2>2, <1>4, UnclaimedLane
    <2> QED BY <2>1, <2>2
  <1>7. rec.generation # runs[r].generation
    BY <1>0, <1>2 DEF RunRecord
  <1>8. Writes(r, rec, t)
    BY <1>1, <1>2, <1>4, <1>5, <1>6, <1>7 DEF Writes, claim_run
  <1> QED BY <1>8

\* Time only lets promises lapse.
LEMMA Ticks ==
    ASSUME Inv, Tick
    PROVE  Inv'
  <1> USE DEF Tick
  <1>1. TypeOK'
    BY BoundsAssumption DEF Inv, TypeOK, Time
  <1>2. IndexInv'
    BY DEF Inv, IndexInv, is_active
  <1>3. PromiseInv'
    <2>1. \A l \in Lane : promised[l] <= now => promised[l] <= now'
      BY BoundsAssumption DEF Inv, TypeOK, Time
    <2>2. \A s \in RunId : Claimed(s)' <=> Claimed(s)
      BY DEF Claimed
    <2> QED BY <2>1, <2>2 DEF Inv, PromiseInv
  <1>4. RetryInv'
    BY DEF Inv, RetryInv, RetryConsumedOnce
  <1> QED BY <1>1, <1>2, <1>3, <1>4 DEF Inv

\* start_retry_attempt hands the lane from the queued run to its next attempt.
LEMMA Retries ==
    ASSUME Inv, NEW r \in RunId, NEW new \in RunId, NEW g, NEW t \in Time,
           start_retry_attempt(r, g, new, t)
    PROVE  Inv'
  <1> DEFINE l == runs[r].lane
             failed == [runs[r] EXCEPT !.status = "Failed"]
             next == [NewRecord(l) EXCEPT !.attempt = runs[r].attempt + 1]
  <1>1. /\ runs[r] \in RunRecord /\ runs[r] # None /\ runs[new] = None /\ new # r
        /\ runs[r].status = "RetryQueued" /\ l \in Lane /\ is_active(runs[r])
        /\ ~Claimed(r) /\ ~Claimed(new)
    BY DEF Inv, TypeOK, RunRecord, start_retry_attempt, is_active, is_terminal,
           Claimed, has_active_claim
  <1>2. /\ failed \in RunRecord /\ failed.lane = l /\ failed.status = "Failed"
        /\ failed.attempt = runs[r].attempt
    BY <1>1 DEF RunRecord, RunStatus
  <1>3. /\ next \in RunRecord /\ next.lane = l /\ next.status = "Created"
        /\ next.attempt = runs[r].attempt + 1
    <2>1. /\ runs[r].attempt + 1 \in 1 .. MaxAttempt
          /\ 0 \in 0 .. MaxGeneration /\ 0 \in 0 .. MaxTurns
      BY <1>1, BoundsAssumption DEF start_retry_attempt, RunRecord
    <2>2. next = [lane |-> l, status |-> "Created", generation |-> 0, owner |-> None,
                  lease |-> None, attempt |-> runs[r].attempt + 1,
                  retry_at |-> None, turns |-> 0]
      BY DEF NewRecord
    <2> QED BY <1>1, <2>1, <2>2 DEF RunRecord, RunStatus
  <1>4. failed # None /\ next # None
    BY <1>2, <1>3, NoneAssumption
  <1>5. runs' = [runs EXCEPT ![r] = failed, ![new] = next]
    BY <1>1 DEF start_retry_attempt
  <1>6. /\ marker' = [marker EXCEPT ![l] = new] /\ active' = (active \ {r}) \cup {new}
        /\ retryOf' = [retryOf EXCEPT ![new] = r] /\ UNCHANGED <<now, promised>>
    BY DEF start_retry_attempt
  <1> HIDE DEF l, failed, next
  <1>7. \A s \in RunId : runs'[s] = IF s = new THEN next
                                     ELSE IF s = r THEN failed ELSE runs[s]
    BY <1>1, <1>5 DEF Inv, TypeOK
  <1>8. is_active(next) /\ ~is_active(failed)
    BY <1>2, <1>3, <1>4 DEF is_active, is_terminal
  <1>9. TypeOK'
    BY <1>1, <1>2, <1>3, <1>5, <1>6 DEF Inv, TypeOK
  <1>10. IndexInv'
    <2>1. marker[l] = r
      BY <1>1, Zenon DEF Inv, IndexInv, l
    <2>2. \A s \in RunId \ {r} : is_active(runs[s]) => runs[s].lane \in Lane \ {l}
      BY <2>1 DEF Inv, IndexInv, TypeOK, RunRecord, is_active
    <2>3. \A k \in Lane : marker'[k] = IF k = l THEN new ELSE marker[k]
      BY <1>6 DEF Inv, TypeOK
    <2>4. \A s \in RunId : is_active(runs'[s]) => marker'[runs'[s].lane] = s
      <3> SUFFICES ASSUME NEW s \in RunId, is_active(runs'[s])
                   PROVE  marker'[runs'[s].lane] = s
        OBVIOUS
      <3>1. CASE s = new
        BY <3>1, <1>1, <1>3, <1>7, <2>3, Zenon
      <3>2. CASE s # new
        <4>1. s # r /\ runs'[s] = runs[s]
          BY <3>2, <1>7, <1>8
        <4> QED BY <4>1, <2>2, <2>3 DEF Inv, IndexInv
      <3> QED BY <3>1, <3>2
    <2>5. \A k \in Lane : marker'[k] # None =>
              is_active(runs'[marker'[k]]) /\ runs'[marker'[k]].lane = k
      <3> SUFFICES ASSUME NEW k \in Lane, marker'[k] # None
                   PROVE  is_active(runs'[marker'[k]]) /\ runs'[marker'[k]].lane = k
        OBVIOUS
      <3>1. CASE k = l
        BY <3>1, <2>3, <1>3, <1>7, <1>8
      <3>2. CASE k # l
        <4>1. /\ marker'[k] = marker[k] /\ marker[k] \in RunId
              /\ is_active(runs[marker[k]]) /\ runs[marker[k]].lane = k
          BY <3>2, <2>3 DEF Inv, IndexInv, TypeOK
        <4>2. marker[k] # r /\ marker[k] # new
          BY <4>1, <3>2, <1>1 DEF l, is_active
        <4> QED BY <4>1, <4>2, <1>7
      <3> QED BY <3>1, <3>2
    <2>6. active' = {s \in RunId : is_active(runs'[s])}
      BY <1>1, <1>6, <1>7, <1>8 DEF Inv, IndexInv
    <2> QED BY <2>4, <2>5, <2>6 DEF IndexInv, is_active, is_terminal
  <1>11. PromiseInv'
    <2>1. \A s \in RunId : Claimed(s) => Claimed(s)' /\ runs'[s] = runs[s]
      BY <1>1, <1>7, Zenon DEF Claimed
    <2>2. \A s \in RunId : Claimed(s)' => Claimed(s) /\ runs'[s] = runs[s]
      BY <1>2, <1>3, <1>7 DEF Claimed, has_active_claim
    <2>3. \A s \in RunId : Claimed(s)' =>
              runs'[s].lease \in Nat /\ promised'[runs'[s].lane] = runs'[s].lease
      BY <2>2, <1>6, Zenon DEF Inv, PromiseInv
    <2>4. ASSUME NEW k \in Lane, \A s \in RunId : ~(Claimed(s)' /\ runs'[s].lane = k)
          PROVE  promised'[k] <= now'
      <3>1. \A s \in RunId : ~(Claimed(s) /\ runs[s].lane = k)
        BY <2>1, <2>4
      <3> QED BY <3>1, <1>6, Zenon DEF Inv, PromiseInv
    <2> QED BY <2>3, <2>4 DEF PromiseInv
  <1>12. RetryInv'
    <2>1. \A s \in RunId : retryOf'[s] = IF s = new THEN r ELSE retryOf[s]
      BY <1>6 DEF Inv, TypeOK
    <2>2. \A s \in RunId : retryOf[s] # None =>
              /\ retryOf[s] \in RunId /\ retryOf[s] # r /\ retryOf[s] # new /\ s # new
              /\ runs'[retryOf[s]] = runs[retryOf[s]]
              /\ runs'[s] # None /\ runs'[s].attempt = runs[s].attempt
      BY <1>1, <1>2, <1>4, <1>7, SMTT(30) DEF Inv, TypeOK, RetryInv, RetryConsumedOnce
    <2>3. ASSUME NEW s \in RunId, retryOf'[s] # None
          PROVE  /\ runs'[s] # None /\ runs'[retryOf'[s]] # None
                 /\ runs'[retryOf'[s]].status = "Failed"
                 /\ runs'[s].attempt = runs'[retryOf'[s]].attempt + 1
                 /\ \A u \in RunId : retryOf'[u] = retryOf'[s] => u = s
      <3>1. CASE s = new
        <4>1. retryOf'[s] = r /\ \A u \in RunId : retryOf'[u] = r => u = s
          <5>1. r # None /\ r \in RunId
            BY NoneAssumption, Zenon
          <5> QED BY <2>1, <2>2, <3>1, <5>1, Zenon
        <4>2. runs'[s] = next /\ runs'[r] = failed
          BY <1>1, <1>7, <3>1, Zenon
        <4> QED BY <1>2, <1>3, <1>4, <4>1, <4>2, Zenon
      <3>2. CASE s # new
        BY <3>2, <2>1, <2>2, <2>3, SMTT(30) DEF Inv, RetryInv, RetryConsumedOnce
      <3> QED BY <3>1, <3>2, Zenon
    <2> QED BY <2>3, Zenon DEF RetryInv, RetryConsumedOnce
  <1> QED BY <1>9, <1>10, <1>11, <1>12 DEF Inv

-----------------------------------------------------------------------------
\* Every step is such a write, the start of a retry, or the clock's.
LEMMA Steps ==
    ASSUME Inv, Next
    PROVE  \/ \E r \in RunId : \E w, p : Writes(r, w, p)
           \/ \E r, new \in RunId, g \in 0 .. MaxGeneration, t \in Time :
                    start_retry_attempt(r, g, new, t)
           \/ Tick
  <1>0. Time \subseteq Nat
    BY BoundsAssumption DEF Time
  <1>1. CASE \E r \in RunId, l \in Lane : CreateFresh(r, l)
    BY <1>1, CreatesFresh
  <1>2. CASE \E r \in RunId, l \in Lane, o \in Owner, t \in Time :
                  CreateRunning(r, l, o, t)
    BY <1>0, <1>2, CreatesRunning
  <1>3. CASE \E r \in RunId, o \in Owner, at \in Time, t \in Time :
                  claim_run(r, o, at, t)
    BY <1>0, <1>3, Claims
  <1>4. CASE \E r \in RunId : Holder(r)
    BY <1>4, Renews, Continues, EndsClaim, QueuesRetry DEF Holder
  <1> QED BY <1>1, <1>2, <1>3, <1>4, Zenon DEF Next

\* An empty store satisfies the invariant.
LEMMA InvInit == Init => Inv
  <1> SUFFICES ASSUME Init PROVE Inv
    OBVIOUS
  <1>1. TypeOK
    BY BoundsAssumption, NoneAssumption DEF Init, TypeOK, Time
  <1>2. IndexInv
    BY DEF Init, IndexInv, is_active
  <1>3. PromiseInv
    BY DEF Init, PromiseInv, Claimed
  <1>4. RetryInv
    BY Zenon DEF Init, RetryInv, RetryConsumedOnce
  <1> QED BY <1>1, <1>2, <1>3, <1>4 DEF Inv

\* The invariant holds initially and every step of the store keeps it.
THEOREM Invariance == Spec => []Inv
  <1>1. Init => Inv
    BY InvInit
  <1>2. Inv /\ [Next]_vars => Inv'
    <2>1. ASSUME Inv, Next PROVE Inv'
      BY <2>1, Steps, WriteStep, Retries, Ticks
    <2>2. ASSUME Inv, UNCHANGED vars PROVE Inv'
      BY <2>2, Zenon DEF vars, Inv, TypeOK, IndexInv, PromiseInv, RetryInv,
                  RetryConsumedOnce, Claimed
    <2> QED BY <2>1, <2>2
  <1> QED BY <1>1, <1>2, PTL DEF Spec

\* Type correctness of the run store.
THEOREM TypeCorrect == Spec => []TypeOK
  BY Invariance, PTL DEF Inv

\* A lane never has two non-terminal runs, and the index keys agree with the
\* records: create_run and start_retry_attempt may trust the marker alone.
THEOREM LanesAreExclusive == Spec => [](OneActiveRunPerLane /\ IndexesMatchRecords)
  <1>1. Inv => OneActiveRunPerLane
    BY Zenon DEF Inv, IndexInv, OneActiveRunPerLane
  <1>2. Inv => IndexesMatchRecords
    <2> SUFFICES ASSUME Inv PROVE IndexesMatchRecords
      OBVIOUS
    <2>1. \A l \in Lane, r \in RunId :
              marker[l] = r <=> (is_active(runs[r]) /\ runs[r].lane = l)
      <3> SUFFICES ASSUME NEW l \in Lane, NEW r \in RunId
                   PROVE  marker[l] = r <=> (is_active(runs[r]) /\ runs[r].lane = l)
        OBVIOUS
      <3>1. marker[l] = r => is_active(runs[r]) /\ runs[r].lane = l
        BY NoneAssumption DEF Inv, IndexInv
      <3>2. is_active(runs[r]) /\ runs[r].lane = l => marker[l] = r
        BY DEF Inv, IndexInv
      <3> QED BY <3>1, <3>2
    <2>2. active_runs = {r \in RunId : is_active(runs[r])}
      BY DEF Inv, IndexInv, active_runs
    <2> QED BY <2>1, <2>2 DEF IndexesMatchRecords
  <1> QED BY <1>1, <1>2, Invariance, PTL

\* A queued retry is consumed once.
THEOREM RetriesConsumedOnce == Spec => []RetryConsumedOnce
  BY Invariance, PTL DEF Inv, RetryInv

\* Terminal records never change and generations never go back.
THEOREM TerminalRecordsAreFinal == Spec => TerminalIsFinal
  <1> DEFINE Final == \A r \in RunId : runs[r] # None =>
                        /\ runs'[r] # None
                        /\ runs'[r].generation >= runs[r].generation
                        /\ is_terminal(runs[r].status) => runs'[r] = runs[r]
  <1>1. ASSUME Inv, Next PROVE Final
    <2>1. ASSUME NEW r \in RunId, NEW w, NEW p, Writes(r, w, p)
          PROVE  Final
      <3>1. \A s \in RunId : runs'[s] = IF s = r THEN w ELSE runs[s]
        BY <1>1, <2>1 DEF Writes, Write, commit_record, Inv, TypeOK
      <3>2. \A s \in RunId : runs[s] # None => runs[s].generation \in Int
        BY <1>1 DEF Inv, TypeOK, RunRecord
      <3> QED BY <2>1, <3>1, <3>2, NoneAssumption DEF Writes, Write
    <2>2. ASSUME NEW r \in RunId, NEW new \in RunId, NEW g, NEW t,
                 start_retry_attempt(r, g, new, t)
          PROVE  Final
      <3>1. /\ runs[r] \in RunRecord /\ runs[new] = None /\ new # r
            /\ ~is_terminal(runs[r].status)
        BY <1>1, <2>2 DEF start_retry_attempt, Inv, TypeOK, is_terminal
      <3>2. \A s \in RunId \ {r, new} : runs'[s] = runs[s]
        BY <1>1, <2>2 DEF start_retry_attempt, Inv, TypeOK
      <3>3. runs'[r] = [runs[r] EXCEPT !.status = "Failed"]
        BY <1>1, <2>2, <3>1 DEF start_retry_attempt, Inv, TypeOK
      <3>4. runs'[r] \in RunRecord /\ runs'[r].generation = runs[r].generation
        BY <3>1, <3>3 DEF RunRecord, RunStatus
      <3>5. \A s \in RunId : runs[s] # None => runs[s].generation \in Int
        BY <1>1 DEF Inv, TypeOK, RunRecord
      <3> QED BY <3>1, <3>2, <3>4, <3>5, NoneAssumption
    <2>3. ASSUME Tick PROVE Final
      BY <1>1, <2>3 DEF Tick, Inv, TypeOK, RunRecord
    <2> HIDE DEF Final
    <2> QED BY <1>1, <2>1, <2>2, <2>3, Steps
  <1> QED BY <1>1, Invariance, PTL DEF Spec, TerminalIsFinal

\* Leases of a lane never overlap: a claim is granted only once the previous
\* claim on the lane, of whichever run, was ended or ran out.
THEOREM LeasesNeverOverlap == Spec => ClaimsNeverOverlap
  <1> DEFINE Granted(r) ==
                /\ runs'[r] # None
                /\ has_active_claim(runs'[r].status)
                /\ runs[r] = None \/ runs'[r].generation # runs[r].generation
             Lapsed == \A r \in RunId : Granted(r) => promised[runs'[r].lane] <= now
  <1>1. ASSUME Inv, Next PROVE Lapsed
    <2>1. ASSUME NEW r \in RunId, NEW w, NEW p, Writes(r, w, p)
          PROVE  Lapsed
      <3>1. \A s \in RunId : runs'[s] = IF s = r THEN w ELSE runs[s]
        BY <1>1, <2>1 DEF Writes, Write, commit_record, Inv, TypeOK
      <3>2. \A s \in RunId \ {r} : ~Granted(s)
        BY <3>1
      <3> QED BY <2>1, <3>1, <3>2 DEF Writes
    <2>2. ASSUME NEW r \in RunId, NEW new \in RunId, NEW g, NEW t,
                 start_retry_attempt(r, g, new, t)
          PROVE  Lapsed
      <3>1. runs[r] \in RunRecord /\ new # r
        BY <1>1, <2>2 DEF start_retry_attempt, Inv, TypeOK
      <3>2. \A s \in RunId \ {r, new} : runs'[s] = runs[s]
        BY <1>1, <2>2 DEF start_retry_attempt, Inv, TypeOK
      <3>3. runs'[r].status = "Failed" /\ runs'[new].status = "Created"
        BY <1>1, <2>2, <3>1
           DEF start_retry_attempt, Inv, TypeOK, NewRecord, RunRecord
      <3> QED BY <3>2, <3>3 DEF has_active_claim
    <2>3. ASSUME Tick PROVE Lapsed
      BY <2>3 DEF Tick
    <2> HIDE DEF Lapsed
    <2> QED BY <1>1, <2>1, <2>2, <2>3, Steps
  <1> QED BY <1>1, Invariance, PTL DEF Spec, ClaimsNeverOverlap

-----------------------------------------------------------------------------
\* The passes over the store (RunRepair).

Planned == [do : {"retry", "renew", "release", "fail", "prompt"},
            run : RunId, rec : RunRecord]

Repairing == [do : {"renew", "release", "fail", "queue"}, of : Planned,
              run : RunId, generation : 0 .. MaxGeneration,
              stage : {"claim", "apply"}, again : BOOLEAN]

\* No live session works on a run with this record.
NotWorked(rec) == rec.owner \notin alive \/ rec.lane \in over

\* While the run has generation g and is claimed, the claim is owner's.
ClaimOf(r, g, owner) ==
    (Claimed(r) /\ runs[r].generation = g) => runs[r].owner = owner

\* What a planned repair knows of its run, however long ago it was planned.
SoundPlan(a) ==
    /\ a.do # "prompt"
    /\ a.do = "renew" => a.rec.owner \in Owner
    /\ (a.do \in {"release", "fail"} /\ ~NeedsClaim(a)) => NotWorked(a.rec)
    /\ runs[a.run] # None
    /\ runs[a.run].lane = a.rec.lane
    /\ runs[a.run].generation >= a.rec.generation
    /\ ClaimOf(a.run, a.rec.generation, a.rec.owner)

\* The repair under way: the claim it is about to end is nobody's.
SoundRepair ==
    /\ cur \in Repairing /\ cur.run = cur.of.run
    /\ cur.do = "renew" => cur.of.do = "renew"
    /\ (cur.do # "renew" /\ cur.stage = "apply") =>
            /\ runs[cur.run] # None
            /\ runs[cur.run].generation >= cur.generation
            /\ (Claimed(cur.run) /\ runs[cur.run].generation = cur.generation)
                => NotWorked(runs[cur.run])

PassInv ==
    /\ RepairTypeOK
    /\ plan \subseteq Planned
    /\ phase = "idle" => cur = None
    /\ phase = "repair" => /\ \A a \in plan : SoundPlan(a)
                           /\ cur # None => SoundRepair

\* A run keeps its lane, its generation never goes back, and under the same
\* generation a claim is the same owner's.
RunKept(r) ==
    runs[r] # None =>
        /\ runs'[r] # None
        /\ runs'[r].lane = runs[r].lane
        /\ runs'[r].generation >= runs[r].generation
        /\ (Claimed(r)' /\ runs'[r].generation = runs[r].generation)
            => Claimed(r) /\ runs'[r].owner = runs[r].owner

\* A step of the store as the lemmas above have it.
StoreStep ==
    \/ \E r \in RunId : \E w, p : Writes(r, w, p)
    \/ \E r, new \in RunId, g \in 0 .. MaxGeneration, t \in Time :
            start_retry_attempt(r, g, new, t)
    \/ Tick
    \/ UNCHANGED vars

\* Such steps keep the store's invariant.
LEMMA StoreStepKeepsInv ==
    ASSUME Inv, StoreStep
    PROVE  Inv'
  <1>1. CASE UNCHANGED vars
    BY <1>1 DEF vars, Inv, TypeOK, IndexInv, PromiseInv, RetryInv,
                RetryConsumedOnce, Claimed
  <1> QED BY <1>1, WriteStep, Retries, Ticks DEF StoreStep

\* They keep every run.
LEMMA StoreStepKeepsRuns ==
    ASSUME Inv, StoreStep
    PROVE  \A r \in RunId : RunKept(r)
  <1>0. \A s \in RunId : runs[s] # None => runs[s].generation \in Int
    BY DEF Inv, TypeOK, RunRecord
  <1>1. ASSUME NEW r \in RunId, NEW w, NEW p, Writes(r, w, p)
        PROVE  \A s \in RunId : RunKept(s)
    <2>1. \A s \in RunId : runs'[s] = IF s = r THEN w ELSE runs[s]
      BY <1>1 DEF Writes, Write, commit_record, Inv, TypeOK
    <2>2. w # None
      BY <1>1, NoneAssumption DEF Writes, Write
    <2>3. ASSUME NEW s \in RunId, s # r PROVE RunKept(s)
      BY <1>0, <2>1, <2>3 DEF RunKept, Claimed
    <2>4. RunKept(r)
      BY <1>1, <2>1, <2>2, Zenon DEF RunKept, Claimed, Writes, Write
    <2> QED BY <2>3, <2>4, Zenon
  <1>2. ASSUME NEW r \in RunId, NEW new \in RunId, NEW g, NEW t,
               start_retry_attempt(r, g, new, t)
        PROVE  \A s \in RunId : RunKept(s)
    <2>1. runs[r] \in RunRecord /\ runs[new] = None /\ new # r
      BY <1>2 DEF start_retry_attempt, Inv, TypeOK
    <2>2. \A s \in RunId \ {r, new} : runs'[s] = runs[s]
      BY <1>2 DEF start_retry_attempt, Inv, TypeOK
    <2>3. runs'[r] = [runs[r] EXCEPT !.status = "Failed"]
      BY <1>2, <2>1 DEF start_retry_attempt, Inv, TypeOK
    <2>4. /\ runs'[r] \in RunRecord /\ runs'[r].status = "Failed"
          /\ runs'[r].generation = runs[r].generation
          /\ runs'[r].lane = runs[r].lane
      BY <2>1, <2>3 DEF RunRecord, RunStatus
    <2>5. RunKept(r)
      BY <1>0, <2>1, <2>4, NoneAssumption DEF RunKept, Claimed, has_active_claim
    <2>6. ASSUME NEW s \in RunId, s # r PROVE RunKept(s)
      BY <1>0, <2>1, <2>2, <2>6 DEF RunKept, Claimed
    <2> QED BY <2>5, <2>6, Zenon
  <1>3. ASSUME runs' = runs PROVE \A s \in RunId : RunKept(s)
    BY <1>0, <1>3 DEF RunKept, Claimed
  <1> QED BY <1>1, <1>2, <1>3 DEF StoreStep, Tick, vars

\* Every step of the passes, the agents, the board and the clock is a step of
\* the store.
LEMMA RepairSteps ==
    ASSUME Inv, PassInv, RepairNext
    PROVE  StoreStep
  <1> USE DEF PassInv, RepairTypeOK
  <1>1. /\ now \in Time /\ seen \in Time /\ now \in Nat /\ seen \in Nat
        /\ now + AgentLease \in Nat /\ seen + RepairLease \in Nat
    BY BoundsAssumption, RunRepairAssumption DEF Inv, TypeOK, Time
  <1>2. ASSUME UNCHANGED vars PROVE StoreStep
    BY <1>2 DEF StoreStep
  <1>3. ASSUME NEW r \in RunId, \E w, p : Writes(r, w, p) PROVE StoreStep
    BY <1>3 DEF StoreStep
  <1> HIDE DEF PassInv, RepairTypeOK
  <1>4. \A a \in plan : a.run \in RunId /\ a.rec \in RunRecord
    BY DEF PassInv, Planned
  <1>5. ASSUME NEW a \in plan, RetryAttempt(a) PROVE StoreStep
    <2>1. CASE UNCHANGED vars
      BY <1>2, <2>1
    <2>2. CASE start_retry_attempt(a.run, a.rec.generation, RetryRun[a.run], seen)
      <3>1. RetryRun[a.run] \in RunId
        BY <1>4, <1>5, RunRepairAssumption DEF RetryAttempt
      <3>2. a.rec.generation \in 0 .. MaxGeneration
        BY <1>4 DEF RunRecord
      <3> QED BY <1>1, <1>4, <2>2, <3>1, <3>2 DEF StoreStep
    <2> QED BY <1>5, <2>1, <2>2 DEF RetryAttempt
  <1>6. ASSUME phase = "repair", cur # None
        PROVE  /\ cur \in Repairing /\ cur.run \in RunId /\ cur.of \in plan
               /\ cur.do = "renew" => cur.of.rec.owner \in Owner
    BY <1>6 DEF PassInv, RepairTypeOK, SoundRepair, SoundPlan, Repairing
  <1>7. CASE claim_run_for_repair
    <2> DEFINE owner == IF cur.do = "renew" THEN cur.of.rec.owner ELSE Reconciler
    <2>1. owner \in Owner /\ cur.run \in RunId
      BY <1>6, <1>7, RunRepairAssumption DEF claim_run_for_repair
    <2>2. CASE claim_run(cur.run, owner, seen, seen + RepairLease)
      <3> HIDE DEF owner
      <3> QED BY <1>1, <1>3, <2>1, <2>2, Claims
    <2> QED BY <1>2, <1>7, <2>2 DEF claim_run_for_repair, Abort
  <1>8. CASE ApplyRepair
    <2>1. cur.run \in RunId
      BY <1>6, <1>8 DEF ApplyRepair
    <2>2. CASE StoreCall
      BY <1>1, <1>3, <2>1, <2>2, Renews, EndsClaim, QueuesRetry DEF StoreCall
    <2> QED BY <1>2, <1>8, <2>2 DEF ApplyRepair, Abort
  <1>9. CASE RecordTurn
    <2>1. cur.of \in plan
      BY <1>9 DEF RecordTurn, PassInv, RepairTypeOK
    <2>2. CASE record_continuation(cur.of.run, cur.of.rec.generation, cur.of.rec.turns + 1)
      <3>1. cur.of.rec.turns + 1 \in 1 .. MaxTurns
        BY <1>4, <2>1, <2>2, BoundsAssumption DEF record_continuation, RunRecord
      <3> QED BY <1>3, <1>4, <2>1, <2>2, <3>1, Continues
    <2> QED BY <1>2, <1>9, <2>2 DEF RecordTurn, Abort
  <1>10. ASSUME NEW r \in RunId, NEW l \in Lane, NewRun(r, l) PROVE StoreStep
    BY <1>3, <1>10, CreatesFresh DEF NewRun
  <1>11. Agents \subseteq Owner
    BY DEF Agents
  <1>12. ASSUME NEW a \in Agents, NEW r \in RunId, AgentClaims(a, r) PROVE StoreStep
    BY <1>1, <1>3, <1>11, <1>12, Claims DEF AgentClaims
  <1>13. ASSUME NEW a \in Agents, NEW r \in RunId, NEW l \in Lane, AgentStarts(a, r, l)
         PROVE  StoreStep
    BY <1>1, <1>3, <1>11, <1>13, CreatesRunning DEF AgentStarts
  <1>14. ASSUME NEW a \in Agents, held[a] # None
         PROVE  held[a][1] \in RunId
    BY <1>14 DEF PassInv, RepairTypeOK
  <1>15. ASSUME NEW a \in Agents, AgentRenews(a) \/ AgentEnds(a) PROVE StoreStep
    BY <1>2, <1>3, <1>14, <1>15, Renews, EndsClaim, Zenon DEF AgentRenews, AgentEnds
  <1>16. CASE Clock
    BY <1>16 DEF Clock, StoreStep
  <1> QED
    BY <1>2, <1>5, <1>7, <1>8, <1>9, <1>10, <1>12, <1>13, <1>15, <1>16, Zenon
    DEF RepairNext, Pass, StartPass, BeginRepair, SkipContinuation, SendPrompt,
        StartContinuations, EndTick, WorkTaken, AgentDies, WorkAssigned, TaskMerged

\* A repair planned from the records of this moment is sound.
LEMMA PlanIsSound ==
    ASSUME Inv, RepairTypeOK, NEW a \in Plan
    PROVE  /\ a \in Planned /\ a.do # "prompt"
           /\ a.rec = runs[a.run] /\ runs[a.run] # None
           /\ a.do = "renew" => a.rec.owner \in Owner
           /\ (/\ a.do \in {"release", "fail"}
               /\ ~claim_is_expired_at(a.rec, now)
               /\ ~(a.do = "fail" /\ ~has_active_claim(a.rec.status)))
                => NotWorked(a.rec)
  <1>1. ASSUME NEW r \in active_runs, NEW do \in {"retry", "renew", "release", "fail"}
        PROVE  /\ Repair(do, r) \in Planned
               /\ Repair(do, r).do = do /\ Repair(do, r).run = r
               /\ Repair(do, r).rec = runs[r] /\ runs[r] # None
    <2>1. r \in RunId /\ runs[r] # None /\ runs[r] \in RunRecord
      BY <1>1 DEF active_runs, is_active, Inv, TypeOK
    <2> QED BY <2>1 DEF Repair, Planned
  <1>2. /\ DueRetries \subseteq active_runs /\ Renewals \subseteq active_runs
        /\ Abandoned \subseteq active_runs /\ Failures \subseteq active_runs
    BY Zenon DEF DueRetries, Renewals, Abandoned, Failures, OfTerminalTasks
  <1>3. CASE \E r \in DueRetries : a = Repair("retry", r)
    BY <1>1, <1>2, <1>3
  <1>4. CASE \E r \in Renewals : a = Repair("renew", r)
    <2>1. PICK r \in Renewals : a = Repair("renew", r)
      BY <1>4
    <2>2. runs[r].owner \in Owner
      BY Zenon DEF Renewals, ActiveOperation, SessionAlive, RepairTypeOK, Agents
    <2> QED BY <1>1, <1>2, <2>1, <2>2
  <1>5. CASE \E r \in Abandoned : a = Repair("release", r)
    <2>1. PICK r \in Abandoned : a = Repair("release", r)
      BY <1>5
    <2>2. ~claim_is_expired_at(runs[r], now) => NotWorked(runs[r])
      BY DEF Abandoned, Expired, SessionAlive, NotWorked
    <2> QED BY <1>1, <1>2, <2>1, <2>2
  <1>6. CASE \E r \in Failures : a = Repair("fail", r)
    <2>1. PICK r \in Failures : a = Repair("fail", r)
      BY <1>6
    <2>2. ~claim_is_expired_at(runs[r], now) => NotWorked(runs[r])
      BY Zenon DEF Failures, OfTerminalTasks, Abandoned, Expired, SessionAlive, NotWorked
    <2> QED BY <1>1, <1>2, <2>1, <2>2
  <1> QED BY <1>3, <1>4, <1>5, <1>6 DEF Plan

\* Generations are numbers.
LEMMA GenerationType ==
    ASSUME NEW rec \in RunRecord
    PROVE  rec.generation \in Int
  BY DEF RunRecord

\* In particular those of the stored runs.
LEMMA StoredGeneration ==
    ASSUME Inv, NEW r \in RunId, runs[r] # None
    PROVE  runs[r].generation \in Int
  <1>1. runs[r] \in RunRecord
    BY Zenon DEF Inv, TypeOK
  <1> QED BY <1>1, GenerationType, Zenon

\* And of those a step stores.
LEMMA NextGeneration ==
    ASSUME Inv', NEW r \in RunId, runs'[r] # None
    PROVE  runs'[r].generation \in Int
  <1>1. runs'[r] \in RunRecord
    BY Zenon DEF Inv, TypeOK
  <1> QED BY <1>1, GenerationType, Zenon

\* What a planned repair knows stays true, whatever the store does meanwhile.
LEMMA PlanStaysSound ==
    ASSUME Inv, Inv', \A r \in RunId : RunKept(r), UNCHANGED <<seen, alive, over>>,
           NEW a \in Planned, SoundPlan(a)
    PROVE  SoundPlan(a)'
  <1>1. a.run \in RunId /\ a.rec \in RunRecord /\ RunKept(a.run)
    BY DEF Planned
  <1>2. /\ runs[a.run] # None /\ runs[a.run].generation \in Int
        /\ a.rec.generation \in Int /\ runs'[a.run] # None
        /\ runs'[a.run].generation \in Int
    <2>1. runs[a.run] # None /\ runs'[a.run] # None
      BY <1>1, Zenon DEF SoundPlan, RunKept
    <2> QED BY <1>1, <2>1, GenerationType, StoredGeneration, NextGeneration, Zenon
  <1>3. /\ runs[a.run].generation >= a.rec.generation
        /\ runs'[a.run].generation >= runs[a.run].generation
    BY <1>1, <1>2, Zenon DEF SoundPlan, RunKept
  <1>4. ClaimOf(a.run, a.rec.generation, a.rec.owner)'
    <2> SUFFICES ASSUME Claimed(a.run)', runs'[a.run].generation = a.rec.generation
                 PROVE  runs'[a.run].owner = a.rec.owner
      BY DEF ClaimOf
    <2>1. runs'[a.run].generation = runs[a.run].generation
      BY ONLY <1>2, <1>3, runs'[a.run].generation = a.rec.generation
    <2> QED BY <1>1, <1>2, <2>1, Zenon DEF SoundPlan, ClaimOf, RunKept
  <1>5. NeedsClaim(a)' <=> NeedsClaim(a)
    BY DEF NeedsClaim
  <1>6. runs'[a.run].generation >= a.rec.generation
    BY ONLY <1>2, <1>3
  <1> QED BY <1>1, <1>2, <1>4, <1>5, <1>6, Zenon DEF SoundPlan, RunKept, NotWorked

\* So does what the repair under way knows.
LEMMA RepairStaysSound ==
    ASSUME Inv, Inv', \A r \in RunId : RunKept(r), UNCHANGED <<alive, over, cur>>,
           SoundRepair
    PROVE  SoundRepair'
  <1>1. cur.run \in RunId /\ cur.generation \in Int /\ RunKept(cur.run)
    <2>1. cur \in Repairing
      BY Zenon DEF SoundRepair
    <2>2. cur.run \in RunId /\ cur.generation \in 0 .. MaxGeneration
      BY <2>1 DEF Repairing
    <2> QED BY <2>2
  <1>2. ASSUME cur.do # "renew", cur.stage = "apply"
        PROVE  /\ runs'[cur.run] # None
               /\ runs'[cur.run].generation >= cur.generation
               /\ (Claimed(cur.run)' /\ runs'[cur.run].generation = cur.generation)
                    => NotWorked(runs[cur.run])'
    <2>1. /\ runs[cur.run] # None /\ runs[cur.run].generation \in Int
          /\ runs'[cur.run] # None /\ runs'[cur.run].generation \in Int
      <3>1. runs[cur.run] # None /\ runs'[cur.run] # None
        BY <1>1, <1>2, Zenon DEF SoundRepair, RunKept
      <3> QED BY <1>1, <3>1, StoredGeneration, NextGeneration, Zenon
    <2>2. /\ runs[cur.run].generation >= cur.generation
          /\ runs'[cur.run].generation >= runs[cur.run].generation
      BY <1>1, <1>2, <2>1, Zenon DEF SoundRepair, RunKept
    <2>3. runs'[cur.run].generation >= cur.generation
      BY ONLY <1>1, <2>2, <2>1
    <2>4. ASSUME Claimed(cur.run)', runs'[cur.run].generation = cur.generation
          PROVE  NotWorked(runs[cur.run])'
      <3>1. runs[cur.run].generation = cur.generation
        BY ONLY <1>1, <2>2, <2>1, <2>4
      <3>2. /\ Claimed(cur.run) /\ runs'[cur.run].owner = runs[cur.run].owner
            /\ runs'[cur.run].lane = runs[cur.run].lane
        BY <1>1, <2>1, <2>4, <3>1, Zenon DEF RunKept
      <3>3. NotWorked(runs[cur.run])
        BY <1>2, <3>1, <3>2, Zenon DEF SoundRepair
      <3> QED BY <3>2, <3>3, Zenon DEF NotWorked
    <2> QED BY <2>1, <2>3, <2>4, Zenon
  <1>3. cur' \in Repairing /\ cur'.run = cur'.of.run
        /\ (cur'.do = "renew" => cur'.of.do = "renew")
    BY DEF SoundRepair
  <1> QED BY <1>2, <1>3, Zenon DEF SoundRepair, Claimed

\* The variables the agents and the board have keep their types.
LEMMA AgentTypes ==
    ASSUME Inv, Inv', PassInv, RepairNext
    PROVE  /\ held' \in [Agents -> (RunId \X (1 .. MaxGeneration)) \cup {None}]
           /\ alive' \subseteq Agents /\ over' \subseteq Lane
           /\ working' \in [Agents -> Lane \cup {None}]
           /\ prompts' \in [RunId -> 0 .. MaxPrompts]
           /\ now <= now'
  <1> DEFINE Goal == /\ held' \in [Agents -> (RunId \X (1 .. MaxGeneration)) \cup {None}]
                     /\ alive' \subseteq Agents /\ over' \subseteq Lane
                     /\ working' \in [Agents -> Lane \cup {None}]
                     /\ prompts' \in [RunId -> 0 .. MaxPrompts]
                     /\ now <= now'
  <1>1. /\ held \in [Agents -> (RunId \X (1 .. MaxGeneration)) \cup {None}]
        /\ alive \subseteq Agents /\ over \subseteq Lane
        /\ working \in [Agents -> Lane \cup {None}]
        /\ prompts \in [RunId -> 0 .. MaxPrompts]
        /\ now \in Nat /\ now' \in Nat
    BY BoundsAssumption DEF PassInv, RepairTypeOK, Inv, TypeOK, Time
  <1>2. ASSUME UNCHANGED <<agentVars, prompts, now>> PROVE Goal
    BY <1>1, <1>2 DEF agentVars
  <1>3. ASSUME NEW a \in plan, SendPrompt(a) PROVE Goal
    <2>1. a.run \in RunId
      BY DEF PassInv, Planned
    <2>2. prompts' \in [RunId -> 0 .. MaxPrompts]
      BY <1>1, <1>3, <2>1, RunRepairAssumption DEF SendPrompt
    <2> QED BY <1>1, <1>3, <2>2 DEF SendPrompt, agentVars, vars
  <1>4. ASSUME NEW a \in Agents, NEW r \in RunId, AgentClaims(a, r) PROVE Goal
    <2>1. runs'[r].generation = runs[r].generation + 1 /\ runs[r].generation < MaxGeneration
      BY <1>4 DEF AgentClaims, claim_run, commit_record, Inv, TypeOK, RunRecord
    <2>2. runs[r].generation \in Nat
      <3>1. runs[r] \in RunRecord
        BY <1>4, Zenon DEF AgentClaims, Inv, TypeOK
      <3> QED BY <3>1 DEF RunRecord
    <2>3. <<r, runs'[r].generation>> \in RunId \X (1 .. MaxGeneration)
      BY <2>1, <2>2, BoundsAssumption
    <2>4. held' \in [Agents -> (RunId \X (1 .. MaxGeneration)) \cup {None}]
      BY <1>1, <1>4, <2>3 DEF AgentClaims
    <2> QED BY <1>1, <1>4, <2>4 DEF AgentClaims, claim_run, RunVars
  <1>5. ASSUME NEW a \in Agents, NEW r \in RunId, NEW l \in Lane, AgentStarts(a, r, l)
        PROVE  Goal
    <2>1. <<r, 1>> \in RunId \X (1 .. MaxGeneration)
      BY BoundsAssumption
    <2>2. held' \in [Agents -> (RunId \X (1 .. MaxGeneration)) \cup {None}]
      BY <1>1, <1>5, <2>1 DEF AgentStarts
    <2> QED BY <1>1, <1>5, <2>2 DEF AgentStarts, CreateRunning, create_run, RunVars
  <1>6. ASSUME NEW a \in Agents, AgentEnds(a) PROVE Goal
    <2>1. held' \in [Agents -> (RunId \X (1 .. MaxGeneration)) \cup {None}]
      BY <1>1, <1>6 DEF AgentEnds
    <2> QED
      BY <1>1, <1>6, <2>1
      DEF AgentEnds, RunVars, complete_run, release_claim, EndClaim, vars
  <1>7. ASSUME NEW a \in Agents, AgentRenews(a) PROVE Goal
    BY <1>2, <1>7 DEF AgentRenews, renew_claim, RunVars
  <1>8. ASSUME NEW r \in RunId, NEW l \in Lane, NewRun(r, l) PROVE Goal
    BY <1>2, <1>8 DEF NewRun, CreateFresh, create_run, RunVars
  <1>9. ASSUME NEW a \in Agents, WorkTaken(a) \/ AgentDies(a) PROVE Goal
    BY <1>1, <1>9 DEF WorkTaken, AgentDies, RunVars, vars
  <1>10. ASSUME NEW a \in Agents, NEW l \in Lane, WorkAssigned(a, l) PROVE Goal
    BY <1>1, <1>10 DEF WorkAssigned, RunVars, vars
  <1>11. ASSUME NEW l \in Lane, TaskMerged(l) PROVE Goal
    BY <1>1, <1>11 DEF TaskMerged, RunVars, vars
  <1>12. ASSUME Clock PROVE Goal
    BY <1>1, <1>12 DEF Clock, Tick, RunVars, agentVars
  <1>13. ASSUME NEW a \in plan, RetryAttempt(a) \/ BeginRepair(a) \/ SkipContinuation(a)
         PROVE  Goal
    BY <1>2, <1>13, Zenon
    DEF RetryAttempt, BeginRepair, SkipContinuation, Done, start_retry_attempt, vars
  <1>14. ASSUME claim_run_for_repair PROVE Goal
    BY <1>2, <1>14 DEF claim_run_for_repair, claim_run, Abort, vars
  <1>15. ASSUME ApplyRepair PROVE Goal
    BY <1>2, <1>15, Zenon DEF ApplyRepair, StoreCall, renew_claim, release_claim, fail_run,
                       queue_retry, EndClaim, Done, Abort, vars
  <1>16. ASSUME RecordTurn PROVE Goal
    BY <1>2, <1>16 DEF RecordTurn, record_continuation, Done, Abort, vars
  <1>17. ASSUME StartPass \/ StartContinuations \/ EndTick PROVE Goal
    BY <1>2, <1>17 DEF StartPass, StartContinuations, EndTick, vars
  <1> HIDE DEF Goal
  <1>18. ASSUME Pass PROVE Goal
    BY ONLY <1>3, <1>13, <1>14, <1>15, <1>16, <1>17, <1>18 DEF Pass
  <1>19. Goal
    BY <1>4, <1>5, <1>6, <1>7, <1>8, <1>9, <1>10, <1>11, <1>12, <1>18 DEF RepairNext
  <1> QED BY <1>19 DEF Goal

\* The passes' own state, as far as it does not depend on the store.
PlanTypes ==
    /\ phase \in {"idle", "repair", "continue"} /\ seen \in 0 .. now
    /\ plan \subseteq Planned
    /\ cur # None => cur.of \in plan
    /\ phase = "idle" => cur = None

\* The repairs a pass has planned and the one it is at are sound.
Sound ==
    phase = "repair" => /\ \A a \in plan : SoundPlan(a)
                        /\ cur # None => SoundRepair

\* A step outside the passes, while the board rests or the pass is idle.
LEMMA OtherStep ==
    ASSUME Inv, Inv', PassInv, \A r \in RunId : RunKept(r), now <= now',
           UNCHANGED passVars, phase # "idle" => UNCHANGED <<alive, over>>
    PROVE  PlanTypes' /\ Sound'
  <1>1. PlanTypes'
    <2>1. seen \in 0 .. now' /\ UNCHANGED <<phase, seen, plan, cur>>
      <3>1. /\ now \in 0 .. MaxTime /\ now' \in 0 .. MaxTime /\ seen \in 0 .. now
            /\ UNCHANGED <<phase, seen, plan, cur>>
        BY Zenon DEF PassInv, RepairTypeOK, passVars, Inv, TypeOK, Time
      <3>2. seen \in 0 .. now'
        BY ONLY <3>1, now <= now', BoundsAssumption
      <3> QED BY <3>1, <3>2
    <2> QED BY <2>1, Zenon DEF PassInv, RepairTypeOK, PlanTypes
  <1>2. Sound'
    <2> SUFFICES ASSUME phase = "repair"
                 PROVE  (\A a \in plan' : SoundPlan(a)') /\ (cur' # None => SoundRepair')
      BY DEF Sound, passVars
    <2>1. UNCHANGED <<alive, over, seen, cur, plan>>
      BY DEF passVars
    <2>2. \A a \in plan : SoundPlan(a)'
      BY <2>1, PlanStaysSound DEF PassInv
    <2>3. cur # None => SoundRepair'
      BY <2>1, RepairStaysSound DEF PassInv
    <2> QED BY <2>1, <2>2, <2>3
  <1> QED BY <1>1, <1>2

\* A repair is over: the rest of the plan is as sound as before.
LEMMA DoneStep ==
    ASSUME Inv, Inv', PassInv, \A r \in RunId : RunKept(r), now' = now,
           NEW b, Done(b), phase # "idle"
    PROVE  PlanTypes' /\ Sound'
  <1>1. /\ plan' \subseteq plan /\ cur' = None
        /\ UNCHANGED <<phase, seen, alive, over>>
    BY DEF Done, agentVars
  <1>2. PlanTypes'
    BY <1>1 DEF PassInv, RepairTypeOK, PlanTypes
  <1>3. ASSUME phase = "repair", NEW a \in plan' PROVE SoundPlan(a)'
    <2>1. a \in Planned /\ SoundPlan(a)
      BY <1>1, <1>3 DEF PassInv
    <2> QED BY <1>1, <2>1, PlanStaysSound
  <1> QED BY <1>1, <1>2, <1>3 DEF Sound

\* The tick ends with an error.
LEMMA AbortStep ==
    ASSUME Inv, PassInv, Abort
    PROVE  PlanTypes' /\ Sound'
  BY DEF Abort, PassInv, RepairTypeOK, PlanTypes, Sound, vars

\* reconcile_before_dispatch plans.
LEMMA StartStep ==
    ASSUME Inv, PassInv, StartPass
    PROVE  PlanTypes' /\ Sound'
  <1>1. /\ phase = "idle" /\ phase' = "repair" /\ seen' = now /\ plan' = Plan
        /\ UNCHANGED <<runs, now, alive, over, cur>> /\ cur = None
    BY DEF StartPass, PassInv, vars, agentVars
  <1>2. RepairTypeOK
    BY DEF PassInv
  <1>3. PlanTypes'
    <2>1. now \in 0 .. now
      BY BoundsAssumption DEF Inv, TypeOK, Time
    <2>2. Plan \subseteq Planned
      BY <1>2, PlanIsSound
    <2> QED BY <1>1, <2>1, <2>2 DEF PlanTypes
  <1>4. ASSUME NEW a \in Plan PROVE SoundPlan(a)'
    <2>1. /\ a \in Planned /\ a.do # "prompt"
          /\ a.rec = runs[a.run] /\ runs[a.run] # None
          /\ a.do = "renew" => a.rec.owner \in Owner
      BY <1>2, PlanIsSound
    <2>2. (a.do \in {"release", "fail"} /\ ~NeedsClaim(a)') => NotWorked(a.rec)'
      BY <1>1, <1>2, PlanIsSound DEF NeedsClaim, NotWorked
    <2>3. a.rec.generation \in Int
      <3>1. a.rec \in RunRecord
        BY <2>1 DEF Planned
      <3> QED BY <3>1, GenerationType, Zenon
    <2>4. runs[a.run].generation >= a.rec.generation
      BY ONLY <2>1, <2>3
    <2> QED BY <1>1, <2>1, <2>2, <2>4, Zenon DEF SoundPlan, ClaimOf, Claimed
  <1> QED BY <1>1, <1>3, <1>4 DEF Sound

\* apply_run_renewal, apply_run_release or apply_run_failure begins: without a
\* claim of its own it relies on what the plan knows of the run.
LEMMA BeginStep ==
    ASSUME Inv, PassInv, NEW a \in plan, BeginRepair(a)
    PROVE  PlanTypes' /\ Sound'
  <1>1. /\ phase = "repair" /\ a.do # "retry"
        /\ UNCHANGED <<runs, now, alive, over, phase, seen, plan>>
        /\ a \in Planned /\ SoundPlan(a)
    BY DEF BeginRepair, NextRepair, PassInv, vars, agentVars
  <1>2. a.do \in {"renew", "release", "fail"}
    BY <1>1 DEF Planned, SoundPlan
  <1> DEFINE do == IF a.do = "fail" /\ decide_retry(a.rec) THEN "queue" ELSE a.do
             stage == IF NeedsClaim(a) THEN "claim" ELSE "apply"
  <1>3. cur' = [do |-> do, of |-> a, run |-> a.run, generation |-> a.rec.generation,
                stage |-> stage, again |-> FALSE]
    BY DEF BeginRepair
  <1>4. /\ do \in {"renew", "release", "fail", "queue"}
        /\ do = "renew" <=> a.do = "renew"
        /\ stage \in {"claim", "apply"}
        /\ stage = "apply" => ~NeedsClaim(a)
    BY <1>2
  <1> HIDE DEF do, stage
  <1>5. /\ cur' \in Repairing /\ cur'.run = a.run /\ cur'.of = a /\ cur'.do = do
        /\ cur'.stage = stage /\ cur'.generation = a.rec.generation
    BY <1>1, <1>3, <1>4 DEF Repairing, Planned, RunRecord
  <1>6. PlanTypes'
    BY <1>1, <1>5 DEF PassInv, RepairTypeOK, PlanTypes
  <1>7. ASSUME NEW b \in plan PROVE SoundPlan(b)'
    <2>1. SoundPlan(b)
      BY <1>1 DEF PassInv
    <2>2. NeedsClaim(b)' <=> NeedsClaim(b)
      BY <1>1 DEF NeedsClaim
    <2> QED BY <1>1, <2>1, <2>2, Zenon DEF SoundPlan, NotWorked, ClaimOf, Claimed
  <1>8. SoundRepair'
    <2>1. ASSUME do # "renew", stage = "apply" PROVE NotWorked(a.rec)
      BY <1>1, <1>2, <1>4, <2>1, Zenon DEF SoundPlan
    <2>2. ASSUME do # "renew", stage = "apply", Claimed(a.run),
                 runs[a.run].generation = a.rec.generation
          PROVE  NotWorked(runs[a.run])
      BY <1>1, <2>1, <2>2 DEF SoundPlan, ClaimOf, NotWorked
    <2> QED
      BY <1>1, <1>4, <1>5, <2>2, Zenon DEF SoundRepair, SoundPlan, NotWorked, Claimed
  <1> QED BY <1>1, <1>6, <1>7, <1>8 DEF Sound

\* The reconciler takes the run in its own name before it ends the claim, and
\* in the owner's before it renews it.
LEMMA RepairClaimStep ==
    ASSUME Inv, Inv', PassInv, \A r \in RunId : RunKept(r), claim_run_for_repair
    PROVE  PlanTypes' /\ Sound'
  <1>1. CASE Abort
    BY <1>1, AbortStep
  <1> DEFINE owner == IF cur.do = "renew" THEN cur.of.rec.owner ELSE Reconciler
  <1>2. CASE ~Abort
    <2>1. /\ phase = "repair" /\ cur # None /\ SoundRepair
          /\ claim_run(cur.run, owner, seen, seen + RepairLease)
          /\ cur' = [cur EXCEPT !.stage = "apply",
                                !.generation = runs'[cur.run].generation]
          /\ UNCHANGED <<alive, over, phase, seen, plan, now>>
      BY <1>2 DEF claim_run_for_repair, PassInv, agentVars, claim_run
    <2>2. cur \in Repairing /\ cur.run \in RunId /\ cur.of \in plan
      BY <2>1 DEF SoundRepair, Repairing, PassInv, RepairTypeOK
    <2>3. runs[cur.run] # None /\ runs'[cur.run] # None
      BY <2>1, <2>2 DEF claim_run, RunKept
    <2>4. runs'[cur.run].generation \in 0 .. MaxGeneration
      BY <2>2, <2>3 DEF Inv, TypeOK, RunRecord
    <2>5. /\ cur' \in Repairing /\ cur'.run = cur.run /\ cur'.of = cur.of
          /\ cur'.do = cur.do /\ cur'.generation = runs'[cur.run].generation
      BY <2>1, <2>2, <2>4, Zenon DEF Repairing
    <2>6. PlanTypes'
      BY <2>1, <2>2, <2>5 DEF PassInv, RepairTypeOK, PlanTypes
    <2>7. \A a \in plan : SoundPlan(a)'
      BY <2>1, PlanStaysSound DEF PassInv
    <2>8. ASSUME cur.do # "renew" PROVE NotWorked(runs[cur.run])'
      <3>1. runs'[cur.run].owner = Reconciler
        BY <2>1, <2>2, <2>3, <2>8 DEF claim_run, commit_record, Inv, TypeOK, RunRecord
      <3>2. Reconciler \notin alive'
        BY <2>1 DEF PassInv, RepairTypeOK, Agents
      <3> QED BY <2>5, <3>1, <3>2 DEF NotWorked
    <2>9. SoundRepair'
      BY <2>1, <2>3, <2>4, <2>5, <2>8 DEF SoundRepair, NotWorked, Claimed
    <2> QED BY <2>1, <2>6, <2>7, <2>9 DEF Sound
  <1> QED BY <1>1, <1>2

\* A store call of the repair under way ends it, or it claims once more.
LEMMA ApplyStep ==
    ASSUME Inv, Inv', PassInv, \A r \in RunId : RunKept(r), ApplyRepair
    PROVE  PlanTypes' /\ Sound'
  <1>1. phase = "repair" /\ cur # None /\ SoundRepair
    BY DEF ApplyRepair, PassInv
  <1>2. CASE Abort
    BY <1>2, AbortStep
  <1>3. CASE Done(cur.of) /\ now' = now
    BY <1>1, <1>3, DoneStep
  <1>4. CASE /\ cur' = [cur EXCEPT !.stage = "claim", !.again = TRUE]
             /\ UNCHANGED <<vars, agentVars, phase, seen, plan, prompts>>
    <2>1. UNCHANGED <<runs, now, alive, over, phase, seen, plan>>
      BY <1>4 DEF vars, agentVars
    <2>2. cur \in Repairing /\ cur.of \in plan
      BY <1>1, Zenon DEF SoundRepair, PassInv, RepairTypeOK
    <2>3. /\ cur' \in Repairing /\ cur'.run = cur.run /\ cur'.of = cur.of
          /\ cur'.do = cur.do /\ cur'.stage = "claim"
      BY <1>4, <2>2, Zenon DEF Repairing
    <2>4. PlanTypes'
      BY <1>1, <2>1, <2>2, <2>3, Zenon DEF PassInv, RepairTypeOK, PlanTypes
    <2>5. \A a \in plan : SoundPlan(a)'
      BY <1>1, <2>1, PlanStaysSound DEF PassInv
    <2>6. SoundRepair'
      BY <1>1, <2>3, Zenon DEF SoundRepair
    <2> QED BY <2>1, <2>4, <2>5, <2>6 DEF Sound
  <1>5. StoreCall => now' = now
    BY DEF StoreCall, renew_claim, release_claim, fail_run, queue_retry, EndClaim
  <1>6. UNCHANGED vars => now' = now
    BY DEF vars
  <1> QED BY <1>2, <1>3, <1>4, <1>5, <1>6 DEF ApplyRepair

\* The continuation pass takes its snapshot.
LEMMA ContinuationsStep ==
    ASSUME Inv, PassInv, StartContinuations
    PROVE  PlanTypes' /\ Sound'
  <1>1. /\ phase' = "continue" /\ seen' = now /\ now' = now /\ cur' = None
        /\ plan' = {Repair("prompt", r) :
                      r \in {q \in active_runs : has_active_claim(runs[q].status)}}
    BY DEF StartContinuations, vars
  <1>2. plan' \subseteq Planned
    <2>1. ASSUME NEW r \in active_runs PROVE Repair("prompt", r) \in Planned
      <3>1. r \in RunId /\ runs[r] \in RunRecord
        BY DEF active_runs, is_active, Inv, TypeOK
      <3> QED BY <3>1 DEF Repair, Planned
    <2> QED BY <1>1, <2>1
  <1>3. now \in 0 .. now
    BY BoundsAssumption DEF Inv, TypeOK, Time
  <1> QED BY <1>1, <1>2, <1>3 DEF PlanTypes, Sound

\* Every step of a pass keeps its plan sound.
LEMMA PassStep ==
    ASSUME Inv, Inv', PassInv, \A r \in RunId : RunKept(r), Pass
    PROVE  PlanTypes' /\ Sound'
  <1>1. ASSUME NEW a \in plan, RetryAttempt(a) PROVE PlanTypes' /\ Sound'
    <2>1. Done(a) /\ now' = now /\ phase # "idle"
      BY <1>1, Zenon DEF RetryAttempt, NextRepair, start_retry_attempt, vars
    <2> QED BY <2>1, DoneStep
  <1>2. ASSUME NEW a \in plan, SkipContinuation(a) PROVE PlanTypes' /\ Sound'
    <2>1. Done(a) /\ now' = now /\ phase # "idle"
      BY <1>2 DEF SkipContinuation, vars
    <2> QED BY <2>1, DoneStep
  <1>3. ASSUME NEW a \in plan, SendPrompt(a) PROVE PlanTypes' /\ Sound'
    BY <1>3, Zenon DEF SendPrompt, PlanTypes, Sound, PassInv, RepairTypeOK, vars
  <1>4. CASE RecordTurn
    <2>1. CASE Abort
      BY <2>1, AbortStep
    <2>2. CASE ~Abort
      <3>1. Done(cur.of) /\ now' = now /\ phase # "idle"
        BY <1>4, <2>2 DEF RecordTurn, record_continuation
      <3> QED BY <3>1, DoneStep
    <2> QED BY <2>1, <2>2
  <1>5. CASE EndTick
    BY <1>5, Zenon DEF EndTick, PlanTypes, Sound, PassInv, RepairTypeOK, vars
  <1> QED
    BY <1>1, <1>2, <1>3, <1>4, <1>5, StartStep, BeginStep, RepairClaimStep, ApplyStep,
       ContinuationsStep DEF Pass

\* The passes keep their invariant and the store's.
LEMMA RepairInvStep == Inv /\ PassInv /\ [RepairNext]_allVars => Inv' /\ PassInv'
  <1>1. ASSUME Inv, PassInv, RepairNext PROVE Inv' /\ PassInv'
    <2>1. StoreStep
      BY <1>1, RepairSteps
    <2>2. Inv' /\ \A r \in RunId : RunKept(r)
      BY <1>1, <2>1, StoreStepKeepsInv, StoreStepKeepsRuns
    <2>3. /\ held' \in [Agents -> (RunId \X (1 .. MaxGeneration)) \cup {None}]
          /\ alive' \subseteq Agents /\ over' \subseteq Lane
          /\ working' \in [Agents -> Lane \cup {None}]
          /\ prompts' \in [RunId -> 0 .. MaxPrompts]
          /\ now <= now'
      BY <1>1, <2>2, AgentTypes
    <2>4. PlanTypes' /\ Sound'
      <3>1. CASE Pass
        BY <1>1, <2>2, <3>1, PassStep
      <3>2. CASE ~Pass
        <4>1. UNCHANGED passVars /\ (phase # "idle" => UNCHANGED <<alive, over>>)
          BY <1>1, <3>2, Zenon
          DEF RepairNext, NewRun, AgentClaims, AgentStarts, AgentRenews, AgentEnds,
              WorkTaken, AgentDies, WorkAssigned, TaskMerged, Clock, RunVars, agentVars
        <4> QED BY <1>1, <2>2, <2>3, <4>1, OtherStep
      <3> QED BY <3>1, <3>2
    <2>5. \A a \in plan' : a.run \in RunId /\ a.rec \in RunRecord
      BY <2>4 DEF PlanTypes, Planned
    <2>6. RepairTypeOK'
      BY <2>2, <2>3, <2>4, <2>5 DEF RepairTypeOK, PlanTypes, Inv
    <2> QED BY <2>2, <2>4, <2>6 DEF PassInv, PlanTypes, Sound
  <1>2. ASSUME Inv, PassInv, UNCHANGED allVars PROVE Inv' /\ PassInv'
    <2>1. Inv'
      BY <1>2, StoreStepKeepsInv DEF allVars, StoreStep
    <2>2. UNCHANGED <<runs, now, held, alive, working, over, phase, seen, plan, cur, prompts>>
      BY <1>2 DEF allVars, vars, agentVars, passVars
    <2>3. RepairTypeOK'
      BY <1>2, <2>1, <2>2, Zenon DEF PassInv, RepairTypeOK, Inv
    <2>4. \A a \in plan : SoundPlan(a)' <=> SoundPlan(a)
      BY <2>2 DEF SoundPlan, NeedsClaim, NotWorked, ClaimOf, Claimed
    <2>5. SoundRepair' <=> SoundRepair
      BY <2>2, Zenon DEF SoundRepair, NotWorked, Claimed
    <2> QED BY <1>2, <2>1, <2>2, <2>3, <2>4, <2>5 DEF PassInv
  <1> QED BY <1>1, <1>2

\* Under the orchestrator's passes and the agents' claims the store keeps its
\* invariant, and what a pass has planned stays sound.
THEOREM RepairInvariance == RepairSpec => [](Inv /\ PassInv)
  <1>1. RepairInit => Inv /\ PassInv
    <2> SUFFICES ASSUME RepairInit PROVE Inv /\ PassInv
      OBVIOUS
    <2>1. Inv
      BY InvInit, Zenon DEF RepairInit
    <2>2. TypeOK /\ 0 \in 0 .. now /\ 0 \in 0 .. MaxPrompts
      <3>1. TypeOK /\ now = 0
        BY <2>1, Zenon DEF RepairInit, Init, Inv
      <3> QED BY <3>1, RunRepairAssumption
    <2>3. RepairTypeOK
      BY <2>2, Zenon DEF RepairInit, RepairTypeOK
    <2> QED BY <2>1, <2>3 DEF RepairInit, PassInv
  <1> QED BY <1>1, RepairInvStep, PTL DEF RepairSpec

\* The run store's guarantees hold while the reconciler plans from snapshots
\* and repairs, agents claim and die, and retries start.
THEOREM RepairsKeepTheStore ==
    RepairSpec => [](OneActiveRunPerLane /\ RetryConsumedOnce)
  <1>1. Inv => OneActiveRunPerLane /\ RetryConsumedOnce
    BY DEF Inv, IndexInv, RetryInv, OneActiveRunPerLane
  <1> QED BY <1>1, RepairInvariance, PTL

\* A pass never takes a run from an agent at work: a claim it ends is of the
\* planned generation, so of the owner the plan found dead, or its own.
THEOREM AgentsKeepTheirWork == RepairSpec => WorkIsNotTaken
  <1> DEFINE Keeps == Pass => \A r \in RunId : Working(r) =>
                /\ runs'[r].owner = runs[r].owner
                /\ runs'[r].generation = runs[r].generation
                /\ has_active_claim(runs'[r].status)
  <1>1. ASSUME Inv, PassInv PROVE Keeps
    <2> SUFFICES ASSUME Pass, NEW r \in RunId, Working(r)
                 PROVE  /\ runs'[r].owner = runs[r].owner
                        /\ runs'[r].generation = runs[r].generation
                        /\ has_active_claim(runs'[r].status)
      BY DEF Keeps
    <2> DEFINE Kept == /\ runs'[r].owner = runs[r].owner
                       /\ runs'[r].generation = runs[r].generation
                       /\ has_active_claim(runs'[r].status)
    <2>1. /\ runs[r] \in RunRecord /\ runs[r] # None /\ Claimed(r)
          /\ has_active_claim(runs[r].status)
          /\ ~claim_is_expired_at(runs[r], now) /\ ~NotWorked(runs[r])
      BY <1>1, Zenon DEF Working, Expired, ActiveOperation, SessionAlive, NotWorked, Claimed,
                  Inv, TypeOK
    <2>2. ASSUME runs'[r] = runs[r] PROVE Kept
      BY <2>1, <2>2, Zenon
    <2>3. ASSUME NEW q \in RunId, q # r, NEW rec, commit_record(q, rec) PROVE Kept
      BY <1>1, <2>2, <2>3, Zenon DEF commit_record, Inv, TypeOK
    <2>4. ASSUME UNCHANGED vars PROVE Kept
      BY <2>2, <2>4 DEF vars
    <2>5. ASSUME NEW a \in plan, RetryAttempt(a) PROVE Kept
      <3>1. CASE UNCHANGED vars
        BY <2>4, <3>1
      <3>2. CASE start_retry_attempt(a.run, a.rec.generation, RetryRun[a.run], seen)
        <4>1. r # a.run /\ r # RetryRun[a.run]
          BY <2>1, <3>2 DEF start_retry_attempt, has_active_claim
        <4>2. runs'[r] = runs[r]
          BY <1>1, <3>2, <4>1, Zenon DEF start_retry_attempt, Inv, TypeOK
        <4> QED BY <2>2, <4>2
      <3> QED BY <2>5, <3>1, <3>2, Zenon DEF RetryAttempt
    <2>6. ASSUME claim_run_for_repair PROVE Kept
      <3>1. CASE Abort
        BY <2>4, <3>1 DEF Abort
      <3>2. CASE ~Abort
        <4>1. /\ can_claim(runs[cur.run]) /\ cur.run \in RunId
              /\ \E rec : commit_record(cur.run, rec)
          BY <1>1, <2>6, <3>2
          DEF claim_run_for_repair, claim_run, PassInv, SoundRepair, Repairing
        <4>2. cur.run # r
          BY <2>1, <4>1, Zenon DEF can_claim, has_active_claim, retry_is_due_at
        <4> QED BY <2>3, <4>1, <4>2, Zenon
      <3> QED BY <3>1, <3>2, Zenon
    <2>7. ASSUME NEW q \in RunId, NEW g, renew_claim(q, g) PROVE Kept
      <3>1. CASE q = r
        <4>1. runs'[r] = [runs[r] EXCEPT !.lease = now + RenewalTime]
          BY <1>1, <2>7, <3>1 DEF renew_claim, commit_record, Inv, TypeOK
        <4> QED BY <2>1, <4>1 DEF RunRecord
      <3>2. CASE q # r
        BY <2>3, <2>7, <3>2 DEF renew_claim
      <3> QED BY <3>1, <3>2, Zenon
    <2>8. ASSUME ApplyRepair PROVE Kept
      <3>1. /\ SoundRepair /\ cur.run \in RunId /\ cur.stage = "apply"
        BY <1>1, <2>8 DEF ApplyRepair, PassInv, SoundRepair, Repairing
      <3>2. CASE UNCHANGED vars
        BY <2>4, <3>2
      <3>3. CASE cur.do = "renew" /\ renew_claim(cur.run, cur.generation)
        BY <2>7, <3>1, <3>3, Zenon
      <3>4. ASSUME cur.do # "renew", NEW rec, EndClaim(cur.run, cur.generation, rec)
            PROVE  Kept
        <4>1. cur.run # r
          BY <2>1, <3>1, <3>4, Zenon DEF EndClaim, ensure_current, SoundRepair, Claimed
        <4> QED BY <2>3, <3>1, <3>4, <4>1, Zenon DEF EndClaim
      <3> QED
        BY <2>8, <3>2, <3>3, <3>4, Zenon
        DEF ApplyRepair, StoreCall, release_claim, fail_run, queue_retry, Abort
    <2>9. ASSUME RecordTurn PROVE Kept
      <3>1. cur.of \in plan /\ cur.of.run \in RunId
        BY <1>1, <2>9 DEF RecordTurn, PassInv, RepairTypeOK
      <3>2. CASE Abort
        BY <2>4, <3>2 DEF Abort
      <3>3. CASE cur.of.run # r
        BY <2>3, <2>9, <3>1, <3>2, <3>3 DEF RecordTurn, record_continuation
      <3>4. CASE cur.of.run = r /\ ~Abort
        <4>1. runs'[r] = [runs[r] EXCEPT !.turns = cur.of.rec.turns + 1]
          BY <1>1, <2>9, <3>4
          DEF RecordTurn, record_continuation, commit_record, Inv, TypeOK
        <4> QED BY <2>1, <4>1 DEF RunRecord
      <3> QED BY <3>2, <3>3, <3>4, Zenon
    <2> HIDE DEF Kept
    <2>10. Kept
      BY <2>4, <2>5, <2>6, <2>8, <2>9, Zenon
      DEF Pass, StartPass, BeginRepair, SkipContinuation, SendPrompt,
          StartContinuations, EndTick
    <2> QED BY <2>10 DEF Kept
  <1> QED BY <1>1, RepairInvariance, PTL DEF RepairSpec, WorkIsNotTaken
=============================================================================
