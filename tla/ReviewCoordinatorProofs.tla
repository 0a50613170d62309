---------------------- MODULE ReviewCoordinatorProofs ----------------------
(***************************************************************************)
(* The lease queue gives an item to one claim at a time and removes a row  *)
(* only for a live one, for any lanes, items, claims and restarts.  Over   *)
(* it, a review request is approved at most once, its approval is the last *)
(* verdict, it stays queued until then, and reviewer sessions go with      *)
(* their review: for any requests, lanes, claims, reviewers, opinions,     *)
(* policy, failures and crashes.                                           *)
(***************************************************************************)
EXTENDS ReviewCoordinator, WellFoundedInduction, TLAPS

-----------------------------------------------------------------------------
\* The lease queue.

Readable(c) == lease[c] \notin {None, Malformed}

\* A lease was written by this process or an earlier one; while recovery runs
\* all are from an earlier one, so none is live.
EpochInv ==
    \A c \in ClaimId :
        Readable(c) => /\ lease[c].epoch <= epoch
                       /\ ~up => lease[c].epoch < epoch

Inv == TypeOK /\ LeasesAreMarked /\ EpochInv

-----------------------------------------------------------------------------
\* A readable lease is a Lease record.
LEMMA ReadableIsLease ==
    ASSUME TypeOK, NEW c \in ClaimId, Readable(c)
    PROVE  /\ lease[c] \in Lease
           /\ lease[c].lane \in Lane
           /\ lease[c].item \in Item
           /\ lease[c].epoch \in 0 .. MaxCrashes
           /\ lease[c].deadline \in 0 .. MaxTime + LeaseFor
  <1>1. lease[c] \in Lease
    BY DEF TypeOK, Readable
  <1> QED
    BY <1>1 DEF Lease

\* Inserting or removing one lease or marker keeps the types.
LEMMA NewLeaseType ==
    ASSUME TypeOK, NEW q \in Lane, NEW i \in Item
    PROVE  NewLease(q, i) \in Lease
  <1>1. now + LeaseFor \in 0 .. MaxTime + LeaseFor
    BY LeaseQueueAssumption DEF TypeOK
  <1> QED
    BY <1>1 DEF TypeOK, NewLease, Lease

\* The initial states have the types.
LEMMA TypeInit == Init => TypeOK
  <1> SUFFICES ASSUME Init PROVE TypeOK
    OBVIOUS
  <1> USE DEF Init
  <1>1. rows \in [Rows -> Row \cup {None}]
    OBVIOUS
  <1>2. /\ lease \in [ClaimId -> Lease \cup {None, Malformed}]
        /\ marker \in [Lane \X Item -> ClaimId \cup {None}]
        /\ used \in SUBSET ClaimId
    BY Zenon
  <1>3. /\ written \in 0 .. MaxRows
        /\ epoch \in 0 .. MaxCrashes
        /\ now \in 0 .. MaxTime
    BY LeaseQueueAssumption
  <1>4. /\ cleaning \in SUBSET ClaimId
        /\ up \in BOOLEAN
        /\ held \in SUBSET used
        /\ acked \in SUBSET Rows
    OBVIOUS
  <1> QED
    BY <1>1, <1>2, <1>3, <1>4 DEF TypeOK

\* Every step keeps the types.
LEMMA TypeStep == TypeOK /\ [Next]_vars => TypeOK'
  <1> SUFFICES ASSUME TypeOK, [Next]_vars PROVE TypeOK'
    OBVIOUS
  <1> USE LeaseQueueAssumption
  <1>1. ASSUME NEW q \in Lane, NEW i \in Item, Enqueue(q, i) PROVE TypeOK'
    <2>1. rows' \in [Rows -> Row \cup {None}]
      BY <1>1 DEF Enqueue, TypeOK, Row, Rows
    <2> QED
      BY <2>1, <1>1 DEF Enqueue, TypeOK
  <1>2. ASSUME NEW q \in Lane, NEW c \in ClaimId, claim_next(q, c) PROVE TypeOK'
    <2>1. PICK n \in Rows, i \in Item :
            /\ lease' = [d \in ClaimId |->
                            IF d = c THEN NewLease(q, i)
                            ELSE IF d = marker[<<q, i>>] /\ StaleLease(d) THEN None
                            ELSE lease[d]]
            /\ marker' = [marker EXCEPT ![<<q, i>>] = c]
      BY <1>2, Zenon DEF claim_next
    <2>2. lease' \in [ClaimId -> Lease \cup {None, Malformed}]
      BY <2>1, NewLeaseType DEF TypeOK
    <2>3. marker' \in [Lane \X Item -> ClaimId \cup {None}]
      BY <2>1 DEF TypeOK
    <2> QED
      BY <1>2, <2>2, <2>3 DEF claim_next, TypeOK
  <1>3. ASSUME NEW c \in ClaimId, DropExpired(c)
        PROVE  /\ lease' \in [ClaimId -> Lease \cup {None, Malformed}]
               /\ marker' \in [Lane \X Item -> ClaimId \cup {None}]
    BY <1>3, Zenon DEF DropExpired, TypeOK
  <1>4. ASSUME NEW c \in ClaimId, ack_claim(c) PROVE TypeOK'
    <2>1. CASE DropExpired(c)
      BY <1>3, <1>4, <2>1, Zenon DEF ack_claim, DropExpired, TypeOK
    <2>2. CASE ~DropExpired(c)
      BY <1>4, <2>2, Zenon DEF ack_claim, TypeOK, Rows
    <2> QED
      BY <2>1, <2>2
  <1>5. ASSUME NEW c \in ClaimId, renew_claim(c) PROVE TypeOK'
    <2>1. CASE DropExpired(c)
      BY <1>3, <1>5, <2>1, Zenon DEF renew_claim, DropExpired, TypeOK
    <2>2. CASE ~DropExpired(c)
      <3>1. lease' = [lease EXCEPT ![c] = NewLease(lease[c].lane, lease[c].item)]
        BY <1>5, <2>2 DEF renew_claim, TypeOK
      <3>2. Readable(c)
        BY <1>5 DEF renew_claim, Readable
      <3>4. NewLease(lease[c].lane, lease[c].item) \in Lease
        BY <3>2, ReadableIsLease, NewLeaseType
      <3>5. lease' \in [ClaimId -> Lease \cup {None, Malformed}]
        BY <3>1, <3>4 DEF TypeOK
      <3> QED
        BY <1>5, <2>2, <3>5 DEF renew_claim, TypeOK
    <2> QED
      BY <2>1, <2>2
  <1>6. CASE cleanup_expired_claims
    BY <1>6 DEF cleanup_expired_claims, TypeOK
  <1>7. CASE Tick
    BY <1>7 DEF Tick, TypeOK
  <1>8. ASSUME NEW c \in ClaimId, Abandon(c) PROVE TypeOK'
    BY <1>8 DEF Abandon, TypeOK
  <1>9. CASE Restart
    <2>1. epoch' \in 0 .. MaxCrashes /\ now' \in 0 .. MaxTime
      BY <1>9 DEF Restart, TypeOK
    <2>2. cleaning' \in SUBSET ClaimId /\ up' \in BOOLEAN
      BY <1>9, Zenon DEF Restart
    <2>3. held' \in SUBSET used'
      BY <1>9 DEF Restart
    <2> QED
      BY <1>9, <2>1, <2>2, <2>3 DEF Restart, TypeOK
  <1>10. ASSUME NEW c \in ClaimId, RemoveMarker(c) PROVE TypeOK'
    BY <1>10, Zenon DEF RemoveMarker, TypeOK
  <1>11. ASSUME NEW c \in ClaimId, RemoveLease(c) PROVE TypeOK'
    BY <1>11 DEF RemoveLease, TypeOK
  <1>12. CASE RecoveryDone
    BY <1>12 DEF RecoveryDone, TypeOK
  <1>13. CASE UNCHANGED vars
    BY <1>13 DEF vars, TypeOK
  <1> QED
    BY <1>1, <1>2, <1>4, <1>5, <1>6, <1>7, <1>8, <1>9, <1>10, <1>11, <1>12, <1>13
    DEF Next
-----------------------------------------------------------------------------
\* At most one readable lease per lane and item while the store is open.
LEMMA OneLeasePerItem ==
    ASSUME LeasesAreMarked, up, NEW c \in ClaimId, NEW d \in ClaimId,
           Readable(c), Readable(d),
           lease[c].lane = lease[d].lane, lease[c].item = lease[d].item
    PROVE  c = d
  BY Zenon DEF LeasesAreMarked, Readable

\* A marker that is written or removed leaves every other item's alone.
LEMMA OtherMarkers ==
    ASSUME TypeOK, NEW c \in ClaimId, Readable(c),
           NEW q \in Lane, NEW i \in Item, NEW m,
           marker' = [marker EXCEPT ![<<q, i>>] = m],
           ~(lease[c].lane = q /\ lease[c].item = i)
    PROVE  marker'[<<lease[c].lane, lease[c].item>>]
             = marker[<<lease[c].lane, lease[c].item>>]
  <1>1. lease[c].lane \in Lane /\ lease[c].item \in Item
    BY ReadableIsLease
  <1>2. <<lease[c].lane, lease[c].item>> # <<q, i>>
    OBVIOUS
  <1> QED
    BY <1>1, <1>2, Zenon DEF TypeOK

\* Removing a readable lease with its marker in an open store keeps the
\* invariant: the marker was that lease's own.
LEMMA DropKeeps ==
    ASSUME Inv, up, up', epoch' = epoch, NEW c \in ClaimId, Readable(c),
           lease' = [lease EXCEPT ![c] = None],
           marker' = [marker EXCEPT ![<<lease[c].lane, lease[c].item>>] = None]
    PROVE  LeasesAreMarked' /\ EpochInv'
  <1> USE DEF Inv
  <1>1. ASSUME NEW d \in ClaimId, Readable(d)'
        PROVE  d # c /\ lease'[d] = lease[d] /\ Readable(d)
    BY <1>1 DEF Readable, TypeOK
  <1>2. ASSUME NEW d \in ClaimId, Readable(d)'
        PROVE  marker'[<<lease'[d].lane, lease'[d].item>>] = d
    <2>1. d # c /\ lease'[d] = lease[d] /\ Readable(d)
      BY <1>1, <1>2
    <2>2. ~(lease[d].lane = lease[c].lane /\ lease[d].item = lease[c].item)
      BY <2>1, OneLeasePerItem, Zenon
    <2>3. lease[c].lane \in Lane /\ lease[c].item \in Item
      BY ReadableIsLease
    <2>4. marker'[<<lease[d].lane, lease[d].item>>] = marker[<<lease[d].lane, lease[d].item>>]
      BY <2>1, <2>2, <2>3, OtherMarkers, Zenon
    <2> QED
      BY <2>1, <2>4, Zenon DEF LeasesAreMarked, Readable
  <1>3. LeasesAreMarked'
    BY <1>2 DEF LeasesAreMarked, Readable
  <1>4. EpochInv'
    BY <1>1 DEF EpochInv
  <1> QED
    BY <1>3, <1>4

\* claim_next: the claim it replaces is not live, so its lease goes.
LEMMA ClaimKeeps ==
    ASSUME Inv, NEW q \in Lane, NEW c \in ClaimId, claim_next(q, c)
    PROVE  LeasesAreMarked' /\ EpochInv'
  <1> USE DEF Inv
  <1>1. PICK i \in Item :
          /\ ~claim_marker_is_active(q, i)
          /\ lease' = [d \in ClaimId |->
                          IF d = c THEN NewLease(q, i)
                          ELSE IF d = marker[<<q, i>>] /\ StaleLease(d) THEN None
                          ELSE lease[d]]
          /\ marker' = [marker EXCEPT ![<<q, i>>] = c]
    BY Zenon DEF claim_next
  <1>2. up /\ up' /\ epoch' = epoch
    BY Zenon DEF claim_next
  <1>3. marker'[<<q, i>>] = c
    BY <1>1 DEF TypeOK
  <1>4. /\ lease'[c] = NewLease(q, i)
        /\ lease'[c].lane = q /\ lease'[c].item = i /\ lease'[c].epoch = epoch
    BY <1>1, Zenon DEF NewLease
  <1>5. ASSUME NEW d \in ClaimId, Readable(d)', d # c
        PROVE  /\ lease'[d] = lease[d]
               /\ Readable(d)
               /\ marker'[<<lease[d].lane, lease[d].item>>] = d
    <2>1. /\ lease'[d] = lease[d]
          /\ Readable(d)
          /\ ~(d = marker[<<q, i>>] /\ StaleLease(d))
      BY <1>1, <1>5 DEF Readable
    <2>2. marker[<<lease[d].lane, lease[d].item>>] = d
      BY <1>2, <2>1, Zenon DEF LeasesAreMarked, Readable
    <2>3. ~(lease[d].lane = q /\ lease[d].item = i)
      <3> SUFFICES ASSUME lease[d].lane = q, lease[d].item = i PROVE FALSE
        OBVIOUS
      <3>1. marker[<<q, i>>] = d
        BY <2>2
      <3>2. claim_is_expired(lease[d])
        <4>1. d # None
          BY NoneIsNoValue
        <4> QED
          BY <1>1, <2>1, <3>1, <4>1, Zenon DEF claim_marker_is_active, Live, Readable
      <3>3. StaleLease(d)
        BY <2>1, <3>2 DEF StaleLease, Readable
      <3> QED
        BY <2>1, <3>1, <3>3
    <2>4. marker'[<<lease[d].lane, lease[d].item>>] = marker[<<lease[d].lane, lease[d].item>>]
      BY <1>1, <2>1, <2>3, OtherMarkers, Zenon
    <2> QED
      BY <2>1, <2>2, <2>4
  <1>6. ASSUME NEW d \in ClaimId, Readable(d)'
        PROVE  /\ marker'[<<lease'[d].lane, lease'[d].item>>] = d
               /\ lease'[d].epoch <= epoch
    <2>1. CASE d = c
      BY <1>3, <1>4, <2>1 DEF TypeOK
    <2>2. CASE d # c
      BY <1>5, <1>6, <2>2, Zenon DEF EpochInv
    <2> QED
      BY <2>1, <2>2, Zenon
  <1>7. LeasesAreMarked' /\ EpochInv'
    <2>1. LeasesAreMarked'
      BY <1>2, <1>6, Zenon DEF LeasesAreMarked, Readable
    <2>2. EpochInv'
      BY <1>2, <1>6, Zenon DEF EpochInv
    <2> QED
      BY <2>1, <2>2
  <1> QED
    BY <1>7

\* cleanup_expired_claims: a marker it removes is an expired claim's own.
LEMMA CleanupKeeps ==
    ASSUME Inv, cleanup_expired_claims
    PROVE  LeasesAreMarked' /\ EpochInv'
  <1> USE DEF Inv
  <1>1. up /\ up' /\ epoch' = epoch
    BY DEF cleanup_expired_claims
  <1>2. ASSUME NEW d \in ClaimId, Readable(d)'
        PROVE  d \notin Expired /\ lease'[d] = lease[d] /\ Readable(d)
    BY <1>2 DEF cleanup_expired_claims, Readable
  <1>3. ASSUME NEW d \in ClaimId, Readable(d)'
        PROVE  marker'[<<lease[d].lane, lease[d].item>>] = d
    <2>1. d \notin Expired /\ Readable(d)
      BY <1>2, <1>3, Zenon
    <2>2. lease[d].lane \in Lane /\ lease[d].item \in Item
      BY <2>1, ReadableIsLease
    <2>3. ASSUME NEW c \in Expired,
                 <<lease[d].lane, lease[d].item>> = <<lease[c].lane, lease[c].item>>
          PROVE  FALSE
      <3>1. c \in ClaimId /\ Readable(c)
        BY <2>3 DEF Expired, Readable
      <3>2. lease[d].lane = lease[c].lane /\ lease[d].item = lease[c].item
        BY <2>3
      <3>3. c = d
        BY <1>1, <2>1, <3>1, <3>2, OneLeasePerItem
      <3> QED
        BY <2>1, <3>3
    <2>4. marker'[<<lease[d].lane, lease[d].item>>] = marker[<<lease[d].lane, lease[d].item>>]
      BY <2>2, <2>3, Zenon DEF cleanup_expired_claims
    <2> QED
      BY <1>1, <2>1, <2>4 DEF LeasesAreMarked, Readable
  <1>4. LeasesAreMarked'
    BY <1>1, <1>2, <1>3, Zenon DEF LeasesAreMarked, Readable
  <1>5. EpochInv'
    BY <1>1, <1>2, Zenon DEF EpochInv
  <1> QED
    BY <1>4, <1>5
\* renew_claim of a live claim keeps its lane, item and marker.
LEMMA RenewKeeps ==
    ASSUME Inv, NEW c \in ClaimId, renew_claim(c)
    PROVE  LeasesAreMarked' /\ EpochInv'
  <1> USE DEF Inv
  <1>1. up /\ up' /\ epoch' = epoch /\ Readable(c)
    BY DEF renew_claim, Readable
  <1>2. CASE DropExpired(c)
    BY <1>1, <1>2, DropKeeps, Zenon DEF DropExpired
  <1>3. CASE ~DropExpired(c)
    <2>1. /\ lease' = [lease EXCEPT ![c] = NewLease(lease[c].lane, lease[c].item)]
          /\ marker' = marker
      BY <1>3, Zenon DEF renew_claim, TypeOK
    <2>2. /\ lease'[c].lane = lease[c].lane
          /\ lease'[c].item = lease[c].item
          /\ lease'[c].epoch = epoch
      BY <2>1, Zenon DEF TypeOK, NewLease
    <2>3. ASSUME NEW d \in ClaimId, Readable(d)'
          PROVE  /\ marker'[<<lease'[d].lane, lease'[d].item>>] = d
                 /\ lease'[d].epoch <= epoch
      <3>1. CASE d = c
        BY <1>1, <2>1, <2>2, <3>1 DEF LeasesAreMarked, Readable, TypeOK
      <3>2. CASE d # c
        <4>1. lease'[d] = lease[d] /\ Readable(d)
          BY <2>1, <2>3, <3>2, Zenon DEF TypeOK, Readable
        <4> QED
          BY <1>1, <2>1, <4>1, Zenon DEF LeasesAreMarked, EpochInv, Readable
      <3> QED
        BY <3>1, <3>2, Zenon
    <2>4. LeasesAreMarked'
      BY <1>1, <2>3, Zenon DEF LeasesAreMarked, Readable
    <2>5. EpochInv'
      BY <1>1, <2>3, Zenon DEF EpochInv
    <2> QED
      BY <2>4, <2>5
  <1> QED
    BY <1>2, <1>3

\* ack_claim removes a lease with its marker, whether or not it is live.
LEMMA AckKeeps ==
    ASSUME Inv, NEW c \in ClaimId, ack_claim(c)
    PROVE  LeasesAreMarked' /\ EpochInv'
  <1>1. up /\ up' /\ epoch' = epoch /\ Readable(c)
    BY Zenon DEF ack_claim, Readable
  <1>2. /\ lease' = [lease EXCEPT ![c] = None]
        /\ marker' = [marker EXCEPT ![<<lease[c].lane, lease[c].item>>] = None]
    BY Zenon DEF ack_claim, DropExpired
  <1> QED
    BY <1>1, <1>2, DropKeeps, Zenon

\* A restart makes every lease one of an earlier process.
LEMMA RestartKeeps ==
    ASSUME Inv, Restart
    PROVE  LeasesAreMarked' /\ EpochInv'
  <1> USE DEF Inv
  <1>1. LeasesAreMarked'
    BY Zenon DEF Restart, LeasesAreMarked
  <1>2. ASSUME NEW c \in ClaimId, Readable(c)
        PROVE  lease[c].epoch < epoch + 1 /\ lease[c].epoch <= epoch + 1
    <2>1. lease[c].epoch \in Int /\ epoch \in Int
      BY <1>2, ReadableIsLease, LeaseQueueAssumption DEF TypeOK
    <2> QED
      BY <1>2, <2>1 DEF EpochInv
  <1>3. EpochInv'
    BY <1>2, Zenon DEF Restart, EpochInv, Readable
  <1> QED
    BY <1>1, <1>3

\* The two writes of recovery: nothing is live, and the list it works through
\* stays the list of readable leases.
LEMMA RecoveryKeeps ==
    ASSUME Inv, NEW c \in ClaimId, RemoveMarker(c) \/ RemoveLease(c)
    PROVE  LeasesAreMarked' /\ EpochInv'
  <1> USE DEF Inv
  <1>1. CASE RemoveMarker(c)
    BY <1>1, Zenon DEF RemoveMarker, LeasesAreMarked, EpochInv, Readable
  <1>2. CASE RemoveLease(c)
    <2>1. \A d \in ClaimId : lease'[d] = IF d = c THEN None ELSE lease[d]
      BY <1>2, Zenon DEF RemoveLease, TypeOK
    <2>2. ~up /\ ~up' /\ epoch' = epoch /\ cleaning' = cleaning \ {c}
      BY <1>2, Zenon DEF RemoveLease
    <2>3. LeasesAreMarked'
      BY <2>1, <2>2, Zenon DEF LeasesAreMarked
    <2>4. EpochInv'
      BY <2>1, <2>2, Zenon DEF EpochInv, Readable
    <2> QED
      BY <2>3, <2>4
  <1> QED
    BY <1>1, <1>2

\* A step that leaves leases, markers, epoch and openness alone.
LEMMA IdleKeeps ==
    ASSUME Inv, UNCHANGED <<lease, marker, epoch, up, cleaning>>
    PROVE  LeasesAreMarked' /\ EpochInv'
  BY Zenon DEF Inv, LeasesAreMarked, EpochInv, Readable

\* When recovery is done no readable lease is left, so all are marked.
LEMMA DoneKeeps ==
    ASSUME Inv, RecoveryDone
    PROVE  LeasesAreMarked' /\ EpochInv'
  BY Zenon DEF Inv, RecoveryDone, LeasesAreMarked, EpochInv, Readable

-----------------------------------------------------------------------------
\* The invariant holds at the start.
LEMMA InvInit == Init => Inv
  <1> SUFFICES ASSUME Init PROVE Inv
    OBVIOUS
  <1>1. TypeOK
    BY TypeInit
  <1>2. \A c \in ClaimId : ~Readable(c)
    BY Zenon DEF Init, Readable
  <1>3. up
    BY Zenon DEF Init
  <1> QED
    BY <1>1, <1>2, <1>3, Zenon DEF Inv, LeasesAreMarked, EpochInv, Readable

\* Every step of the queue keeps it.
LEMMA InvStep == Inv /\ [Next]_vars => Inv'
  <1> SUFFICES ASSUME Inv, [Next]_vars PROVE LeasesAreMarked' /\ EpochInv'
    BY TypeStep DEF Inv
  <1>1. ASSUME NEW q \in Lane, NEW i \in Item, Enqueue(q, i)
        PROVE  LeasesAreMarked' /\ EpochInv'
    BY <1>1, IdleKeeps, Zenon DEF Enqueue
  <1>2. ASSUME NEW q \in Lane, NEW c \in ClaimId, claim_next(q, c)
        PROVE  LeasesAreMarked' /\ EpochInv'
    BY <1>2, ClaimKeeps
  <1>3. ASSUME NEW c \in ClaimId, ack_claim(c) \/ renew_claim(c)
        PROVE  LeasesAreMarked' /\ EpochInv'
    BY <1>3, AckKeeps, RenewKeeps
  <1>4. CASE cleanup_expired_claims
    BY <1>4, CleanupKeeps
  <1>5. CASE Tick
    BY <1>5, IdleKeeps DEF Tick
  <1>6. ASSUME NEW c \in ClaimId, Abandon(c)
        PROVE  LeasesAreMarked' /\ EpochInv'
    BY <1>6, IdleKeeps DEF Abandon
  <1>7. CASE Restart
    BY <1>7, RestartKeeps
  <1>8. ASSUME NEW c \in ClaimId, RemoveMarker(c) \/ RemoveLease(c)
        PROVE  LeasesAreMarked' /\ EpochInv'
    BY <1>8, RecoveryKeeps
  <1>9. CASE RecoveryDone
    BY <1>9, DoneKeeps
  <1>10. CASE UNCHANGED vars
    BY <1>10, IdleKeeps DEF vars
  <1> QED
    BY <1>1, <1>2, <1>3, <1>4, <1>5, <1>6, <1>7, <1>8, <1>9, <1>10, Zenon DEF Next

\* The invariant holds in every reachable state of every instance.
THEOREM Invariance == Spec => []Inv
  BY InvInit, InvStep, PTL DEF Spec

\* Every variable of the queue keeps its type.
THEOREM TypeCorrect == Spec => []TypeOK
  <1>1. Inv => TypeOK
    BY DEF Inv
  <1> QED
    BY <1>1, Invariance, PTL

\* No two live claims are on one item of a lane: in an open store the marker
\* names one lease, and during recovery no lease is live.
THEOREM ClaimsHaveOneWinner == Spec => []SingleWinner
  <1>1. Inv => SingleWinner
    <2> SUFFICES ASSUME Inv, NEW c \in ClaimId, NEW d \in ClaimId,
                        Live(c), Live(d),
                        lease[c].lane = lease[d].lane, lease[c].item = lease[d].item
                 PROVE  c = d
      BY DEF SingleWinner
    <2>1. Readable(c) /\ Readable(d)
      BY DEF Live, Readable
    <2>2. up
      <3>1. lease[c].epoch = epoch
        BY Zenon DEF Live, claim_is_expired
      <3>2. epoch \in Int
        BY LeaseQueueAssumption DEF Inv, TypeOK
      <3> QED
        BY <2>1, <3>1, <3>2 DEF Inv, EpochInv
    <2> QED
      BY <2>1, <2>2, OneLeasePerItem DEF Inv
  <1> QED
    BY <1>1, Invariance, PTL

\* Only the ack of a live claim takes a row out of the queue, and the row is
\* one of the item claimed.
THEOREM RowsAreNotLost == Spec => RowsLeaveByLiveAck
  <1> DEFINE Leaves(n) == rows[n] # None /\ rows'[n] = None
             ByLiveAck(n) == \E c \in ClaimId : /\ Live(c)
                                                /\ rows[n].lane = lease[c].lane
                                                /\ rows[n].item = lease[c].item
  <1>1. Inv /\ [Next]_vars => [\A n \in Rows : Leaves(n) => ByLiveAck(n)]_vars
    <2> SUFFICES ASSUME Inv, Next, NEW n \in Rows, Leaves(n) PROVE ByLiveAck(n)
      BY Zenon
    <2>1. ASSUME NEW q \in Lane, NEW i \in Item, Enqueue(q, i) PROVE FALSE
      <3>1. [lane |-> q, item |-> i] # None
        <4>1. [lane |-> q, item |-> i] \in Row
          BY Zenon DEF Row
        <4> QED
          BY <4>1, NoneIsNoValue, Zenon
      <3> QED
        BY <2>1, <3>1, Zenon DEF Enqueue, Inv, TypeOK
    <2>2. ASSUME NEW c \in ClaimId, ack_claim(c) PROVE ByLiveAck(n)
      <3>1. ~DropExpired(c)
        BY DEF DropExpired
      <3>2. /\ Live(c)
            /\ rows' = [m \in Rows |-> IF FirstRow(m, lease[c].lane, lease[c].item)
                                       THEN None ELSE rows[m]]
        BY <2>2, <3>1, Zenon DEF ack_claim, Live
      <3>3. FirstRow(n, lease[c].lane, lease[c].item)
        BY <3>2
      <3> QED
        BY <3>2, <3>3, Zenon DEF FirstRow, Queued
    <2>3. CASE UNCHANGED rows
      BY <2>3
    <2>4. ASSUME NEW c \in ClaimId, renew_claim(c) PROVE UNCHANGED rows
      BY <2>4, Zenon DEF renew_claim, DropExpired
    <2> QED
      BY <2>1, <2>2, <2>3, <2>4, Zenon
      DEF Next, claim_next, cleanup_expired_claims, Tick, Abandon, Restart,
          RemoveMarker, RemoveLease, RecoveryDone
  <1> QED
    BY <1>1, Invariance, PTL DEF Spec, RowsLeaveByLiveAck

-----------------------------------------------------------------------------
\* Rows are written in order and acked for good, and in an open store a lease
\* is on an item that still has a row.
WorkInv ==
    /\ \A n \in Rows : rows[n] # None => n <= written /\ n \notin acked
    /\ \A n \in acked : n <= written
    /\ up => \A c \in ClaimId : Readable(c) =>
                \E n \in Rows : Queued(n, lease[c].lane, lease[c].item)

\* A nonempty set of natural numbers has a least element.
LEMMA LeastNumber ==
    ASSUME NEW T \in SUBSET Nat, T # {}
    PROVE  \E n \in T : \A m \in T : n <= m
  <1> DEFINE R == OpToRel(<, Nat)
  <1>1. IsWellFoundedOn(R, Nat)
    BY NatLessThanWellFounded, Zenon
  <1>2. \A m, n \in Nat : <<m, n>> \in R <=> m < n
    BY DEF OpToRel
  <1> HIDE DEF R
  <1>3. PICK n \in T : \A m \in T : <<m, n>> \notin R
    BY <1>1, WFMin, Zenon
  <1>4. \A m \in T : n <= m
    <2> TAKE m \in T
    <2>1. m \in Nat /\ n \in Nat
      OBVIOUS
    <2>2. ~(m < n)
      BY <1>2, <1>3, <2>1, Zenon
    <2> QED BY ONLY <2>1, <2>2
  <1> QED BY <1>4, Zenon

\* An item that has a row has a first one.
LEMMA FirstRowExists ==
    ASSUME NEW q, NEW i, NEW n \in Rows, Queued(n, q, i)
    PROVE  \E m \in Rows : FirstRow(m, q, i)
  <1> DEFINE T == {m \in Rows : Queued(m, q, i)}
  <1>1. T \in SUBSET Nat /\ T # {}
    BY LeaseQueueAssumption DEF Rows
  <1>2. PICK m \in T : \A k \in T : m <= k
    BY <1>1, LeastNumber, Zenon
  <1>3. m \in Rows /\ Queued(m, q, i)
    BY <1>2
  <1>4. ASSUME NEW k \in 1 .. m - 1 PROVE ~Queued(k, q, i)
    <2>1. k \in Rows /\ ~(m <= k)
      BY <1>3, <1>4, LeaseQueueAssumption DEF Rows
    <2> QED
      BY <1>2, <2>1
  <1> QED
    BY <1>3, <1>4 DEF FirstRow

\* The ack of a live claim takes one row out, for the first time.
LEMMA AckTakesRow ==
    ASSUME Inv, WorkInv, NEW c \in ClaimId, ack_claim(c), ~DropExpired(c)
    PROVE  acked' # acked
  <1>1. up /\ Readable(c)
    BY DEF ack_claim, Readable
  <1>2. PICK n \in Rows : FirstRow(n, lease[c].lane, lease[c].item)
    BY <1>1, FirstRowExists DEF WorkInv
  <1>3. rows[n] # None
    BY <1>2, Zenon DEF FirstRow, Queued
  <1>4. n \notin acked
    BY <1>3 DEF WorkInv
  <1>5. n \in acked'
    BY <1>2, Zenon DEF ack_claim
  <1> QED
    BY <1>4, <1>5

\* The rows stay and leases only go, or change their times.
LEMMA FewerLeases ==
    ASSUME Inv, WorkInv, UNCHANGED <<rows, written, acked>>, up' => up,
           \A c \in ClaimId : Readable(c)' =>
               /\ Readable(c)
               /\ lease'[c].lane = lease[c].lane
               /\ lease'[c].item = lease[c].item
    PROVE  WorkInv'
  BY DEF WorkInv, Queued, Rows

\* The queue is empty at the start.
LEMMA WorkInit == Init => WorkInv
  BY Zenon DEF Init, WorkInv, Readable

\* claim_next leases an item that has a row.
LEMMA ClaimWork ==
    ASSUME Inv, WorkInv, NEW q \in Lane, NEW c \in ClaimId, claim_next(q, c)
    PROVE  WorkInv'
  <1>1. PICK n \in Rows, i \in Item :
          /\ Queued(n, q, i)
          /\ lease' = [d \in ClaimId |->
                          IF d = c THEN NewLease(q, i)
                          ELSE IF d = marker[<<q, i>>] /\ StaleLease(d) THEN None
                          ELSE lease[d]]
    BY Zenon DEF claim_next
  <1>2. up /\ UNCHANGED <<rows, written, acked>>
    BY Zenon DEF claim_next
  <1>3. ASSUME NEW d \in ClaimId, Readable(d)'
        PROVE  \E m \in Rows : Queued(m, lease'[d].lane, lease'[d].item)
    <2>1. CASE d = c
      BY <1>1, <2>1, Zenon DEF NewLease
    <2>2. CASE d # c
      <3>1. lease'[d] = lease[d] /\ Readable(d)
        BY <1>1, <1>3, <2>2, Zenon DEF Readable
      <3> QED
        BY <1>2, <3>1, Zenon DEF WorkInv
    <2> QED
      BY <2>1, <2>2
  <1> QED
    BY <1>2, <1>3, Zenon DEF WorkInv, Queued, Rows

\* An ack takes a row of its own item, and no other lease is on that item.
LEMMA AckWork ==
    ASSUME Inv, WorkInv, NEW c \in ClaimId, ack_claim(c)
    PROVE  WorkInv'
  <1>1. up /\ Readable(c) /\ UNCHANGED written /\ lease' = [lease EXCEPT ![c] = None]
    BY Zenon DEF ack_claim, DropExpired, Readable
  <1>2. ASSUME NEW d \in ClaimId, Readable(d)'
        PROVE  d # c /\ lease'[d] = lease[d] /\ Readable(d)
    BY <1>1, <1>2 DEF Readable, Inv, TypeOK
  <1>3. CASE DropExpired(c)
    <2>1. UNCHANGED <<rows, acked>>
      BY <1>3 DEF DropExpired
    <2> QED
      BY <1>1, <1>2, <2>1, FewerLeases
  <1>4. CASE ~DropExpired(c)
    <2> DEFINE q == lease[c].lane
               i == lease[c].item
    <2>1. /\ rows' = [n \in Rows |-> IF FirstRow(n, q, i) THEN None ELSE rows[n]]
          /\ acked' = acked \cup {n \in Rows : FirstRow(n, q, i)}
      BY <1>4, Zenon DEF ack_claim
    <2>2. \A n \in Rows : rows'[n] # None => n <= written' /\ n \notin acked'
      BY <1>1, <2>1, Zenon DEF WorkInv
    <2>3. \A n \in acked' : n <= written'
      BY <1>1, <2>1, Zenon DEF WorkInv, FirstRow, Queued
    <2>4. ASSUME NEW d \in ClaimId, Readable(d)'
          PROVE  \E n \in Rows : rows'[n] # None /\ rows'[n].lane = lease'[d].lane
                                                 /\ rows'[n].item = lease'[d].item
      <3>1. d # c /\ lease'[d] = lease[d] /\ Readable(d)
        BY <1>2, <2>4, Zenon
      <3>2. PICK n \in Rows : Queued(n, lease[d].lane, lease[d].item)
        BY <1>1, <3>1 DEF WorkInv
      <3>3. ~(lease[d].lane = q /\ lease[d].item = i)
        BY <1>1, <3>1, OneLeasePerItem, Zenon DEF Inv
      <3>4. ~FirstRow(n, q, i)
        BY <3>2, <3>3, Zenon DEF FirstRow, Queued
      <3>5. rows'[n] = rows[n]
        BY <2>1, <3>4, Zenon
      <3> QED
        BY <3>1, <3>2, <3>5, Zenon DEF Queued
    <2> QED
      BY <2>2, <2>3, <2>4, Zenon DEF WorkInv, Queued, Rows
  <1> QED
    BY <1>3, <1>4

\* renew_claim drops an expired claim or gives a live one more time.
LEMMA RenewWork ==
    ASSUME Inv, WorkInv, NEW c \in ClaimId, renew_claim(c)
    PROVE  WorkInv'
  <1>1. up /\ up' /\ Readable(c) /\ UNCHANGED <<rows, written, acked>>
    BY Zenon DEF renew_claim, DropExpired, Readable
  <1>2. CASE DropExpired(c)
    <2>1. ASSUME NEW d \in ClaimId, Readable(d)' PROVE lease'[d] = lease[d]
      BY <1>2, <2>1, Zenon DEF DropExpired, Readable, Inv, TypeOK
    <2> QED
      BY <1>1, <2>1, FewerLeases, Zenon DEF Readable
  <1>3. CASE ~DropExpired(c)
    <2>1. lease' = [lease EXCEPT ![c] = NewLease(lease[c].lane, lease[c].item)]
      BY <1>3, Zenon DEF renew_claim, Inv, TypeOK
    <2>2. ASSUME NEW d \in ClaimId, Readable(d)'
          PROVE  /\ Readable(d)
                 /\ lease'[d].lane = lease[d].lane
                 /\ lease'[d].item = lease[d].item
      <3>1. CASE d = c
        BY <1>1, <2>1, <3>1, Zenon DEF NewLease, Inv, TypeOK
      <3>2. CASE d # c
        BY <2>1, <2>2, <3>2, Zenon DEF Readable, Inv, TypeOK
      <3> QED
        BY <3>1, <3>2, Zenon
    <2> QED
      BY <1>1, <2>2, FewerLeases, Zenon
  <1> QED
    BY <1>2, <1>3

\* A new row only adds work.
LEMMA EnqueueWork ==
    ASSUME Inv, WorkInv, NEW q \in Lane, NEW i \in Item, Enqueue(q, i)
    PROVE  WorkInv'
  <1>1. /\ written \in Nat /\ written < MaxRows /\ written + 1 \in Rows
        /\ rows' = [rows EXCEPT ![written + 1] = [lane |-> q, item |-> i]]
        /\ written' = written + 1 /\ UNCHANGED <<lease, up, acked>> /\ up
    BY LeaseQueueAssumption DEF Enqueue, Inv, TypeOK, Rows
  <1>2. rows[written + 1] = None /\ written + 1 \notin acked
    BY <1>1 DEF WorkInv
  <1>3. \A n \in Rows : n # written + 1 => rows'[n] = rows[n]
    BY <1>1, Zenon DEF Inv, TypeOK
  <1>4. \A n \in Rows : rows'[n] # None => n <= written' /\ n \notin acked'
    <2> TAKE n \in Rows
    <2>1. n \in Int
      BY LeaseQueueAssumption DEF Rows
    <2>2. CASE n = written + 1
      BY <1>1, <1>2, <2>1, <2>2
    <2>3. CASE n # written + 1
      BY <1>1, <1>3, <2>1, <2>3 DEF WorkInv
    <2> QED
      BY <2>2, <2>3
  <1>5. \A n \in acked' : n <= written'
    <2> TAKE n \in acked'
    <2>1. n \in Int /\ n <= written
      BY <1>1, LeaseQueueAssumption DEF WorkInv, Inv, TypeOK, Rows
    <2> QED
      BY ONLY <1>1, <2>1
  <1>6. ASSUME NEW c \in ClaimId, Readable(c)
        PROVE  \E n \in Rows : /\ rows'[n] # None
                               /\ rows'[n].lane = lease[c].lane
                               /\ rows'[n].item = lease[c].item
    <2>1. PICK n \in Rows : Queued(n, lease[c].lane, lease[c].item)
      BY <1>1, <1>6, Zenon DEF WorkInv
    <2>2. n # written + 1
      BY <1>2, <2>1, Zenon DEF Queued
    <2> QED
      BY <1>3, <2>1, <2>2, Zenon DEF Queued
  <1>7. \A c \in ClaimId : Readable(c)' <=> Readable(c)
    BY <1>1, Zenon DEF Readable
  <1>8. ASSUME NEW c \in ClaimId, Readable(c)'
        PROVE  \E n \in Rows : /\ rows'[n] # None
                               /\ rows'[n].lane = lease'[c].lane
                               /\ rows'[n].item = lease'[c].item
    <2>1. Readable(c) /\ lease'[c] = lease[c]
      BY <1>1, <1>7, <1>8, Zenon
    <2> QED BY <1>6, <2>1
  <1>9. \A c \in ClaimId : Readable(c)' =>
            (\E n \in Rows : Queued(n, lease[c].lane, lease[c].item))'
    BY <1>8, Zenon DEF Queued, Rows
  <1> QED
    BY <1>4, <1>5, <1>9, Zenon DEF WorkInv, Rows

\* Every step keeps the work of the open claims.
LEMMA WorkStep == Inv /\ WorkInv /\ [Next]_vars => WorkInv'
  <1> SUFFICES ASSUME Inv, WorkInv, [Next]_vars PROVE WorkInv'
    OBVIOUS
  <1>1. ASSUME NEW q \in Lane, NEW i \in Item, Enqueue(q, i) PROVE WorkInv'
    BY <1>1, EnqueueWork
  <1>2. ASSUME NEW q \in Lane, NEW c \in ClaimId, claim_next(q, c) PROVE WorkInv'
    BY <1>2, ClaimWork
  <1>3. ASSUME NEW c \in ClaimId, ack_claim(c) \/ renew_claim(c) PROVE WorkInv'
    BY <1>3, AckWork, RenewWork
  <1>4. CASE cleanup_expired_claims
    <2>1. ASSUME NEW c \in ClaimId, Readable(c)' PROVE lease'[c] = lease[c]
      BY <1>4, <2>1, Zenon DEF cleanup_expired_claims, Readable
    <2> QED
      BY <1>4, <2>1, FewerLeases, Zenon DEF cleanup_expired_claims, Readable
  <1>5. ASSUME UNCHANGED <<lease, rows, written, acked>>, up' => up PROVE WorkInv'
    BY <1>5, FewerLeases, Zenon DEF Readable
  <1>6. CASE Restart
    BY <1>5, <1>6, Zenon DEF Restart
  <1>7. ASSUME NEW c \in ClaimId, RemoveLease(c) PROVE WorkInv'
    <2>1. ASSUME NEW d \in ClaimId, Readable(d)' PROVE lease'[d] = lease[d]
      BY <1>7, <2>1, Zenon DEF RemoveLease, Readable, Inv, TypeOK
    <2> QED
      BY <1>7, <2>1, FewerLeases, Zenon DEF RemoveLease, Readable
  <1>8. CASE RecoveryDone
    <2>1. \A c \in ClaimId : ~Readable(c)
      BY <1>8, Zenon DEF RecoveryDone, Inv, LeasesAreMarked, Readable
    <2> QED
      BY <1>8, <2>1, Zenon DEF RecoveryDone, WorkInv, Readable, Queued
  <1>9. CASE Tick \/ \E c \in ClaimId : Abandon(c) \/ RemoveMarker(c)
    BY <1>5, <1>9, Zenon DEF Tick, Abandon, RemoveMarker
  <1>10. CASE UNCHANGED vars
    BY <1>5, <1>10 DEF vars
  <1> QED
    BY <1>1, <1>2, <1>3, <1>4, <1>6, <1>7, <1>8, <1>9, <1>10, Zenon DEF Next

\* A live claim ends only by its own ack, with time or with the process: no
\* other claim, renewal, clean-up or recovery removes its lease.
THEOREM LiveClaimsAreKept == Spec => LiveClaimsKept
  <1> DEFINE Kept == \A c \in ClaimId :
               (Live(c) /\ now' = now /\ epoch' = epoch /\ acked' = acked) => Live(c)'
  <1>1. Inv /\ WorkInv /\ [Next]_vars => [Kept]_vars
    <2> SUFFICES ASSUME Inv, WorkInv, Next, NEW c \in ClaimId,
                        Live(c), now' = now, epoch' = epoch, acked' = acked
                 PROVE  Live(c)'
      BY DEF Kept
    <2>1. /\ Readable(c) /\ ~claim_is_expired(lease[c])
          /\ lease[c].epoch = epoch /\ now < lease[c].deadline
          /\ now \in Nat /\ epoch \in Nat
      <3>1. Readable(c) /\ ~claim_is_expired(lease[c])
        BY DEF Live, Readable
      <3>2. lease[c].deadline \in Int /\ now \in Nat /\ epoch \in Nat
        <4>1. /\ lease[c].deadline \in 0 .. MaxTime + LeaseFor
              /\ now \in 0 .. MaxTime /\ epoch \in 0 .. MaxCrashes
          BY <3>1, ReadableIsLease, Zenon DEF Inv, TypeOK
        <4> QED BY ONLY <4>1, LeaseQueueAssumption
      <3>3. lease[c].epoch = epoch /\ ~(now >= lease[c].deadline)
        BY <3>1, Zenon DEF claim_is_expired
      <3>4. now < lease[c].deadline
        BY ONLY <3>2, <3>3
      <3> QED BY <3>1, <3>2, <3>3, <3>4, Zenon
    <2>2. ASSUME lease'[c] = lease[c] PROVE Live(c)'
      BY <2>1, <2>2, Zenon DEF Live, claim_is_expired, Readable
    <2>3. ASSUME NEW q \in Lane, NEW i \in Item, lease'[c] = NewLease(q, i)
          PROVE  Live(c)'
      <3>1. NewLease(q, i) \notin {None, Malformed}
        BY NewLeaseType, NoneIsNoValue DEF Inv
      <3>2. NewLease(q, i).epoch = epoch /\ ~(now >= NewLease(q, i).deadline)
        BY <2>1, LeaseQueueAssumption DEF NewLease
      <3> QED
        BY <2>3, <3>1, <3>2, Zenon DEF Live, claim_is_expired
    <2>4. up
      BY <2>1 DEF Inv, EpochInv
    <2>5. ASSUME NEW q \in Lane, NEW d \in ClaimId, claim_next(q, d) PROVE Live(c)'
      <3>1. PICK i \in Item :
              lease' = [e \in ClaimId |->
                          IF e = d THEN NewLease(q, i)
                          ELSE IF e = marker[<<q, i>>] /\ StaleLease(e) THEN None
                          ELSE lease[e]]
        BY <2>5, Zenon DEF claim_next
      <3>2. ~StaleLease(c)
        BY <2>1, Zenon DEF StaleLease, Readable
      <3>3. lease'[c] = NewLease(q, i) \/ lease'[c] = lease[c]
        BY <3>1, <3>2, Zenon
      <3> QED
        BY <2>2, <2>3, <3>3, Zenon
    <2>6. ASSUME NEW d \in ClaimId, DropExpired(d) PROVE Live(c)'
      <3>1. d # c /\ lease' = [lease EXCEPT ![d] = None]
        BY <2>1, <2>6, Zenon DEF DropExpired
      <3> QED
        BY <2>2, <3>1, Zenon DEF Inv, TypeOK
    <2>7. ASSUME NEW d \in ClaimId, ack_claim(d) PROVE Live(c)'
      BY <2>6, <2>7, AckTakesRow
    <2>8. ASSUME NEW d \in ClaimId, renew_claim(d), ~DropExpired(d) PROVE Live(c)'
      <3>1. /\ lease' = [lease EXCEPT ![d] = NewLease(lease[d].lane, lease[d].item)]
            /\ Readable(d)
        BY <2>8, Zenon DEF renew_claim, Readable, Inv, TypeOK
      <3>2. lease[d].lane \in Lane /\ lease[d].item \in Item
        BY <3>1, ReadableIsLease, Zenon DEF Inv
      <3>3. lease'[c] = lease[c] \/ lease'[c] = NewLease(lease[d].lane, lease[d].item)
        BY <3>1, Zenon DEF Inv, TypeOK
      <3> QED
        BY <2>2, <2>3, <3>2, <3>3, Zenon
    <2>9. CASE cleanup_expired_claims
      <3>1. c \notin Expired
        BY <2>1, Zenon DEF Expired
      <3> QED
        BY <2>2, <2>9, <3>1, Zenon DEF cleanup_expired_claims
    <2>10. ASSUME UNCHANGED lease PROVE Live(c)'
      BY <2>2, <2>10, Zenon
    <2>11. ~\E d \in ClaimId : RemoveLease(d)
      BY <2>4, Zenon DEF RemoveLease
    <2> QED
      BY <2>5, <2>6, <2>7, <2>8, <2>9, <2>10, <2>11, Zenon
      DEF Next, Enqueue, Tick, Abandon, Restart, RemoveMarker, RecoveryDone
  <1>2. Spec => [](Inv /\ WorkInv)
    BY InvInit, InvStep, WorkInit, WorkStep, PTL DEF Spec
  <1> QED
    BY <1>1, <1>2, PTL DEF Spec, LiveClaimsKept

-----------------------------------------------------------------------------
\* The review coordinator over it.


Review ==
    [item : Item, claim : ClaimId, round : Int, submissions : SUBSET Reviewers,
     collector : [Reviewers -> Opinion \cup {None}]]
Opening == [claim : ClaimId, item : Item]

\* Where the tick is tells what it has under way.
PhaseInv ==
    /\ active \in Seq(Review)
    /\ todo \in SUBSET DOMAIN active /\ finished \in SUBSET DOMAIN active
    /\ pc \in {"idle", "spawn"} => todo = {} /\ finished = {}
    /\ pc = "spawn" <=> opening # None
    /\ pc = "emit" <=> closing # None
    /\ opening \in Opening \cup {None}
    /\ closing \in Item \cup {None}
    /\ lane \in 1 .. Len(LANE_NAMES)

OnQueue(i) == \E n \in Rows : rows[n] # None /\ rows[n].item = i

\* The request was acknowledged.
Done(i) == approvals[i] > 0 \/ closing = i \/ i \in lost

\* Every request has one row until it is acknowledged, and a lease only then.
RequestInv ==
    /\ requested \in SUBSET Item
    /\ \A n \in Rows : n > written => rows[n] = None
    /\ \A n \in Rows : rows[n] # None =>
           rows[n].item \in requested /\ rows[n].lane = PriorityOf[rows[n].item]
    /\ \A n, m \in Rows : rows[n] # None /\ rows[m] # None /\ n # m => rows[n].item # rows[m].item
    /\ \A c \in ClaimId : Readable(c) =>
           /\ c \in used /\ OnQueue(lease[c].item)
           /\ lease[c].lane = PriorityOf[lease[c].item]
    /\ \A i \in requested : OnQueue(i) <=> ~Done(i)
    /\ \A i \in Item : Done(i) => i \in requested

\* A claim is of the item it was drawn for, as long as its lease exists.
ClaimOf(c, i) == c \in used /\ (Readable(c) => lease[c].item = i)

\* No review goes on once its request is acknowledged.  Of several reviews of a
\* request only the first has opinions, and only the last a live lease.
ActiveInv ==
    /\ \A k \in DOMAIN active : /\ ClaimOf(active[k].claim, active[k].item)
                                /\ ~Done(active[k].item)
    /\ \A k, l \in DOMAIN active : k < l =>
           /\ active[k].claim # active[l].claim
           /\ active[k].item = active[l].item =>
                  Scored(active[l].collector) = {} /\ ~Live(active[k].claim)
    /\ opening # None =>
           /\ ClaimOf(opening.claim, opening.item)
           /\ ~Done(opening.item)
           /\ \A k \in DOMAIN active :
                  /\ active[k].claim # opening.claim
                  /\ active[k].item = opening.item => ~Live(active[k].claim)

\* What was announced.
VerdictInv ==
    /\ approvals \in [Item -> 0 .. 1]
    /\ decision \in [Item -> {"Approved", "ChangesRequested", "Rejected", None}]
    /\ closing # None => approvals[closing] = 0
    /\ \A i \in Item : decision[i] = "Approved" => approvals[i] > 0

\* The sessions of a review run as long as it is active.
PanelInv ==
    panels \ leaked = {active[k].claim : k \in DOMAIN active} \ leaked

ReviewInv == PhaseInv /\ RequestInv /\ ActiveInv /\ VerdictInv /\ PanelInv

-----------------------------------------------------------------------------
(* The coordinator as a user of the queue *)

\* What Append does to a sequence.
LEMMA Appended ==
    ASSUME NEW S, NEW q \in Seq(S), NEW e \in S
    PROVE  /\ Append(q, e) \in Seq(S) /\ Len(q) \in Nat /\ DOMAIN q = 1 .. Len(q)
           /\ DOMAIN Append(q, e) = 1 .. Len(q) + 1
           /\ \A k \in 1 .. Len(q) : Append(q, e)[k] = q[k]
           /\ Append(q, e)[Len(q) + 1] = e
  OBVIOUS

\* The active reviews have their fields.
LEMMA ActiveIsReview ==
    ASSUME PhaseInv
    PROVE  /\ Len(active) \in Nat /\ DOMAIN active = 1 .. Len(active)
           /\ \A k \in DOMAIN active : /\ active[k] \in Review
                                       /\ active[k].item \in Item /\ active[k].claim \in ClaimId
                                       /\ active[k].collector \in [Reviewers -> Opinion \cup {None}]
  <1>1. active \in Seq(Review)
    BY Zenon DEF PhaseInv
  <1>2. /\ Len(active) \in Nat /\ DOMAIN active = 1 .. Len(active)
        /\ \A k \in DOMAIN active : active[k] \in Review
    BY <1>1
  <1>3. \A v \in Review : /\ v.item \in Item /\ v.claim \in ClaimId
                         /\ v.collector \in [Reviewers -> Opinion \cup {None}]
    BY DEF Review
  <1> QED BY <1>2, <1>3, Zenon

\* They are numbered.
LEMMA IndicesAreIntegers ==
    ASSUME PhaseInv
    PROVE  \A k \in DOMAIN active : k \in Int
  <1>1. DOMAIN active = 1 .. Len(active)
    BY ActiveIsReview, Zenon
  <1> QED BY <1>1

\* Every step of the coordinator is a step of the queue or none.
LEMMA QueueStep ==
    ASSUME PhaseInv, [ReviewNext]_allVars
    PROVE  [Next]_vars
  <1>1. ASSUME NEW i \in Item, enqueue(i) PROVE Next
    <2>1. PriorityOf[i] \in Lane /\ Enqueue(PriorityOf[i], i)
      BY <1>1, ReviewAssumption, Zenon DEF enqueue
    <2> QED BY <2>1, Zenon DEF Next
  <1>2. ASSUME NEW i \in Item, NEW r \in Reviewers, NEW o \in Opinion, submit_review(i, r, o)
        PROVE  UNCHANGED vars
    BY <1>2, Zenon DEF submit_review
  <1>3. ASSUME NEW c \in ClaimId, ClaimLane(c) PROVE Next
    <2>1. LANE_NAMES[lane] \in Lane
      <3>1. LANE_NAMES \in Seq(Lane)
        BY ReviewAssumption, Zenon
      <3>2. lane \in 1 .. Len(LANE_NAMES)
        BY Zenon DEF PhaseInv
      <3> QED BY <3>1, <3>2
    <2>2. claim_next(LANE_NAMES[lane], c)
      BY <1>3, Zenon DEF ClaimLane
    <2> QED BY <2>1, <2>2, Zenon DEF Next
  <1>4. ASSUME NEW k \in finished,
               FinishNegative(k) \/ FinishApproved(k) \/ FinishAckFails(k)
        PROVE  [Next]_vars
    <2>1. active[k].claim \in ClaimId
      BY ActiveIsReview, Zenon DEF PhaseInv
    <2>2. FinishNegative(k) => UNCHANGED vars
      BY Zenon DEF FinishNegative
    <2>3. FinishApproved(k) => ack_claim(active[k].claim)
      BY Zenon DEF FinishApproved, AckOk
    <2>4. FinishAckFails(k) => ack_claim(active[k].claim) \/ UNCHANGED vars
      BY Zenon DEF FinishAckFails, AckError
    <2> QED BY <1>4, <2>1, <2>2, <2>3, <2>4, Zenon DEF Next
  <1>5. ASSUME NEW k \in todo, JudgeApproved(k) \/ JudgeNegative(k) \/ JudgeFails(k)
        PROVE  UNCHANGED vars
    BY <1>5, Zenon DEF JudgeApproved, JudgeNegative, JudgeFails
  <1>6. ASSUME tick \/ emit_approval \/ EmitFails \/ NextLane \/ ClaimFails \/ start_review
               \/ StartFails \/ shutdown
        PROVE  UNCHANGED vars
    BY <1>6, Zenon DEF tick, emit_approval, EmitFails, NextLane, ClaimFails, start_review, StartFails,
                shutdown
  <1>7. Crash \/ Store => Next
    BY Zenon DEF Crash, Store, Next
  <1>8. UNCHANGED allVars => UNCHANGED vars
    BY DEF allVars
  <1> QED BY <1>1, <1>2, <1>3, <1>4, <1>5, <1>6, <1>7, <1>8, Zenon DEF ReviewNext, Coordinator

\* The leases of the claims drawn so far only go or expire.
LeasesKept ==
    /\ used \subseteq used'
    /\ \A c \in used : /\ Readable(c)' => Readable(c) /\ lease'[c] = lease[c]
                       /\ Live(c)' => Live(c)

\* A step of the queue that draws no claim and leaves the rows alone.
StoreKeeps ==
    /\ UNCHANGED <<rows, written, used>>
    /\ \A c \in ClaimId : /\ Readable(c)' => Readable(c) /\ lease'[c] = lease[c]
                          /\ Live(c)' => Live(c)

\* The steps of the store by itself, a crash and a refused ack are of this kind.
LEMMA StoreSteps ==
    ASSUME Inv,
           \/ Tick \/ cleanup_expired_claims \/ RecoveryDone \/ Restart \/ UNCHANGED vars
           \/ \E c \in ClaimId : \/ RemoveMarker(c) \/ RemoveLease(c)
                                 \/ ~Live(c) /\ ack_claim(c)
    PROVE  StoreKeeps
  <1> USE LeaseQueueAssumption
  <1>1. UNCHANGED <<rows, written, used>>
    <2>1. ASSUME NEW c \in ClaimId, ~Live(c), ack_claim(c) PROVE UNCHANGED rows
      BY <2>1, Zenon DEF ack_claim, DropExpired, Live
    <2> QED BY <2>1, Zenon DEF Tick, cleanup_expired_claims, RecoveryDone, Restart, vars, RemoveMarker,
                        RemoveLease, ack_claim
  <1>2. ASSUME NEW c \in ClaimId
        PROVE  lease'[c] = lease[c] \/ lease'[c] = None
    <2>1. ASSUME NEW d \in ClaimId, ~Live(d), ack_claim(d) PROVE lease'[c] = lease[c] \/ lease'[c] = None
      BY <2>1, Zenon DEF ack_claim, DropExpired, Live, Inv, TypeOK
    <2> QED BY <2>1, Zenon DEF Tick, cleanup_expired_claims, RecoveryDone, Restart, vars, RemoveMarker,
                        RemoveLease, Inv, TypeOK
  <1>3. \A c \in ClaimId : Readable(c)' => Readable(c) /\ lease'[c] = lease[c]
    BY <1>2, Zenon DEF Readable
  <1>4. \/ epoch' = epoch + 1
        \/ epoch' = epoch /\ (now' = now \/ now' = now + 1)
    BY Zenon DEF Tick, cleanup_expired_claims, RecoveryDone, Restart, vars, RemoveMarker, RemoveLease,
           ack_claim
  <1>5. ASSUME NEW c \in ClaimId, Live(c)' PROVE Live(c)
    <2>1. Readable(c) /\ lease'[c] = lease[c]
      BY <1>3, <1>5, Zenon DEF Live, Readable
    <2>2. lease[c].epoch \in Int /\ lease[c].deadline \in Int /\ lease[c].epoch <= epoch
          /\ epoch \in Int /\ now \in Int
      <3>1. TypeOK /\ EpochInv
        BY DEF Inv
      <3>2. lease[c].epoch \in 0 .. MaxCrashes /\ lease[c].deadline \in 0 .. MaxTime + LeaseFor
        BY <2>1, <3>1, ReadableIsLease, Zenon
      <3>3. lease[c].epoch <= epoch
        BY <2>1, <3>1, Zenon DEF EpochInv
      <3>4. epoch \in 0 .. MaxCrashes /\ now \in 0 .. MaxTime
        BY <3>1, Zenon DEF TypeOK
      <3> QED BY <3>2, <3>3, <3>4
    <2>3. lease[c].epoch = epoch' /\ ~(now' >= lease[c].deadline)
      BY <1>5, <2>1, Zenon DEF Live, claim_is_expired
    <2>4. epoch' = epoch /\ ~(now >= lease[c].deadline)
      BY ONLY <1>4, <2>2, <2>3
    <2> QED BY <2>1, <2>3, <2>4, Zenon DEF Live, Readable, claim_is_expired
  <1> QED BY <1>1, <1>3, <1>5, Zenon DEF StoreKeeps

\* Such a step, and whatever leaves the acknowledged requests the same, keeps
\* rows, requests and leases in step.
LEMMA RequestsKept ==
    ASSUME RequestInv, StoreKeeps, requested' = requested,
           \A i \in Item : Done(i)' <=> Done(i)
    PROVE  RequestInv'
  <1>1. \A i : OnQueue(i)' <=> OnQueue(i)
    BY Zenon DEF OnQueue, StoreKeeps
  <1>2. \A c \in ClaimId : Readable(c)' =>
           /\ c \in used' /\ OnQueue(lease[c].item)'
           /\ lease'[c].lane = PriorityOf[lease'[c].item]
    BY <1>1, Zenon DEF RequestInv, StoreKeeps
  <1>3. /\ \A n \in Rows : n > written' => rows'[n] = None
        /\ \A n \in Rows : rows'[n] # None =>
             rows'[n].item \in requested' /\ rows'[n].lane = PriorityOf[rows'[n].item]
        /\ \A n, m \in Rows : rows'[n] # None /\ rows'[m] # None /\ n # m =>
                                  rows'[n].item # rows'[m].item
    BY Zenon DEF RequestInv, StoreKeeps
  <1>4. /\ \A i \in requested' : OnQueue(i)' <=> ~Done(i)'
        /\ \A i \in Item : Done(i)' => i \in requested'
        /\ requested' \in SUBSET Item
    BY <1>1, Zenon DEF RequestInv
  <1> QED BY <1>2, <1>3, <1>4, Zenon DEF RequestInv

-----------------------------------------------------------------------------
(* Changes of the active reviews *)

\* What a review keeps: its item and its claim, and it gets no opinion.
Kept(new, old) ==
    /\ new.item = old.item /\ new.claim = old.claim
    /\ Scored(new.collector) \subseteq Scored(old.collector)

\* Reviews may leave the list, and none is acknowledged that stays on it.
LEMMA ActiveKept ==
    ASSUME ActiveInv, LeasesKept, opening' \in {opening, None}, Len(active) \in Nat,
           DOMAIN active = 1 .. Len(active),
           NEW f \in [DOMAIN active' -> DOMAIN active],
           \A k, l \in DOMAIN active' : k < l => f[k] < f[l],
           \A k \in DOMAIN active' : Kept(active'[k], active[f[k]]),
           \A k \in DOMAIN active' : Done(active[k].item)' => Done(active'[k].item),
           opening' # None => (Done(opening.item)' => Done(opening.item))
    PROVE  ActiveInv'
  <1>1. ASSUME NEW c, NEW i, ClaimOf(c, i) PROVE ClaimOf(c, i)'
    BY <1>1 DEF ClaimOf, LeasesKept
  <1>2. \A k \in DOMAIN active' : /\ ClaimOf(active[k].claim, active[k].item)'
                                  /\ ~Done(active[k].item)'
    <2> SUFFICES ASSUME NEW k \in DOMAIN active'
                 PROVE  ClaimOf(active[k].claim, active[k].item)' /\ ~Done(active[k].item)'
      OBVIOUS
    <2>1. /\ active'[k].item = active[f[k]].item /\ active'[k].claim = active[f[k]].claim
          /\ f[k] \in DOMAIN active
      BY DEF Kept
    <2>2. ClaimOf(active[f[k]].claim, active[f[k]].item) /\ ~Done(active[f[k]].item)
      BY <2>1 DEF ActiveInv
    <2>3. ClaimOf(active[k].claim, active[k].item)'
      BY <2>1, <2>2 DEF ClaimOf, LeasesKept
    <2>4. ~Done(active'[k].item)
      BY <2>1, <2>2
    <2> QED BY <2>3, <2>4
  <1>3. \A k \in DOMAIN active' : Live(active[k].claim)' => Live(active[f[k]].claim)
    BY DEF ActiveInv, Kept, ClaimOf, LeasesKept
  <1>4. ASSUME NEW k \in DOMAIN active', NEW l \in DOMAIN active', k < l
        PROVE  /\ active'[k].claim # active'[l].claim
               /\ active'[k].item = active'[l].item =>
                      Scored(active'[l].collector) = {} /\ ~Live(active[k].claim)'
    <2>1. f[k] \in DOMAIN active /\ f[l] \in DOMAIN active /\ f[k] < f[l]
      BY <1>4
    <2>2. /\ active[f[k]].claim # active[f[l]].claim
          /\ active[f[k]].item = active[f[l]].item =>
                 Scored(active[f[l]].collector) = {} /\ ~Live(active[f[k]].claim)
      BY <2>1, Zenon DEF ActiveInv
    <2>3. Kept(active'[k], active[f[k]]) /\ Kept(active'[l], active[f[l]])
      OBVIOUS
    <2> QED BY <1>3, <2>2, <2>3, Zenon DEF Kept
  <1>5. ASSUME opening' # None
        PROVE  /\ ClaimOf(opening.claim, opening.item)'
               /\ ~Done(opening.item)'
               /\ \A k \in DOMAIN active' :
                      /\ active'[k].claim # opening'.claim
                      /\ active'[k].item = opening'.item => ~Live(active[k].claim)'
    <2>1. opening' = opening /\ opening # None
      BY <1>5
    <2>2. ClaimOf(opening.claim, opening.item)'
      BY <1>1, <2>1 DEF ActiveInv
    <2>3. ~Done(opening.item)'
      BY <1>5, <2>1 DEF ActiveInv
    <2>4. ASSUME NEW k \in DOMAIN active'
          PROVE  /\ active'[k].claim # opening'.claim
                 /\ active'[k].item = opening'.item => ~Live(active[k].claim)'
      <3>1. /\ active'[k].item = active[f[k]].item /\ active'[k].claim = active[f[k]].claim
            /\ f[k] \in DOMAIN active
        BY DEF Kept
      <3>2. /\ active[f[k]].claim # opening.claim
            /\ active[f[k]].item = opening.item => ~Live(active[f[k]].claim)
        BY <2>1, <3>1 DEF ActiveInv
      <3> QED BY <1>3, <2>1, <3>1, <3>2
    <2> QED BY <2>2, <2>3, <2>4
  <1> QED BY <1>2, <1>4, <1>5, Zenon DEF ActiveInv

\* An opinion comes before a verdict.
LEMMA VerdictNeedsOpinions ==
    ASSUME NEW x, evaluate(x) # "NeedMoreReviewers"
    PROVE  Scored(x) # {}
  BY DEF evaluate

\* What leaves a list by its index: the reviews after it move up.
LEMMA Removal ==
    ASSUME PhaseInv, NEW k \in DOMAIN active
    PROVE  LET new == RemoveAt(active, k) IN
           /\ new \in Seq(Review) /\ Len(new) = Len(active) - 1
           /\ DOMAIN new = 1 .. Len(new)
           /\ \E f \in [DOMAIN new -> DOMAIN active] :
                 /\ \A i, j \in DOMAIN new : i < j => f[i] < f[j]
                 /\ \A j \in DOMAIN new : new[j] = active[f[j]] /\ f[j] # k
                 /\ \A l \in DOMAIN active \ {k} : \E j \in DOMAIN new : f[j] = l
  <1> DEFINE new == RemoveAt(active, k)
             n == Len(active)
             f == [j \in DOMAIN new |-> IF j < k THEN j ELSE j + 1]
  <1>1. active \in Seq(Review) /\ n \in Nat /\ k \in 1 .. n
    BY DEF PhaseInv
  <1>2. /\ SubSeq(active, 1, k - 1) \in Seq(Review) /\ Len(SubSeq(active, 1, k - 1)) = k - 1
        /\ \A j \in 1 .. k - 1 : SubSeq(active, 1, k - 1)[j] = active[j]
    BY <1>1
  <1>3. /\ SubSeq(active, k + 1, n) \in Seq(Review) /\ Len(SubSeq(active, k + 1, n)) = n - k
        /\ \A j \in 1 .. n - k : SubSeq(active, k + 1, n)[j] = active[k + j]
    BY <1>1
  <1>4. /\ new \in Seq(Review) /\ Len(new) = n - 1
        /\ \A j \in 1 .. n - 1 : new[j] = IF j < k THEN active[j] ELSE active[j + 1]
    <2> DEFINE a == SubSeq(active, 1, k - 1)
               b == SubSeq(active, k + 1, n)
    <2>1. new = a \o b
      BY DEF RemoveAt
    <2>2. a \in Seq(Review) /\ b \in Seq(Review) /\ Len(a) = k - 1 /\ Len(b) = n - k
      BY <1>2, <1>3
    <2>3. /\ \A j \in 1 .. k - 1 : a[j] = active[j]
          /\ \A j \in 1 .. n - k : b[j] = active[k + j]
      BY <1>2, <1>3, Zenon
    <2> HIDE DEF new, a, b, n
    <2>4. new \in Seq(Review) /\ Len(new) = Len(a) + Len(b)
          /\ \A j \in 1 .. Len(a) + Len(b) : new[j] = IF j <= Len(a) THEN a[j] ELSE b[j - Len(a)]
      BY <2>1, <2>2
    <2>5. Len(new) = n - 1
      BY <1>1, <2>2, <2>4
    <2>6. ASSUME NEW j \in 1 .. n - 1
          PROVE  new[j] = IF j < k THEN active[j] ELSE active[j + 1]
      <3>1. j \in 1 .. Len(a) + Len(b)
        BY <1>1, <2>2
      <3>2. new[j] = IF j <= Len(a) THEN a[j] ELSE b[j - Len(a)]
        BY <2>4, <3>1
      <3>3. CASE j < k
        <4>1. j <= Len(a) /\ j \in 1 .. k - 1
          BY <1>1, <2>2, <3>3
        <4> QED BY <2>3, <3>2, <3>3, <4>1
      <3>4. CASE ~(j < k)
        <4>1. ~(j <= Len(a)) /\ j - Len(a) \in 1 .. n - k /\ k + (j - Len(a)) = j + 1
          BY <1>1, <2>2, <3>4
        <4> QED BY <2>3, <3>2, <3>4, <4>1
      <3> QED BY <3>3, <3>4
    <2> QED BY <2>4, <2>5, <2>6
  <1> HIDE DEF new, n
  <1>5. DOMAIN new = 1 .. n - 1 /\ DOMAIN active = 1 .. n
    BY <1>1, <1>4 DEF n
  <1>6. /\ f \in [DOMAIN new -> DOMAIN active]
        /\ \A i, j \in DOMAIN new : i < j => f[i] < f[j]
        /\ \A j \in DOMAIN new : new[j] = active[f[j]] /\ f[j] # k
    BY <1>1, <1>4, <1>5
  <1>7. ASSUME NEW l \in DOMAIN active \ {k}
        PROVE  \E j \in DOMAIN new : f[j] = l
    <2>1. CASE l < k
      <3>1. l \in DOMAIN new /\ f[l] = l
        BY <1>1, <1>5, <2>1
      <3> QED BY <3>1
    <2>2. CASE l > k
      <3>1. l - 1 \in DOMAIN new /\ f[l - 1] = l
        BY <1>1, <1>5, <2>2
      <3> QED BY <3>1
    <2> QED BY <1>1, <1>5, <2>1, <2>2
  <1> HIDE DEF f
  <1>8. \E g \in [DOMAIN new -> DOMAIN active] :
            /\ \A i, j \in DOMAIN new : i < j => g[i] < g[j]
            /\ \A j \in DOMAIN new : new[j] = active[g[j]] /\ g[j] # k
            /\ \A l \in DOMAIN active \ {k} : \E j \in DOMAIN new : g[j] = l
    BY <1>6, <1>7, Zenon
  <1> QED BY <1>4, <1>5, <1>8, Zenon DEF new, n

\* When the last finished review leaves, the others keep their places.
LEMMA LastLeaves ==
    ASSUME PhaseInv, NEW k \in finished, \A j \in finished : j <= k
    PROVE  finished \ {k} \subseteq 1 .. Len(active) - 1
  <1>1. finished \subseteq 1 .. Len(active) /\ Len(active) \in Nat
    BY ActiveIsReview DEF PhaseInv
  <1> QED BY <1>1

-----------------------------------------------------------------------------
(* Steps that acknowledge nothing *)

\* The leases of drawn claims fare as all leases do.
LEMMA StoreKeepsLeases ==
    ASSUME Inv, StoreKeeps
    PROVE  LeasesKept
  BY Zenon DEF Inv, TypeOK, StoreKeeps, LeasesKept

\* Reviews leave the list or lose their opinions, the claim under way ends or
\* goes on, and the store does what it does by itself.
LEMMA ShrinkingStep ==
    ASSUME Inv, PhaseInv, RequestInv, ActiveInv, StoreKeeps,
           requested' = requested, opening' \in {opening, None},
           NEW f \in [DOMAIN active' -> DOMAIN active],
           \A k, l \in DOMAIN active' : k < l => f[k] < f[l],
           \A k \in DOMAIN active' : Kept(active'[k], active[f[k]]),
           \A i \in Item : Done(i)' <=> Done(i)
    PROVE  RequestInv' /\ ActiveInv'
  <1>1. RequestInv'
    BY RequestsKept
  <1>2. LeasesKept
    BY StoreKeepsLeases
  <1>3. \A k \in DOMAIN active' : active'[k].item \in Item
    BY ActiveIsReview, Zenon DEF Kept
  <1>4. \A k \in DOMAIN active' : Done(active[k].item)' => Done(active'[k].item)
    BY <1>3 DEF Done
  <1>5. opening' # None => (Done(opening.item)' => Done(opening.item))
    <2> SUFFICES ASSUME opening' # None PROVE Done(opening.item)' => Done(opening.item)
      OBVIOUS
    <2>1. opening' = opening /\ opening \in Opening
      BY DEF PhaseInv
    <2>2. opening.item \in Item
      BY <2>1 DEF Opening
    <2> QED BY <2>1, <2>2, Zenon DEF Done
  <1>6. Len(active) \in Nat /\ DOMAIN active = 1 .. Len(active)
    BY ActiveIsReview
  <1> QED BY <1>1, <1>2, <1>4, <1>5, <1>6, ActiveKept, Zenon

\* The special case where the list stays or is emptied.
LEMMA QuietStep ==
    ASSUME Inv, PhaseInv, RequestInv, ActiveInv, StoreKeeps,
           requested' = requested, opening' \in {opening, None},
           active' \in {active, <<>>},
           \A i \in Item : Done(i)' <=> Done(i)
    PROVE  RequestInv' /\ ActiveInv'
  <1> DEFINE f == [k \in DOMAIN active' |-> k]
  <1>1. DOMAIN active' \subseteq DOMAIN active /\ \A k \in DOMAIN active' : active' = active
    OBVIOUS
  <1>2. /\ f \in [DOMAIN active' -> DOMAIN active]
        /\ \A k, l \in DOMAIN active' : k < l => f[k] < f[l]
        /\ \A k \in DOMAIN active' : Kept(active'[k], active[f[k]])
    BY <1>1 DEF Kept
  <1> HIDE DEF f
  <1> QED BY <1>2, ShrinkingStep

\* An announcement that changes nothing keeps what was announced.
LEMMA VerdictsKept ==
    ASSUME VerdictInv, UNCHANGED <<approvals, decision>>, closing' \in {closing, None}
    PROVE  VerdictInv'
  BY DEF VerdictInv

\* An error ends the tick.
LEMMA AbortPhase ==
    ASSUME PhaseInv, Abort, active' \in Seq(Review)
    PROVE  PhaseInv'
  <1>1. 1 \in 1 .. Len(LANE_NAMES)
    <2>1. LANE_NAMES \in Seq(Lane) /\ LANE_NAMES # <<>>
      BY ReviewAssumption
    <2> QED BY <2>1
  <1> QED BY <1>1 DEF PhaseInv, Abort

\* Judging, polling and errors of the tick, and what the store does by itself.
LEMMA TickStep ==
    ASSUME Inv, ReviewInv,
           \/ tick \/ NextLane \/ ClaimFails \/ Store \/ StartFails
           \/ \E k \in todo : JudgeApproved(k) \/ JudgeFails(k)
    PROVE  ReviewInv'
  <1> USE DEF ReviewInv
  <1>1. /\ active' = active /\ requested' = requested
        /\ UNCHANGED eventVars
    BY Zenon DEF tick, NextLane, ClaimFails, Store, StartFails, JudgeApproved, JudgeFails
  <1>2. UNCHANGED vars \/ Store
    BY Zenon DEF tick, NextLane, ClaimFails, StartFails, JudgeApproved, JudgeFails
  <1>3. StoreKeeps
    BY <1>2, StoreSteps, Zenon DEF Store
  <1>4. UNCHANGED tickVars \/ tick \/ NextLane \/ Abort \/ \E k \in todo : JudgeApproved(k)
    BY Zenon DEF ClaimFails, Store, StartFails, JudgeFails
  <1>5. closing' = closing
    <2>1. ASSUME Abort PROVE closing = None
      BY <2>1, Zenon DEF tick, NextLane, ClaimFails, Polling, Store, StartFails, JudgeApproved, JudgeFails,
             Judge, PhaseInv, tickVars, Abort
    <2> QED BY <1>4, <2>1, Zenon DEF tick, NextLane, JudgeApproved, Abort, tickVars
  <1>6. opening' \in {opening, None}
    BY <1>4, Zenon DEF tick, NextLane, JudgeApproved, Abort, tickVars
  <1>7. \A i \in Item : Done(i)' <=> Done(i)
    BY <1>1, <1>5 DEF Done, eventVars
  <1>8. RequestInv' /\ ActiveInv'
    BY <1>1, <1>3, <1>6, <1>7, QuietStep
  <1>9. VerdictInv'
    BY <1>1, <1>5, VerdictsKept DEF eventVars
  <1>10. PhaseInv'
    <2>1. ASSUME tick PROVE PhaseInv'
      <3>1. todo' \in SUBSET DOMAIN active'
        BY <1>1, <2>1, Zenon DEF tick
      <3> QED BY <1>1, <2>1, <3>1, Zenon DEF tick, PhaseInv
    <2>2. ASSUME NextLane PROVE PhaseInv'
      <3>1. lane' \in 1 .. Len(LANE_NAMES)
        <4>1. LANE_NAMES \in Seq(Lane) /\ LANE_NAMES # <<>> /\ lane \in 1 .. Len(LANE_NAMES)
          BY ReviewAssumption, Zenon DEF PhaseInv
        <4>2. lane' = 1 \/ (lane < Len(LANE_NAMES) /\ lane' = lane + 1)
          BY <2>2, Zenon DEF NextLane
        <4> QED BY <4>1, <4>2
      <3>2. /\ todo' = {} /\ finished' = {} /\ UNCHANGED <<active, opening, closing>>
            /\ pc = "tick" /\ pc' \in {"tick", "idle"}
        BY <2>2, Zenon DEF NextLane, Polling
      <3> QED BY <3>1, <3>2, Zenon DEF PhaseInv
    <2>3. ASSUME NEW k \in todo, JudgeApproved(k) PROVE PhaseInv'
      BY <2>3, Zenon DEF JudgeApproved, Judge, PhaseInv
    <2>4. ASSUME Abort PROVE PhaseInv'
      BY <1>1, <2>4, AbortPhase, Zenon DEF PhaseInv
    <2>5. ASSUME UNCHANGED tickVars PROVE PhaseInv'
      BY <1>1, <2>5, Zenon DEF PhaseInv, tickVars
    <2> QED BY <1>4, <2>1, <2>2, <2>3, <2>4, <2>5
  <1>11. PanelInv'
    <2>1. UNCHANGED <<panels, leaked>> \/ StartFails
      BY Zenon DEF tick, NextLane, ClaimFails, Store, JudgeApproved, JudgeFails
    <2> DEFINE cs == {active[k].claim : k \in DOMAIN active}
    <2>2. panels \ leaked = cs \ leaked /\ {active'[k].claim : k \in DOMAIN active'} = cs
      BY <1>1, Zenon DEF PanelInv
    <2>3. \/ UNCHANGED <<panels, leaked>>
          \/ \E c : panels' = panels \cup {c} /\ leaked' = leaked \cup {c}
      BY <2>1 DEF StartFails
    <2> HIDE DEF cs
    <2>4. panels' \ leaked' = cs \ leaked'
      BY <2>2, <2>3, Zenon
    <2> QED BY <2>2, <2>4, Zenon DEF PanelInv
  <1> QED BY <1>8, <1>9, <1>10, <1>11

\* The approval is appended, or cannot be: the request was acknowledged before.
LEMMA EmitStep ==
    ASSUME Inv, ReviewInv, emit_approval \/ EmitFails
    PROVE  ReviewInv'
  <1> USE DEF ReviewInv
  <1>1. /\ UNCHANGED <<vars, requested, active, panels, leaked>> /\ pc = "emit"
        /\ closing' = None /\ opening' \in {opening, None}
    BY Zenon DEF emit_approval, EmitFails, Abort
  <1>2. closing \in Item /\ approvals[closing] = 0 /\ closing # None
    BY <1>1, Zenon DEF PhaseInv, VerdictInv
  <1>3. StoreKeeps
    BY <1>1, StoreSteps
  <1>4. \A i \in Item : Done(i)' <=> Done(i)
    <2> SUFFICES ASSUME NEW i \in Item PROVE Done(i)' <=> Done(i)
      OBVIOUS
    <2>1. i # None /\ approvals[i] \in 0 .. 1
      BY ReviewAssumption, Zenon DEF VerdictInv
    <2>2. ASSUME emit_approval
          PROVE  lost' = lost /\ approvals'[i] = IF i = closing THEN 1 ELSE approvals[i]
      BY <1>2, <2>2 DEF emit_approval, VerdictInv
    <2>3. ASSUME EmitFails PROVE lost' = lost \cup {closing} /\ approvals' = approvals
      BY <2>3 DEF EmitFails
    <2>4. CASE emit_approval
      <3>1. closing' = None /\ lost' = lost
        BY <1>1, <2>2, <2>4, Zenon
      <3>2. CASE i = closing
        <4>1. approvals'[i] > 0
          BY <2>2, <2>4, <3>2
        <4> QED BY <3>2, <4>1, Zenon DEF Done
      <3>3. CASE i # closing
        <4>1. approvals'[i] = approvals[i]
          BY <2>2, <2>4, <3>3, Zenon
        <4> QED BY <2>1, <3>1, <3>3, <4>1, Zenon DEF Done
      <3> QED BY <3>2, <3>3
    <2>5. CASE EmitFails
      BY <1>1, <2>1, <2>3, <2>5 DEF Done
    <2> QED BY <2>4, <2>5
  <1>5. RequestInv' /\ ActiveInv'
    BY <1>1, <1>3, <1>4, QuietStep
  <1>6. VerdictInv'
    <2>1. CASE emit_approval
      BY <1>1, <1>2, <2>1 DEF emit_approval, VerdictInv
    <2>2. CASE EmitFails
      BY <1>1, <2>2, VerdictsKept DEF EmitFails
    <2> QED BY <2>1, <2>2
  <1>7. PhaseInv'
    <2>1. CASE emit_approval
      BY <2>1, Zenon DEF emit_approval, PhaseInv
    <2>2. CASE EmitFails
      BY <1>1, <2>2, AbortPhase, Zenon DEF EmitFails, PhaseInv
    <2> QED BY <2>1, <2>2
  <1>8. PanelInv'
    BY <1>1, Zenon DEF PanelInv
  <1> QED BY <1>5, <1>6, <1>7, <1>8

\* Every review ends, in an orderly way or with the process.
LEMMA EndStep ==
    ASSUME Inv, ReviewInv, shutdown \/ Crash
    PROVE  ReviewInv'
  <1> USE DEF ReviewInv
  <1>1. /\ active' = <<>> /\ UNCHANGED <<requested, approvals, decision>>
        /\ UNCHANGED vars \/ Restart
    BY Zenon DEF shutdown, Crash, eventVars
  <1>2. StoreKeeps
    BY <1>1, StoreSteps
  <1>3. opening' \in {opening, None} /\ closing' \in {closing, None}
    BY Zenon DEF shutdown, Crash, Abort, tickVars
  <1>4. \A i \in Item : Done(i)' <=> Done(i)
    <2>1. None \notin Item
      BY ReviewAssumption
    <2>2. CASE shutdown
      BY <2>2, Zenon DEF shutdown, tickVars, eventVars, Done
    <2>3. CASE Crash
      <3>1. /\ closing' = None /\ approvals' = approvals
            /\ lost' = IF pc = "emit" THEN lost \cup {closing} ELSE lost
        BY <2>3, Zenon DEF Crash, Abort
      <3> QED BY <2>1, <3>1, Zenon DEF Done, PhaseInv
    <2> QED BY <2>2, <2>3
  <1>5. RequestInv' /\ ActiveInv'
    BY <1>1, <1>2, <1>3, <1>4, QuietStep
  <1>6. VerdictInv'
    BY <1>1, <1>3, VerdictsKept
  <1>7. PhaseInv'
    <2>1. <<>> \in Seq(Review)
      OBVIOUS
    <2>2. CASE shutdown
      <3>1. todo' = {} /\ finished' = {} /\ pc = "idle" /\ UNCHANGED <<pc, opening, closing, lane>>
        BY <2>2, Zenon DEF shutdown, tickVars, PhaseInv
      <3> QED BY <1>1, <2>1, <3>1, Zenon DEF PhaseInv
    <2>3. CASE Crash
      BY <1>1, <2>1, <2>3, AbortPhase DEF Crash
    <2> QED BY <2>2, <2>3
  <1>8. PanelInv'
    <2>1. {active'[k].claim : k \in DOMAIN active'} = {}
      BY <1>1
    <2>2. panels' \ leaked' = {}
      <3>1. CASE Crash
        BY <3>1 DEF Crash
      <3>2. CASE shutdown
        <4> DEFINE cs == {active[k].claim : k \in DOMAIN active}
        <4>1. PICK bad \in SUBSET cs : panels' = panels \ (cs \ bad) /\ leaked' = leaked \cup bad
          BY <3>2, Zenon DEF shutdown, kill_all_sessions
        <4>2. panels \ leaked = cs \ leaked
          BY Zenon DEF PanelInv
        <4> HIDE DEF cs
        <4> QED BY <4>1, <4>2
      <3> QED BY <3>1, <3>2
    <2> QED BY <2>1, <2>2 DEF PanelInv
  <1> QED BY <1>5, <1>6, <1>7, <1>8

\* The next round has the same request and claim and no opinions.
LEMMA NextRoundShape ==
    ASSUME NEW v \in Review
    PROVE  /\ NextRound(v) \in Review
           /\ NextRound(v).item = v.item /\ NextRound(v).claim = v.claim
           /\ NextRound(v).collector = [r \in Reviewers |-> None]
  <1> DEFINE none == [r \in Reviewers |-> None]
  <1>1. none \in [Reviewers -> Opinion \cup {None}]
    OBVIOUS
  <1>2. NextRound(v) = [v EXCEPT !.round = v.round + 1, !.collector = none]
    BY DEF NextRound, Review
  <1> HIDE DEF none
  <1>3. v.round + 1 \in Int
    BY DEF Review
  <1>4. /\ NextRound(v) \in Review
        /\ NextRound(v).item = v.item /\ NextRound(v).claim = v.claim
        /\ NextRound(v).collector = none
    BY <1>1, <1>2, <1>3, Zenon DEF Review
  <1> QED BY <1>4, Zenon DEF none

\* A round that is not approved: no request with a review under way has been
\* acknowledged, so the verdict follows no approval.
LEMMA NegativeStep ==
    ASSUME Inv, ReviewInv, NEW k \in todo, JudgeNegative(k)
    PROVE  ReviewInv' /\ decision[active[k].item] # "Approved"
  <1> USE DEF ReviewInv
  <1> DEFINE i == active[k].item
             new == NextRound(active[k])
  <1>1. k \in DOMAIN active /\ active[k] \in Review /\ i \in Item /\ Len(active) \in Nat
        /\ DOMAIN active = 1 .. Len(active) /\ active \in Seq(Review)
    BY ActiveIsReview, Zenon DEF PhaseInv
  <1>2. ~Done(i) /\ approvals[i] \in 0 .. 1
    BY <1>1, Zenon DEF ActiveInv, VerdictInv
  <1>3. approvals[i] = 0 /\ decision[i] # "Approved"
    BY <1>1, <1>2 DEF Done, VerdictInv
  <1>4. new \in Review /\ Kept(new, active[k])
    <2>1. \A v \in Review : /\ NextRound(v) \in Review
                            /\ NextRound(v).item = v.item /\ NextRound(v).claim = v.claim
                            /\ NextRound(v).collector = [r \in Reviewers |-> None]
      BY NextRoundShape, Zenon
    <2>2. Scored([r \in Reviewers |-> None]) = {}
      BY DEF Scored
    <2> QED BY <1>1, <2>1, <2>2, Zenon DEF Kept
  <1>5. active' \in {active, [active EXCEPT ![k] = new]}
    BY Zenon DEF JudgeNegative
  <1> HIDE DEF new
  <1>6. /\ active' \in Seq(Review) /\ DOMAIN active' = DOMAIN active
        /\ \A l \in DOMAIN active : Kept(active'[l], active[l])
    <2>1. \A l \in DOMAIN active : Kept(active[l], active[l])
      BY Zenon DEF Kept
    <2>2. /\ active' \in Seq(Review) /\ DOMAIN active' = DOMAIN active
          /\ \A l \in DOMAIN active : active'[l] \in {active[l], new}
          /\ \A l \in DOMAIN active \ {k} : active'[l] = active[l]
      BY <1>1, <1>4, <1>5
    <2> QED BY <1>4, <2>1, <2>2
  <1>7. /\ UNCHANGED <<vars, requested, approvals, closing, lost, opening, lane, pc, panels, leaked>>
        /\ pc = "tick" /\ todo' = todo \ {k} /\ finished' \in {finished, finished \cup {k}}
        /\ \E v \in {"ChangesRequested", "Rejected"} : decision' = [decision EXCEPT ![i] = v]
    BY Zenon DEF JudgeNegative, Judge
  <1> HIDE DEF i
  <1>8. RequestInv' /\ ActiveInv'
    <2> DEFINE f == [l \in DOMAIN active' |-> l]
    <2>1. StoreKeeps
      BY <1>7, StoreSteps, Zenon
    <2>2. \A j \in Item : Done(j)' <=> Done(j)
      BY <1>7, Zenon DEF Done
    <2>3. /\ f \in [DOMAIN active' -> DOMAIN active]
          /\ \A j, l \in DOMAIN active' : j < l => f[j] < f[l]
          /\ \A l \in DOMAIN active' : Kept(active'[l], active[f[l]])
      BY <1>6
    <2> HIDE DEF f
    <2> QED BY <1>7, <2>1, <2>2, <2>3, ShrinkingStep, Zenon
  <1>9. PhaseInv'
    BY <1>1, <1>6, <1>7, Zenon DEF PhaseInv
  <1>10. VerdictInv'
    BY <1>1, <1>7, Zenon DEF VerdictInv
  <1>11. PanelInv'
    <2>1. \A l \in DOMAIN active : active'[l].claim = active[l].claim
      BY <1>6, Zenon DEF Kept
    <2> QED BY <1>6, <1>7, <2>1, Zenon DEF PanelInv
  <1> QED BY <1>3, <1>8, <1>9, <1>10, <1>11, Zenon DEF i

-----------------------------------------------------------------------------
(* Reviews that leave *)

\* A finished review leaves the list with its sessions.
LEMMA FinishPanels ==
    ASSUME PhaseInv, ActiveInv, PanelInv, NEW k \in finished, Finish(k)
    PROVE  PanelInv'
  <1> DEFINE new == RemoveAt(active, k)
             cs == {active[l].claim : l \in DOMAIN active}
             c == active[k].claim
  <1>1. k \in DOMAIN active /\ active' = new
    BY Zenon DEF PhaseInv, Finish
  <1>2. \E f \in [DOMAIN new -> DOMAIN active] :
            /\ \A i, j \in DOMAIN new : i < j => f[i] < f[j]
            /\ \A j \in DOMAIN new : new[j] = active[f[j]] /\ f[j] # k
            /\ \A l \in DOMAIN active \ {k} : \E j \in DOMAIN new : f[j] = l
    BY <1>1, Removal, Zenon
  <1> HIDE DEF new
  <1>0. PICK f \in [DOMAIN new -> DOMAIN active] :
            /\ \A j \in DOMAIN new : new[j] = active[f[j]] /\ f[j] # k
            /\ \A l \in DOMAIN active \ {k} : \E j \in DOMAIN new : f[j] = l
    BY <1>2, Zenon
  <1>3. \A l \in DOMAIN active : l # k => active[l].claim # c
    <2>1. \A l \in DOMAIN active : l \in Int
      BY IndicesAreIntegers
    <2>2. ASSUME NEW l \in DOMAIN active, l # k PROVE active[l].claim # c
      <3>1. l < k \/ k < l
        BY <1>1, <2>1, <2>2
      <3> QED BY <1>1, <3>1, Zenon DEF ActiveInv
    <2> QED BY <2>2
  <1>4. {new[j].claim : j \in DOMAIN new} = cs \ {c}
    <2>1. ASSUME NEW j \in DOMAIN new PROVE new[j].claim \in cs \ {c}
      <3>1. f[j] \in DOMAIN active /\ f[j] # k /\ new[j] = active[f[j]]
        BY <1>0, Zenon
      <3> QED BY <1>3, <3>1, Zenon
    <2>2. ASSUME NEW d \in cs \ {c} PROVE \E j \in DOMAIN new : new[j].claim = d
      <3>1. PICK l \in DOMAIN active : d = active[l].claim
        BY Zenon
      <3>2. PICK j \in DOMAIN new : f[j] = l
        BY <1>0, <3>1, Zenon
      <3> QED BY <1>0, <3>1, <3>2, Zenon
    <2> HIDE DEF cs, c
    <2> QED BY <2>1, <2>2, Zenon
  <1>5. PICK bad \in SUBSET {c} : panels' = panels \ ({c} \ bad) /\ leaked' = leaked \cup bad
    BY Zenon DEF Finish, kill_all_sessions
  <1>6. panels \ leaked = cs \ leaked
    BY Zenon DEF PanelInv
  <1> HIDE DEF cs, c
  <1>7. panels' \ leaked' = (cs \ {c}) \ leaked'
    BY <1>5, <1>6, Zenon
  <1> QED BY <1>1, <1>4, <1>7, Zenon DEF PanelInv

\* A review that ends without an acknowledgement.
LEMMA DroppedStep ==
    ASSUME Inv, ReviewInv, NEW k \in finished, FinishNegative(k) \/ FinishAckFails(k)
    PROVE  ReviewInv'
  <1> USE DEF ReviewInv
  <1> DEFINE new == RemoveAt(active, k)
  <1>1. k \in DOMAIN active /\ active' = new /\ Finish(k) /\ active[k].claim \in ClaimId
    BY ActiveIsReview, Zenon DEF PhaseInv, Finish, FinishNegative, FinishAckFails
  <1>2. /\ new \in Seq(Review) /\ Len(new) = Len(active) - 1 /\ DOMAIN new = 1 .. Len(new)
        /\ \E f \in [DOMAIN new -> DOMAIN active] :
              /\ \A i, j \in DOMAIN new : i < j => f[i] < f[j]
              /\ \A j \in DOMAIN new : new[j] = active[f[j]] /\ f[j] # k
              /\ \A l \in DOMAIN active \ {k} : \E j \in DOMAIN new : f[j] = l
    BY <1>1, Removal, Zenon
  <1> HIDE DEF new
  <1>3. PICK f \in [DOMAIN new -> DOMAIN active] :
              /\ \A i, j \in DOMAIN new : i < j => f[i] < f[j]
              /\ \A j \in DOMAIN new : new[j] = active[f[j]]
    BY <1>2, Zenon
  <1>4. StoreKeeps
    <2>1. UNCHANGED vars \/ (~Live(active[k].claim) /\ ack_claim(active[k].claim))
      BY Zenon DEF FinishNegative, FinishAckFails, AckError
    <2> QED BY <1>1, <2>1, StoreSteps, Zenon
  <1>5. /\ UNCHANGED <<requested, eventVars>> /\ pc = "tick" /\ todo = {}
        /\ \A j \in finished : j <= k
        /\ opening' \in {opening, None}
        /\ \/ Abort
           \/ UNCHANGED <<pc, todo, lane, opening, closing>> /\ finished' = finished \ {k}
    BY Zenon DEF FinishNegative, FinishAckFails, Finish, Abort
  <1>6. closing' = closing
    BY <1>5, Zenon DEF Abort, PhaseInv
  <1>7. \A i \in Item : Done(i)' <=> Done(i)
    BY <1>5, <1>6, Zenon DEF Done, eventVars
  <1>8. RequestInv' /\ ActiveInv'
    <2>1. /\ f \in [DOMAIN active' -> DOMAIN active]
          /\ \A i, j \in DOMAIN active' : i < j => f[i] < f[j]
          /\ \A j \in DOMAIN active' : Kept(active'[j], active[f[j]])
      BY <1>1, <1>3, Zenon DEF Kept
    <2> QED BY <1>4, <1>5, <1>7, <2>1, ShrinkingStep, Zenon
  <1>9. VerdictInv'
    BY <1>5, <1>6, VerdictsKept DEF eventVars
  <1>10. PhaseInv'
    <2>1. CASE Abort
      BY <1>1, <1>2, <2>1, AbortPhase, Zenon
    <2>2. CASE UNCHANGED <<pc, todo, lane, opening, closing>> /\ finished' = finished \ {k}
      <3>1. finished' \in SUBSET DOMAIN active'
        BY <1>1, <1>2, <1>5, <2>2, LastLeaves, Zenon
      <3> QED BY <1>1, <1>2, <1>5, <2>2, <3>1, Zenon DEF PhaseInv
    <2> QED BY <1>5, <2>1, <2>2
  <1>11. PanelInv'
    BY <1>1, FinishPanels, Zenon
  <1> QED BY <1>8, <1>9, <1>10, <1>11, Zenon

\* The acknowledgement with a live lease takes the row of the request, and no
\* lease of the request and no other review of it remains: an earlier review
\* would have kept the opinions, a later one the live lease.
LEMMA ApprovedStep ==
    ASSUME Inv, ReviewInv, NEW k \in finished, FinishApproved(k)
    PROVE  ReviewInv'
  <1> USE DEF ReviewInv
  <1> DEFINE new == RemoveAt(active, k)
  <1>0. PICK i \in Item, c \in ClaimId : active[k].item = i /\ active[k].claim = c
    BY ActiveIsReview, Zenon DEF PhaseInv
  <1>1. k \in DOMAIN active /\ active' = new /\ Finish(k)
    BY Zenon DEF PhaseInv, Finish, FinishApproved
  <1>2. /\ new \in Seq(Review) /\ Len(new) = Len(active) - 1 /\ DOMAIN new = 1 .. Len(new)
        /\ \E f \in [DOMAIN new -> DOMAIN active] :
              /\ \A l, j \in DOMAIN new : l < j => f[l] < f[j]
              /\ \A j \in DOMAIN new : new[j] = active[f[j]] /\ f[j] # k
              /\ \A l \in DOMAIN active \ {k} : \E j \in DOMAIN new : f[j] = l
    BY <1>1, Removal, Zenon
  <1> HIDE DEF new
  <1>3. PICK f \in [DOMAIN new -> DOMAIN active] :
              /\ \A l, j \in DOMAIN new : l < j => f[l] < f[j]
              /\ \A j \in DOMAIN new : new[j] = active[f[j]] /\ f[j] # k
    BY <1>2, Zenon
  <1>4. /\ Live(c) /\ ack_claim(c) /\ Scored(active[k].collector) # {}
        /\ UNCHANGED <<requested, eventVars, todo, lane, opening>> /\ pc = "tick" /\ todo = {}
        /\ \A j \in finished : j <= k
        /\ finished' = finished \ {k} /\ pc' = "emit" /\ closing' = i
    BY <1>0, VerdictNeedsOpinions, Zenon DEF FinishApproved, AckOk, Finish
  <1>5. closing = None /\ opening = None /\ ~Done(i) /\ ClaimOf(c, i) /\ i # None
    BY <1>0, <1>1, <1>4, ReviewAssumption, Zenon DEF PhaseInv, ActiveInv
  <1>6. \A j \in DOMAIN new : new[j].item # i
    <2> SUFFICES ASSUME NEW j \in DOMAIN new, new[j].item = i PROVE FALSE
      BY Zenon
    <2>1. f[j] \in DOMAIN active /\ f[j] # k /\ active[f[j]].item = i
      BY <1>3
    <2>2. f[j] < k \/ k < f[j]
      <3>1. f[j] \in Int /\ k \in Int
        BY <1>1, <2>1, IndicesAreIntegers
      <3>2. \A x, y \in Int : x = y \/ x < y \/ y < x
        OBVIOUS
      <3> QED BY <2>1, <3>1, <3>2
    <2> QED BY <1>0, <1>1, <1>4, <2>1, <2>2, Zenon DEF ActiveInv
  <1>7. Readable(c) /\ lease[c].item = i /\ lease[c].lane = PriorityOf[i] /\ OnQueue(i)
    BY <1>1, <1>4, <1>5, Zenon DEF Live, Readable, ClaimOf, RequestInv
  <1>8. /\ lease' = [lease EXCEPT ![c] = None] /\ up
        /\ rows' = [n \in Rows |-> IF FirstRow(n, PriorityOf[i], i) THEN None ELSE rows[n]]
        /\ UNCHANGED <<written, epoch, now, used>>
    BY <1>4, <1>7, Zenon DEF ack_claim, Live, DropExpired
  <1>9. PICK m \in Rows : rows[m] # None /\ rows[m].item = i
    BY <1>7 DEF OnQueue
  <1>10. \A n \in Rows : FirstRow(n, PriorityOf[i], i) <=> n = m
    <2>1. \A n \in Rows : Queued(n, PriorityOf[i], i) <=> n = m
      BY <1>9 DEF Queued, RequestInv
    <2>2. ~\E n \in 1 .. m - 1 : Queued(n, PriorityOf[i], i)
      <3>1. \A n \in 1 .. m - 1 : n \in Rows /\ n # m
        BY <1>9, LeaseQueueAssumption DEF Rows
      <3> QED BY <2>1, <3>1
    <2> QED BY <1>9, <2>1, <2>2 DEF FirstRow
  <1>11. \A n \in Rows : rows'[n] = IF n = m THEN None ELSE rows[n]
    BY <1>8, <1>10
  <1>12. ~OnQueue(i)' /\ \A j : j # i => (OnQueue(j)' <=> OnQueue(j))
    <2>1. \A n \in Rows : rows[n] # None /\ n # m => rows[n].item # i
      BY <1>9, Zenon DEF RequestInv
    <2>2. ~OnQueue(i)'
      BY <1>11, <2>1 DEF OnQueue
    <2>3. ASSUME NEW j, j # i PROVE OnQueue(j)' <=> OnQueue(j)
      BY <1>9, <1>11, <2>3 DEF OnQueue
    <2> QED BY <2>2, <2>3
  <1>13. \A j \in Item : Done(j)' <=> (Done(j) \/ j = i)
    <2>1. None \notin Item /\ approvals' = approvals /\ lost' = lost
      BY <1>4, ReviewAssumption DEF eventVars
    <2> QED BY <1>4, <1>5, <2>1 DEF Done
  <1>14. \A d \in ClaimId : Readable(d)' => d # c /\ Readable(d) /\ lease'[d] = lease[d]
    BY <1>8 DEF Readable, Inv, TypeOK
  <1>15. \A d \in ClaimId : Readable(d)' => lease[d].item # i
    <2> SUFFICES ASSUME NEW d \in ClaimId, Readable(d)', lease[d].item = i PROVE FALSE
      OBVIOUS
    <2>1. Readable(d) /\ d # c /\ lease[d].lane = PriorityOf[i]
      BY <1>14, Zenon DEF RequestInv
    <2>2. /\ marker[<<PriorityOf[i], i>>] = d
          /\ marker[<<PriorityOf[i], i>>] = c
      BY <1>1, <1>7, <1>8, <2>1, Zenon DEF Inv, LeasesAreMarked, Readable
    <2> QED BY <2>1, <2>2, Zenon
  <1>16. RequestInv'
    <2>1. /\ requested' \in SUBSET Item
          /\ \A n \in Rows : n > written' => rows'[n] = None
          /\ \A n \in Rows : rows'[n] # None =>
                 rows'[n].item \in requested' /\ rows'[n].lane = PriorityOf[rows'[n].item]
          /\ \A n, l \in Rows : rows'[n] # None /\ rows'[l] # None /\ n # l =>
                                    rows'[n].item # rows'[l].item
      BY <1>4, <1>8, <1>11, Zenon DEF RequestInv
    <2>2. \A d \in ClaimId : Readable(d)' =>
              /\ d \in used' /\ OnQueue(lease[d].item)'
              /\ lease'[d].lane = PriorityOf[lease'[d].item]
      BY <1>8, <1>12, <1>14, <1>15, Zenon DEF RequestInv
    <2>3. /\ \A j \in requested' : OnQueue(j)' <=> ~Done(j)'
          /\ \A j \in Item : Done(j)' => j \in requested'
      <3>1. i \in requested
        BY <1>9, Zenon DEF RequestInv
      <3>2. requested' = requested /\ requested \in SUBSET Item
        BY <1>4, Zenon DEF RequestInv
      <3>3. ASSUME NEW j \in requested PROVE OnQueue(j)' <=> ~Done(j)'
        <4>1. j \in Item /\ (OnQueue(j) <=> ~Done(j))
          BY <3>2, Zenon DEF RequestInv
        <4> QED BY <1>12, <1>13, <4>1
      <3>4. ASSUME NEW j \in Item, Done(j)' PROVE j \in requested
        BY <1>13, <3>1, <3>4 DEF RequestInv
      <3> QED BY <3>2, <3>3, <3>4
    <2> QED BY <2>1, <2>2, <2>3, Zenon DEF RequestInv
  <1>17. ActiveInv'
    <2>1. LeasesKept
      <3>1. \A d \in ClaimId : Live(d)' => Live(d)
        BY <1>8, <1>14, Zenon DEF Live, Readable, claim_is_expired
      <3> QED BY <1>8, <1>14, <3>1, Zenon DEF LeasesKept, Inv, TypeOK
    <2>2. \A j \in DOMAIN active' : Kept(active'[j], active[f[j]]) /\ active'[j].item \in Item
      BY <1>1, <1>3, ActiveIsReview, Zenon DEF Kept
    <2>3. \A j \in DOMAIN active' : Done(active[j].item)' => Done(active'[j].item)
      <3> SUFFICES ASSUME NEW j \in DOMAIN active', Done(active[j].item)'
                   PROVE  Done(active'[j].item)
        OBVIOUS
      <3>1. PICK x \in Item : x = active'[j].item
        BY <2>2
      <3>2. x # i /\ Done(x)'
        BY <1>1, <1>6, <3>1 DEF Done
      <3> QED BY <1>13, <3>1, <3>2
    <2>4. /\ f \in [DOMAIN active' -> DOMAIN active]
          /\ \A l, j \in DOMAIN active' : l < j => f[l] < f[j]
      BY <1>1, <1>3
    <2>5. Len(active) \in Nat /\ DOMAIN active = 1 .. Len(active)
      BY ActiveIsReview
    <2>6. opening' = None
      BY <1>4, <1>5
    <2> QED BY <2>1, <2>2, <2>3, <2>4, <2>5, <2>6, ActiveKept, Zenon
  <1>18. VerdictInv'
    <2>1. approvals[i] = 0
      <3>1. approvals[i] \in 0 .. 1
        BY <1>1 DEF VerdictInv
      <3> QED BY <1>5, <3>1 DEF Done
    <2> QED BY <1>4, <2>1 DEF VerdictInv, eventVars
  <1>19. PhaseInv'
    <2>1. finished' \in SUBSET DOMAIN active'
      BY <1>1, <1>2, <1>4, LastLeaves, Zenon
    <2> QED BY <1>1, <1>2, <1>4, <1>5, <2>1, Zenon DEF PhaseInv
  <1>20. PanelInv'
    BY <1>1, FinishPanels
  <1> QED BY <1>16, <1>17, <1>18, <1>19, <1>20

-----------------------------------------------------------------------------
(* Requests, claims and submissions *)

\* A new request gets a row of its own.
LEMMA EnqueueStep ==
    ASSUME Inv, ReviewInv, NEW i \in Item, enqueue(i)
    PROVE  ReviewInv'
  <1> USE DEF ReviewInv
  <1> DEFINE w == written + 1
             row == [lane |-> PriorityOf[i], item |-> i]
  <1>1. /\ i \notin requested /\ requested' = requested \cup {i}
        /\ written < MaxRows /\ written' = w /\ rows' = [rows EXCEPT ![w] = row]
        /\ UNCHANGED <<lease, marker, epoch, now, used>>
        /\ UNCHANGED <<active, tickVars, panels, leaked, eventVars>>
    BY Zenon DEF enqueue, Enqueue
  <1>2. w \in Rows /\ w > written /\ written \in Int
    <2>1. written \in 0 .. MaxRows /\ MaxRows \in Nat
      BY LeaseQueueAssumption, Zenon DEF Inv, TypeOK
    <2> QED BY <1>1, <2>1 DEF Rows
  <1>3. row # None /\ row.item = i /\ row.lane = PriorityOf[i]
    <2>1. row \in Row
      BY ReviewAssumption, Zenon DEF Row
    <2> QED BY <2>1, NoneIsNoValue
  <1> HIDE DEF row
  <1>4. rows[w] = None /\ \A n \in Rows : rows'[n] = IF n = w THEN row ELSE rows[n]
    BY <1>1, <1>2, Zenon DEF RequestInv, Inv, TypeOK
  <1>5. ~OnQueue(i) /\ ~Done(i)
    BY <1>1, Zenon DEF RequestInv, OnQueue
  <1>6. OnQueue(i)' /\ \A j : j # i => (OnQueue(j)' <=> OnQueue(j))
    BY <1>2, <1>3, <1>4, Zenon DEF OnQueue
  <1>7. \A j \in Item : Done(j)' <=> Done(j)
    BY <1>1, Zenon DEF Done, eventVars, tickVars
  <1>8. \A c \in ClaimId : (Readable(c)' <=> Readable(c)) /\ (Live(c)' <=> Live(c))
    BY <1>1, Zenon DEF Readable, Live, claim_is_expired
  <1>9. RequestInv'
    <2>1. /\ requested' \in SUBSET Item
          /\ \A n \in Rows : n > written' => rows'[n] = None
      <3>1. \A n \in Rows : n \in Int
        BY DEF Rows
      <3>2. ASSUME NEW n \in Rows, n > w PROVE rows'[n] = None
        <4>1. n > written /\ n # w
          BY <1>2, <3>1, <3>2
        <4> QED BY <1>4, <4>1, Zenon DEF RequestInv
      <3> QED BY <1>1, <3>2, Zenon DEF RequestInv
    <2>2. \A n \in Rows : rows'[n] # None =>
              rows'[n].item \in requested' /\ rows'[n].lane = PriorityOf[rows'[n].item]
      <3>1. \A n \in Rows : rows[n] # None =>
                rows[n].item \in requested /\ rows[n].lane = PriorityOf[rows[n].item]
        BY Zenon DEF RequestInv
      <3> SUFFICES ASSUME NEW n \in Rows, rows'[n] # None
                   PROVE  /\ rows'[n].item \in requested'
                          /\ rows'[n].lane = PriorityOf[rows'[n].item]
        BY Zenon
      <3>2. CASE n = w
        <4>1. rows'[n] = row
          BY <1>4, <3>2
        <4>2. i \in requested'
          BY <1>1, Zenon
        <4> QED BY <1>3, <4>1, <4>2, Zenon
      <3>3. CASE n # w
        <4>1. rows'[n] = rows[n]
          BY <1>4, <3>3, Zenon
        <4>2. requested \subseteq requested'
          BY <1>1, Zenon
        <4> QED BY <3>1, <4>1, <4>2, Zenon
      <3> QED BY <3>2, <3>3, Zenon
    <2>3. \A n, m \in Rows : rows'[n] # None /\ rows'[m] # None /\ n # m =>
                                 rows'[n].item # rows'[m].item
      <3>1. \A n \in Rows : rows[n] # None => rows[n].item # i
        BY <1>1, Zenon DEF RequestInv
      <3>2. \A n, m \in Rows : rows[n] # None /\ rows[m] # None /\ n # m =>
                                   rows[n].item # rows[m].item
        BY Zenon DEF RequestInv
      <3> HIDE DEF w
      <3> QED BY <1>3, <1>4, <3>1, <3>2, Zenon
    <2>4. \A c \in ClaimId : Readable(c)' =>
              /\ c \in used' /\ OnQueue(lease[c].item)'
              /\ lease'[c].lane = PriorityOf[lease'[c].item]
      BY <1>1, <1>5, <1>6, <1>8, Zenon DEF RequestInv
    <2>5. /\ \A j \in requested' : OnQueue(j)' <=> ~Done(j)'
          /\ \A j \in Item : Done(j)' => j \in requested'
      <3>1. \A j \in requested : j \in Item /\ j # i /\ (OnQueue(j) <=> ~Done(j))
        BY <1>1, Zenon DEF RequestInv
      <3>2. \A j \in requested' : j \in requested \/ j = i
        BY <1>1, Zenon
      <3>3. \A j \in Item : Done(j) => j \in requested
        BY Zenon DEF RequestInv
      <3>4. requested \subseteq requested'
        BY <1>1, Zenon
      <3>5. \A j \in requested' : OnQueue(j)' <=> ~Done(j)'
        BY <1>5, <1>6, <1>7, <3>1, <3>2, Zenon
      <3>6. \A j \in Item : Done(j)' => j \in requested'
        BY <1>7, <3>3, <3>4, Zenon
      <3> QED BY <3>5, <3>6
    <2> QED BY <2>1, <2>2, <2>3, <2>4, <2>5, Zenon DEF RequestInv
  <1>10. ActiveInv'
    <2>1. UNCHANGED <<active, opening, approvals, closing, lost>>
      BY <1>1, Zenon DEF eventVars, tickVars
    <2> QED BY <1>1, <2>1, Zenon DEF ActiveInv, ClaimOf, Readable, Live, claim_is_expired, Done
  <1>11. PhaseInv' /\ VerdictInv' /\ PanelInv'
    BY <1>1, Zenon DEF PhaseInv, VerdictInv, PanelInv, eventVars, tickVars
  <1> QED BY <1>9, <1>10, <1>11

\* A submission goes to the first review of its request.
LEMMA SubmitStep ==
    ASSUME Inv, ReviewInv, NEW i \in Item, NEW r \in Reviewers, NEW o \in Opinion,
           submit_review(i, r, o)
    PROVE  ReviewInv'
  <1> USE DEF ReviewInv
  <1>1. PICK k \in DOMAIN active :
            /\ active[k].item = i
            /\ \A j \in 1 .. k - 1 : active[j].item # i
            /\ active' = [active EXCEPT ![k] = submitted(active[k], r, o)]
    BY Zenon DEF submit_review
  <1> DEFINE new == submitted(active[k], r, o)
  <1>2. /\ new \in Review /\ new.item = active[k].item /\ new.claim = active[k].claim
    <2>1. \A v \in Review : LET u == submitted(v, r, o) IN
              u \in Review /\ u.item = v.item /\ u.claim = v.claim
      BY Zenon DEF Review, submitted
    <2> QED BY <2>1, ActiveIsReview, Zenon
  <1> HIDE DEF new
  <1>3. /\ active' \in Seq(Review) /\ DOMAIN active' = DOMAIN active
        /\ \A l \in DOMAIN active : l # k => active'[l] = active[l]
        /\ active'[k] = new
    <2>1. active \in Seq(Review) /\ active' = [active EXCEPT ![k] = new]
      BY <1>1, Zenon DEF PhaseInv, new
    <2> QED BY <1>2, <2>1
  <1>4. \A l \in DOMAIN active : active'[l].item = active[l].item /\ active'[l].claim = active[l].claim
    BY <1>2, <1>3, Zenon
  <1>5. /\ UNCHANGED <<vars, requested, panels, leaked, approvals, decision, lost>>
        /\ UNCHANGED <<pc, todo, finished, lane, opening, closing>>
    BY Zenon DEF submit_review, tickVars, eventVars
  <1>6. RequestInv'
    <2>1. StoreKeeps
      BY <1>5, StoreSteps
    <2>2. \A j \in Item : Done(j)' <=> Done(j)
      BY <1>5, Zenon DEF Done
    <2> QED BY <1>5, <2>1, <2>2, RequestsKept, Zenon
  <1>7. ActiveInv'
    <2>1. UNCHANGED <<lease, epoch, now, used>>
      BY <1>5, Zenon DEF vars
    <2>2. \A l \in DOMAIN active : /\ ClaimOf(active[l].claim, active[l].item)'
                                   /\ ~Done(active[l].item)'
      BY <1>4, <1>5, <2>1, Zenon DEF ActiveInv, ClaimOf, Readable, Done
    <2>3. \A l \in DOMAIN active : Live(active[l].claim)' <=> Live(active[l].claim)
      BY <1>4, <2>1, Zenon DEF Live, claim_is_expired
    <2>4. ASSUME NEW j \in DOMAIN active, NEW l \in DOMAIN active, j < l
          PROVE  /\ active'[j].claim # active'[l].claim
                 /\ active'[j].item = active'[l].item =>
                        Scored(active'[l].collector) = {} /\ ~Live(active[j].claim)'
      <3>1. l = k => active[j].item # active[l].item
        BY <1>1, <2>4, ActiveIsReview
      <3>2. l # k => active'[l] = active[l]
        BY <1>3, Zenon
      <3>3. /\ active[j].claim # active[l].claim
            /\ active[j].item = active[l].item =>
                   Scored(active[l].collector) = {} /\ ~Live(active[j].claim)
        BY <2>4, Zenon DEF ActiveInv
      <3>4. /\ active'[j].claim = active[j].claim /\ active'[l].claim = active[l].claim
            /\ active'[j].item = active[j].item /\ active'[l].item = active[l].item
        BY <1>4, Zenon
      <3>5. ~Live(active[j].claim) => ~Live(active[j].claim)'
        BY <2>3, Zenon
      <3> QED BY <3>1, <3>2, <3>3, <3>4, <3>5, Zenon
    <2>5. opening' # None =>
             /\ ClaimOf(opening.claim, opening.item)' /\ ~Done(opening.item)'
             /\ \A l \in DOMAIN active : /\ active'[l].claim # opening'.claim
                                         /\ active'[l].item = opening'.item => ~Live(active[l].claim)'
      <3>1. opening # None => ClaimOf(opening.claim, opening.item)' /\ ~Done(opening.item)'
        BY <1>5, <2>1, Zenon DEF ActiveInv, ClaimOf, Readable, Done
      <3>2. opening # None => \A l \in DOMAIN active :
                                 /\ active[l].claim # opening.claim
                                 /\ active[l].item = opening.item => ~Live(active[l].claim)
        BY Zenon DEF ActiveInv
      <3> QED BY <1>4, <1>5, <2>3, <3>1, <3>2, Zenon
    <2> QED BY <1>3, <2>2, <2>4, <2>5, Zenon DEF ActiveInv
  <1>8. PhaseInv'
    BY <1>3, <1>5, Zenon DEF PhaseInv
  <1>9. VerdictInv'
    BY <1>5, VerdictsKept, Zenon
  <1>10. PanelInv'
    <2>1. {active'[l].claim : l \in DOMAIN active'} = {active[l].claim : l \in DOMAIN active}
      BY <1>3, <1>4, Zenon
    <2> QED BY <1>5, <2>1, Zenon DEF PanelInv
  <1> QED BY <1>6, <1>7, <1>8, <1>9, <1>10

\* A claim is on a request that is not acknowledged and of which no lease is
\* live: the marker would name it.
LEMMA ClaimStep ==
    ASSUME Inv, ReviewInv, NEW c \in ClaimId, ClaimLane(c)
    PROVE  ReviewInv'
  <1> USE DEF ReviewInv
  <1> DEFINE q == LANE_NAMES[lane]
  <1>1. q \in Lane
    <2>1. LANE_NAMES \in Seq(Lane) /\ lane \in 1 .. Len(LANE_NAMES)
      BY ReviewAssumption, Zenon DEF PhaseInv
    <2> QED BY <2>1
  <1>2. PICK n \in Rows, i \in Item :
            /\ Queued(n, q, i)
            /\ ~claim_marker_is_active(q, i)
            /\ lease' = [d \in ClaimId |->
                            IF d = c THEN NewLease(q, i)
                            ELSE IF d = marker[<<q, i>>] /\ StaleLease(d) THEN None
                            ELSE lease[d]]
    BY Zenon DEF ClaimLane, claim_next
  <1>3. /\ up /\ c \notin used /\ used' = used \cup {c}
        /\ UNCHANGED <<rows, written, epoch, now>>
        /\ UNCHANGED <<requested, active, todo, finished, closing, panels, leaked, eventVars>>
        /\ opening' = [claim |-> c, item |-> lease'[c].item]
        /\ pc = "tick" /\ pc' = "spawn" /\ lane' = 1 /\ todo = {} /\ finished = {}
    BY Zenon DEF ClaimLane, claim_next, Polling
  <1> HIDE DEF q
  <1>4. lease'[c] = NewLease(q, i) /\ NewLease(q, i).item = i /\ NewLease(q, i).lane = q
    BY <1>2, Zenon DEF NewLease
  <1>5. opening'.claim = c /\ opening'.item = i /\ opening' \in Opening /\ opening' # None
    <2>1. opening' = [claim |-> c, item |-> i]
      BY <1>3, <1>4, Zenon
    <2>2. None \notin Opening
      BY ReviewAssumption, Zenon DEF Opening
    <2> QED BY <2>1, <2>2 DEF Opening
  <1>6. \A d \in ClaimId : d # c => lease'[d] \in {None, lease[d]}
    BY <1>2, Zenon
  <1>7. \A d \in ClaimId : d # c /\ Readable(d)' => Readable(d) /\ lease'[d] = lease[d]
    BY <1>6, Zenon DEF Readable
  <1>8. \A d \in ClaimId : d # c /\ Live(d)' => Live(d) /\ Readable(d)
    BY <1>3, <1>7, Zenon DEF Live, Readable, claim_is_expired
  <1>9. OnQueue(i) /\ i \in requested /\ q = PriorityOf[i] /\ ~Done(i)
    BY <1>2, Zenon DEF Queued, OnQueue, RequestInv
  <1>10. RequestInv'
    <2>1. \A j : (OnQueue(j)' <=> OnQueue(j)) /\ (Done(j)' <=> Done(j))
      BY <1>3, Zenon DEF OnQueue, Done, eventVars
    <2>2. \A d \in ClaimId : Readable(d)' =>
              /\ d \in used' /\ OnQueue(lease[d].item)'
              /\ lease'[d].lane = PriorityOf[lease'[d].item]
      <3> SUFFICES ASSUME NEW d \in ClaimId, Readable(d)'
                   PROVE  /\ d \in used' /\ OnQueue(lease[d].item)'
                          /\ lease'[d].lane = PriorityOf[lease'[d].item]
        BY Zenon
      <3>1. CASE d = c
        <4>1. lease'[d].item = i /\ lease'[d].lane = q /\ d \in used'
          BY <1>3, <1>4, <3>1, Zenon
        <4>2. OnQueue(lease[d].item)'
          BY <1>3, <1>9, <4>1, Zenon DEF OnQueue
        <4> QED BY <1>9, <4>1, <4>2, Zenon
      <3>2. CASE d # c
        <4>1. Readable(d) /\ lease'[d] = lease[d]
          BY <1>7, <3>2, Zenon
        <4>2. d \in used /\ OnQueue(lease[d].item) /\ lease[d].lane = PriorityOf[lease[d].item]
          BY <4>1, Zenon DEF RequestInv
        <4>3. OnQueue(lease[d].item)'
          BY <1>3, <4>1, <4>2, Zenon DEF OnQueue
        <4> QED BY <1>3, <4>1, <4>2, <4>3, Zenon
      <3> QED BY <3>1, <3>2, Zenon
    <2>3. /\ requested' \in SUBSET Item
          /\ \A m \in Rows : m > written' => rows'[m] = None
          /\ \A m \in Rows : rows'[m] # None =>
                 rows'[m].item \in requested' /\ rows'[m].lane = PriorityOf[rows'[m].item]
          /\ \A m, l \in Rows : rows'[m] # None /\ rows'[l] # None /\ m # l =>
                                    rows'[m].item # rows'[l].item
      BY <1>3, Zenon DEF RequestInv
    <2>4. /\ \A j \in requested' : OnQueue(j)' <=> ~Done(j)'
          /\ \A j \in Item : Done(j)' => j \in requested'
      BY <1>3, <2>1, Zenon DEF RequestInv
    <2> QED BY <2>2, <2>3, <2>4, Zenon DEF RequestInv
  <1>11. ActiveInv'
    <2>1. \A k \in DOMAIN active : active[k].claim \in used /\ active[k].claim \in ClaimId
      BY ActiveIsReview, Zenon DEF ActiveInv, ClaimOf
    <2>2. \A k \in DOMAIN active : active[k].claim # c
      BY <1>3, <2>1, Zenon
    <2>3. \A k \in DOMAIN active : /\ ClaimOf(active[k].claim, active[k].item)'
                                   /\ ~Done(active[k].item)'
      BY <1>3, <1>7, <2>1, <2>2, Zenon DEF ActiveInv, ClaimOf, Done, eventVars
    <2>4. \A k \in DOMAIN active : Live(active[k].claim)' =>
              Live(active[k].claim) /\ Readable(active[k].claim)
      BY <1>3, <1>8, <2>1, <2>2, Zenon
    <2>5. \A k, l \in DOMAIN active : k < l =>
              /\ active[k].claim # active[l].claim
              /\ active[k].item = active[l].item =>
                     Scored(active[l].collector) = {} /\ ~Live(active[k].claim)'
      BY <2>4, Zenon DEF ActiveInv
    <2>6. ClaimOf(opening.claim, opening.item)' /\ ~Done(opening.item)'
      BY <1>3, <1>4, <1>5, <1>9, Zenon DEF ClaimOf, Done, eventVars
    <2>7. ASSUME NEW k \in DOMAIN active, active[k].item = i PROVE ~Live(active[k].claim)'
      <3> DEFINE d == active[k].claim
      <3> SUFFICES ASSUME Live(d)' PROVE FALSE
        BY <1>3, Zenon
      <3>1. Live(d) /\ Readable(d) /\ d \in ClaimId
        BY <1>3, <2>1, <2>4, Zenon
      <3>2. lease[d].item = i
        BY <2>7, <3>1, Zenon DEF ActiveInv, ClaimOf
      <3> HIDE DEF d
      <3>3. lease[d].lane = q
        BY <1>9, <3>1, <3>2, Zenon DEF RequestInv
      <3>4. marker[<<q, i>>] = d /\ d # None
        BY <1>3, <3>1, <3>2, <3>3, NoneIsNoValue, Zenon DEF Inv, LeasesAreMarked, Readable
      <3> QED BY <1>2, <3>1, <3>2, <3>3, <3>4, Zenon DEF claim_marker_is_active
    <2> QED BY <1>3, <1>5, <2>2, <2>3, <2>5, <2>6, <2>7, Zenon DEF ActiveInv
  <1>12. PhaseInv'
    <2>1. 1 \in 1 .. Len(LANE_NAMES)
      <3>1. LANE_NAMES \in Seq(Lane) /\ LANE_NAMES # <<>>
        BY ReviewAssumption, Zenon
      <3> QED BY <3>1
    <2> QED BY <1>3, <1>5, <2>1, Zenon DEF PhaseInv
  <1>13. VerdictInv' /\ PanelInv'
    BY <1>3, Zenon DEF VerdictInv, PanelInv, eventVars
  <1> QED BY <1>10, <1>11, <1>12, <1>13

\* A record of these fields is a review.
LEMMA ReviewShape ==
    ASSUME NEW i \in Item, NEW c \in ClaimId, NEW n \in Int, NEW ss \in SUBSET Reviewers,
           NEW cl \in [Reviewers -> Opinion \cup {None}]
    PROVE  [item |-> i, claim |-> c, round |-> n, submissions |-> ss, collector |-> cl] \in Review
  BY Zenon DEF Review

\* The claimed review joins the list as its last, without opinions.
LEMMA StartStep ==
    ASSUME Inv, ReviewInv, start_review
    PROVE  ReviewInv'
  <1> USE DEF ReviewInv
  <1> DEFINE v == [item |-> opening.item, claim |-> opening.claim, round |-> 1,
                   submissions |-> {}, collector |-> [r \in Reviewers |-> None]]
             n == Len(active)
  <1>1. /\ pc = "spawn" /\ panels' = panels \cup {opening.claim} /\ active' = Append(active, v)
        /\ pc' = "idle" /\ opening' = None
        /\ UNCHANGED <<vars, requested, todo, finished, lane, closing, leaked, eventVars>>
    BY Zenon DEF start_review
  <1>2. opening # None /\ opening \in Opening /\ todo = {} /\ finished = {}
    BY <1>1, Zenon DEF PhaseInv
  <1>3. v \in Review /\ v.item = opening.item /\ v.claim = opening.claim /\ Scored(v.collector) = {}
    <2>1. opening.claim \in ClaimId /\ opening.item \in Item
      BY <1>2 DEF Opening
    <2> DEFINE none == [r \in Reviewers |-> None]
    <2>2. none \in [Reviewers -> Opinion \cup {None}] /\ Scored(none) = {}
      BY DEF Scored
    <2>3. v.collector = none /\ v.item = opening.item /\ v.claim = opening.claim
      BY Zenon
    <2> HIDE DEF none
    <2>4. v = [item |-> opening.item, claim |-> opening.claim, round |-> 1,
               submissions |-> {}, collector |-> none]
      BY Zenon DEF none
    <2>5. v \in Review
      <3>1. {} \in SUBSET Reviewers /\ 1 \in Int
        OBVIOUS
      <3> QED BY <2>1, <2>2, <2>4, <3>1, ReviewShape, Zenon
    <2> QED BY <2>2, <2>3, <2>5, Zenon
  <1> HIDE DEF v
  <1>4. /\ active' \in Seq(Review) /\ DOMAIN active' = 1 .. n + 1 /\ n \in Nat
        /\ DOMAIN active = 1 .. n
        /\ \A k \in 1 .. n : active'[k] = active[k]
        /\ active'[n + 1] = v
    <2>1. active \in Seq(Review) /\ v \in Review /\ active' = Append(active, v)
      BY <1>1, <1>3, Zenon DEF PhaseInv
    <2> DEFINE q == Append(active, v)
    <2>2. /\ q \in Seq(Review) /\ DOMAIN q = 1 .. n + 1 /\ n \in Nat
          /\ DOMAIN active = 1 .. n
          /\ \A k \in 1 .. n : q[k] = active[k]
          /\ q[n + 1] = v
      BY ONLY <2>1, Appended DEF n, q
    <2>3. active' = q
      BY <2>1, Zenon
    <2> HIDE DEF q, n
    <2> QED BY ONLY <2>2, <2>3, Zenon
  <1> HIDE DEF n
  <1>5. \A k \in DOMAIN active' : \/ k \in DOMAIN active /\ active'[k] = active[k]
                                  \/ k = n + 1 /\ active'[k] = v
    BY <1>4
  <1>6. RequestInv'
    <2>1. StoreKeeps
      BY <1>1, StoreSteps, Zenon
    <2>2. \A j \in Item : Done(j)' <=> Done(j)
      BY <1>1, Zenon DEF Done, eventVars
    <2> QED BY <1>1, <2>1, <2>2, RequestsKept, Zenon
  <1>7. ActiveInv'
    <2>1. UNCHANGED <<lease, epoch, now, used, approvals, closing, lost>>
      BY <1>1, Zenon DEF vars, eventVars
    <2>2. \A k \in DOMAIN active' : /\ ClaimOf(active[k].claim, active[k].item)'
                                    /\ ~Done(active[k].item)'
      BY <1>2, <1>3, <1>5, <2>1, Zenon DEF ActiveInv, ClaimOf, Readable, Done
    <2>3. \A k \in DOMAIN active : Live(active[k].claim)' <=> Live(active[k].claim)
      BY <1>4, <2>1, Zenon DEF Live, claim_is_expired
    <2>4. ASSUME NEW k \in DOMAIN active', NEW l \in DOMAIN active', k < l
          PROVE  /\ active'[k].claim # active'[l].claim
                 /\ active'[k].item = active'[l].item =>
                        Scored(active'[l].collector) = {} /\ ~Live(active[k].claim)'
      <3>1. k \in DOMAIN active /\ active'[k] = active[k]
        <4>1. k \in 1 .. n
          BY <1>4, <2>4
        <4> QED BY <1>4, <4>1, Zenon
      <3>2. CASE l \in DOMAIN active /\ active'[l] = active[l]
        BY <2>3, <2>4, <3>1, <3>2, Zenon DEF ActiveInv
      <3>3. CASE l = n + 1 /\ active'[l] = v
        BY <1>2, <1>3, <2>3, <3>1, <3>3, Zenon DEF ActiveInv
      <3> QED BY <1>5, <3>2, <3>3, Zenon
    <2> QED BY <1>1, <2>2, <2>4, Zenon DEF ActiveInv
  <1>8. PhaseInv'
    BY <1>1, <1>2, <1>4, Zenon DEF PhaseInv
  <1>9. VerdictInv'
    BY <1>1, VerdictsKept, Zenon DEF eventVars
  <1>10. PanelInv'
    <2> DEFINE cs == {active[k].claim : k \in DOMAIN active}
    <2>1. {active'[k].claim : k \in DOMAIN active'} = cs \cup {opening.claim}
      <3>1. \A k \in DOMAIN active' : active'[k].claim \in cs \cup {opening.claim}
        BY <1>3, <1>5, Zenon
      <3>2. \A k \in DOMAIN active : k \in DOMAIN active' /\ active'[k] = active[k]
        BY <1>4
      <3>3. n + 1 \in DOMAIN active' /\ active'[n + 1].claim = opening.claim
        BY <1>3, <1>4
      <3> QED BY <3>1, <3>2, <3>3, Zenon
    <2>2. panels \ leaked = cs \ leaked
      BY Zenon DEF PanelInv
    <2> HIDE DEF cs
    <2>3. panels' \ leaked' = (cs \cup {opening.claim}) \ leaked'
      BY <1>1, <2>2, Zenon
    <2> QED BY <2>1, <2>3, Zenon DEF PanelInv
  <1> QED BY <1>6, <1>7, <1>8, <1>9, <1>10, Zenon

-----------------------------------------------------------------------------
(* All behaviours *)

\* The coordinator starts over an empty queue.
LEMMA ReviewInvInit == ReviewInit => Inv /\ ReviewInv
  <1> SUFFICES ASSUME ReviewInit PROVE Inv /\ ReviewInv
    OBVIOUS
  <1>1. Inv
    BY InvInit, Zenon DEF ReviewInit
  <1>2. \A c \in ClaimId : ~Readable(c)
    BY Zenon DEF ReviewInit, Init, Readable
  <1>3. PhaseInv
    <2>1. 1 \in 1 .. Len(LANE_NAMES)
      <3>1. LANE_NAMES \in Seq(Lane) /\ LANE_NAMES # <<>>
        BY ReviewAssumption, Zenon
      <3> QED BY <3>1
    <2> QED BY <2>1 DEF ReviewInit, PhaseInv
  <1>4. RequestInv
    <2>1. \A i \in Item : ~Done(i)
      <3>1. None \notin Item /\ closing = None /\ lost = {} /\ approvals = [i \in Item |-> 0]
        BY ReviewAssumption, Zenon DEF ReviewInit
      <3> QED BY <3>1 DEF Done
    <2> QED BY <1>2, <2>1, Zenon DEF ReviewInit, Init, RequestInv
  <1>5. ActiveInv /\ VerdictInv /\ PanelInv
    <2>1. active = <<>> /\ DOMAIN active = {} /\ opening = None
      BY DEF ReviewInit
    <2>2. ActiveInv
      BY <2>1, Zenon DEF ActiveInv
    <2>3. VerdictInv
      <3>1. /\ closing = None /\ approvals = [i \in Item |-> 0] /\ decision = [i \in Item |-> None]
            /\ None # "Approved"
        BY ReviewAssumption, Zenon DEF ReviewInit
      <3> QED BY <3>1 DEF VerdictInv
    <2>4. PanelInv
      BY <2>1, Zenon DEF ReviewInit, PanelInv
    <2> QED BY <2>2, <2>3, <2>4
  <1> QED BY <1>1, <1>3, <1>4, <1>5 DEF ReviewInv

\* Every step keeps the invariant.
LEMMA ReviewInvStep ==
    ASSUME Inv, ReviewInv, [ReviewNext]_allVars
    PROVE  Inv' /\ ReviewInv'
  <1>1. Inv'
    BY QueueStep, InvStep DEF ReviewInv
  <1>2. ASSUME UNCHANGED allVars PROVE ReviewInv'
    <2>1. /\ UNCHANGED <<vars, requested, active, panels, leaked, approvals, decision, lost>>
          /\ UNCHANGED <<pc, todo, finished, lane, opening, closing>>
      BY <1>2, Zenon DEF allVars, tickVars, eventVars
    <2>2. StoreKeeps
      BY <2>1, StoreSteps, Zenon
    <2>3. \A i \in Item : Done(i)' <=> Done(i)
      BY <2>1, Zenon DEF Done
    <2>4. RequestInv' /\ ActiveInv'
      BY <2>1, <2>2, <2>3, QuietStep, Zenon DEF ReviewInv
    <2>5. PhaseInv' /\ VerdictInv' /\ PanelInv'
      BY <2>1, Zenon DEF ReviewInv, PhaseInv, VerdictInv, PanelInv
    <2> QED BY <2>4, <2>5 DEF ReviewInv
  <1>3. ASSUME Coordinator PROVE ReviewInv'
    BY <1>3, TickStep, NegativeStep, DroppedStep, ApprovedStep, EmitStep, ClaimStep, StartStep, Zenon
       DEF Coordinator
  <1>4. ASSUME ReviewNext PROVE ReviewInv'
    BY <1>3, <1>4, EnqueueStep, SubmitStep, EndStep, TickStep, Zenon DEF ReviewNext
  <1> QED BY <1>1, <1>2, <1>4

\* The coordinator keeps its requests, leases, reviews and sessions in step.
THEOREM ReviewInvariance == ReviewSpec => [](Inv /\ ReviewInv)
  BY ReviewInvInit, ReviewInvStep, PTL DEF ReviewSpec

\* ReviewCoordinator: a request is approved at most once.
THEOREM RequestsApprovedOnce == ReviewSpec => []ApprovedOnce
  <1>1. Inv /\ ReviewInv => ApprovedOnce
    BY DEF ReviewInv, VerdictInv, ApprovedOnce
  <1> QED BY <1>1, ReviewInvariance, PTL

\* ReviewCoordinator: a request stays on the queue until it is acknowledged,
\* and only an approval acknowledges it.
THEOREM RequestsAreNotLost == ReviewSpec => []RequestsStayQueued
  <1>1. ASSUME Inv, ReviewInv PROVE RequestsStayQueued
    <2> SUFFICES ASSUME NEW i \in requested, approvals[i] = 0, i # closing, i \notin lost
                 PROVE  \E n \in Rows, q \in Lane : Queued(n, q, i)
      BY Zenon DEF RequestsStayQueued
    <2>1. OnQueue(i)
      <3>1. ~(approvals[i] > 0)
        OBVIOUS
      <3>2. ~Done(i)
        BY <3>1 DEF Done
      <3> QED BY <1>1, <3>2, Zenon DEF ReviewInv, RequestInv
    <2>2. PICK n \in Rows : rows[n] # None /\ rows[n].item = i
      BY <2>1, Zenon DEF OnQueue
    <2>3. rows[n].lane \in Lane
      BY <1>1, <2>2, Zenon DEF Inv, TypeOK, Row
    <2> QED BY <2>2, <2>3, Zenon DEF Queued
  <1> QED BY <1>1, ReviewInvariance, PTL

\* ReviewCoordinator: between ticks the sessions are those of the active
\* reviews.
THEOREM SessionsEndWithReviews == ReviewSpec => []PanelsAreTornDown
  <1>1. Inv /\ ReviewInv => PanelsAreTornDown
    BY Zenon DEF ReviewInv, PanelInv, PanelsAreTornDown
  <1> QED BY <1>1, ReviewInvariance, PTL

\* ReviewCoordinator: no verdict follows an approval.
THEOREM NothingAfterApproval == ReviewSpec => ApprovalIsLast
  <1> DEFINE Stays == \A i \in Item : decision[i] = "Approved" => decision'[i] = "Approved"
  <1>1. ASSUME Inv, ReviewInv, [ReviewNext]_allVars PROVE Stays
    <2>1. ASSUME NEW k \in todo, JudgeNegative(k) PROVE Stays
      <3>1. decision[active[k].item] # "Approved"
        BY <1>1, <2>1, NegativeStep, Zenon
      <3>2. \E v : decision' = [decision EXCEPT ![active[k].item] = v]
        BY <2>1, Zenon DEF JudgeNegative
      <3>3. decision \in [Item -> {"Approved", "ChangesRequested", "Rejected", None}]
        BY <1>1 DEF ReviewInv, VerdictInv
      <3> QED BY <3>1, <3>2, <3>3
    <2>2. ASSUME emit_approval PROVE Stays
      BY <1>1, <2>2, Zenon DEF emit_approval, ReviewInv, VerdictInv
    <2>3. ASSUME decision' = decision PROVE Stays
      BY <2>3
    <2>4. \/ decision' = decision \/ emit_approval \/ \E k \in todo : JudgeNegative(k)
      BY <1>1, Zenon DEF ReviewNext, Coordinator, allVars, eventVars, enqueue, submit_review, tick,
             JudgeApproved, JudgeFails, FinishNegative, FinishApproved, FinishAckFails, EmitFails,
             ClaimLane, NextLane, ClaimFails, start_review, StartFails, shutdown, Crash, Store
    <2> QED BY <2>1, <2>2, <2>3, <2>4
  <1> QED BY <1>1, ReviewInvariance, PTL DEF ReviewSpec, ApprovalIsLast
=============================================================================
