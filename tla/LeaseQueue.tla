----------------------------- MODULE LeaseQueue -----------------------------
(***************************************************************************)
(* The durable work queue of the Fjall store (QueueManager) and the part   *)
(* of the startup recovery scan that cleans its claims.                    *)
(*                                                                         *)
(* A queue row is written by append_and_enqueue.  claim_next hands the     *)
(* first unclaimed row of a lane to a consumer under a lease; the marker   *)
(* of the (lane, item) pair names the lease.  Leases are timed by a clock  *)
(* that starts at zero in every process and is tagged with an epoch, so    *)
(* leases of an earlier process count as expired.  claim_lock makes each   *)
(* queue operation one step; recovery runs before the store is shared and  *)
(* removes the marker and the lease of a claim in two writes.              *)
(***************************************************************************)
EXTENDS Integers

CONSTANTS
    Lane, Item, ClaimId,
    None, Malformed,   \* no value; a lease payload that does not parse
    LeaseFor,          \* lease_for of claims and renewals
    MaxRows,           \* bound: queue rows ever written
    MaxTime,           \* bound: clock of one process
    MaxCrashes         \* bound: restarts

ASSUME LeaseQueueAssumption ==
    /\ LeaseFor \in Nat \ {0} /\ MaxRows \in Nat
    /\ MaxTime \in Nat /\ MaxCrashes \in Nat

Row == [lane : Lane, item : Item]
Lease == [lane : Lane, item : Item, epoch : 0 .. MaxCrashes,
          deadline : 0 .. MaxTime + LeaseFor]

ASSUME NoneIsNoValue ==
    /\ None # Malformed /\ None \notin ClaimId
    /\ None \notin Row /\ None \notin Lease /\ Malformed \notin Lease

VARIABLES
    rows,      \* queue rows by sequence number, None once acknowledged
    written,   \* number of rows written so far
    lease,     \* lease:{claim_id}
    marker,    \* claimed:{queue}:{item}
    epoch, now,    \* LeaseClock of the running process
    cleaning,  \* expired claims recovery has still to remove; {} once it is up
    up,        \* the store is open
    used,      \* history: claim ids drawn so far
    held,      \* claims whose holder is alive and may still ack or renew
    acked      \* history: rows removed by an ack

vars == <<rows, written, lease, marker, epoch, now, cleaning, up, used, held, acked>>

-----------------------------------------------------------------------------
claim_is_expired(l) == l.epoch # epoch \/ now >= l.deadline

Live(c) == lease[c] \notin {None, Malformed} /\ ~claim_is_expired(lease[c])

\* Mutant: an item whose holder has let go of the claim counts as free.
claim_marker_is_held(q, i) == marker[<<q, i>>] \in held /\ Live(marker[<<q, i>>])

\* Whether the marker names a live lease on the same lane and item.
claim_marker_is_active(q, i) ==
    LET c == marker[<<q, i>>] IN
    c # None /\ Live(c) /\ lease[c].lane = q /\ lease[c].item = i

Rows == 1 .. MaxRows

Queued(n, q, i) == rows[n] # None /\ rows[n].lane = q /\ rows[n].item = i

FirstRow(n, q, i) == Queued(n, q, i) /\ \A m \in 1 .. n - 1 : ~Queued(m, q, i)

\* claim_marker_is_active removes with a stale marker its lease, if that is
\* unreadable or expired.
StaleLease(c) ==
    lease[c] # None /\ (lease[c] # Malformed => claim_is_expired(lease[c]))

NewLease(q, i) ==
    [lane |-> q, item |-> i, epoch |-> epoch, deadline |-> now + LeaseFor]

\* append_and_enqueue writes the row under the event's sequence number.
Enqueue(q, i) ==
    /\ up
    /\ written < MaxRows
    /\ written' = written + 1
    /\ rows' = [rows EXCEPT ![written + 1] = [lane |-> q, item |-> i]]
    /\ UNCHANGED <<lease, marker, epoch, now, cleaning, up, used, held, acked>>

\* The first row of the lane whose item is not actively claimed.
claim_next(q, c) ==
    /\ up
    /\ c \notin used
    /\ \E n \in Rows, i \in Item :
        /\ Queued(n, q, i)
        /\ ~claim_marker_is_active(q, i)
        /\ \A m \in 1 .. n - 1, j \in Item :
            Queued(m, q, j) => claim_marker_is_active(q, j)
        /\ lease' = [d \in ClaimId |->
                        IF d = c THEN NewLease(q, i)
                        ELSE IF d = marker[<<q, i>>] /\ StaleLease(d) THEN None
                        ELSE lease[d]]
        /\ marker' = [marker EXCEPT ![<<q, i>>] = c]
    /\ used' = used \cup {c}
    /\ held' = held \cup {c}
    /\ UNCHANGED <<rows, written, epoch, now, cleaning, up, acked>>

\* Mutant: the claim is dropped without looking at its deadline.
DropUnchecked(c) ==
    /\ lease' = [lease EXCEPT ![c] = None]
    /\ marker' = [marker EXCEPT ![<<lease[c].lane, lease[c].item>>] = None]
    /\ UNCHANGED <<rows, acked>>

\* What an ack or a renewal of an expired claim does before it reports
\* ClaimExpired.
DropExpired(c) ==
    /\ claim_is_expired(lease[c])
    /\ lease' = [lease EXCEPT ![c] = None]
    /\ marker' = [marker EXCEPT ![<<lease[c].lane, lease[c].item>>] = None]
    /\ UNCHANGED <<rows, acked>>

\* Mutant: the row is removed although the lease has run out.
ack_claim_late(c) ==
    /\ up /\ c \in held
    /\ lease[c] \notin {None, Malformed}
    /\ \E n \in Rows :
        /\ Queued(n, lease[c].lane, lease[c].item)
        /\ lease' = [lease EXCEPT ![c] = None]
        /\ marker' = [marker EXCEPT ![<<lease[c].lane, lease[c].item>>] = None]
        /\ rows' = [rows EXCEPT ![n] = None]
        /\ acked' = acked \cup {n}
    /\ UNCHANGED <<written, epoch, now, cleaning, up, used, held>>

\* ack_claim: lease, marker and the item's first row go in one batch.  An
\* unknown or unreadable claim is an error that changes nothing.
ack_claim(c) ==
    /\ up /\ c \in held
    /\ lease[c] \notin {None, Malformed}
    /\ \/ DropExpired(c)
       \/ LET q == lease[c].lane
              i == lease[c].item
          IN  /\ ~claim_is_expired(lease[c])
              /\ lease' = [lease EXCEPT ![c] = None]
              /\ marker' = [marker EXCEPT ![<<q, i>>] = None]
              /\ rows' = [n \in Rows |-> IF FirstRow(n, q, i) THEN None ELSE rows[n]]
              /\ acked' = acked \cup {n \in Rows : FirstRow(n, q, i)}
    /\ UNCHANGED <<written, epoch, now, cleaning, up, used, held>>

renew_claim(c) ==
    /\ up /\ c \in held
    /\ lease[c] \notin {None, Malformed}
    /\ \/ DropExpired(c)
       \/ /\ ~claim_is_expired(lease[c])
          /\ lease' = [lease EXCEPT ![c] = NewLease(@.lane, @.item)]
          /\ UNCHANGED <<rows, marker, acked>>
    /\ UNCHANGED <<written, epoch, now, cleaning, up, used, held>>

\* The claims list_expired_claims finds; unreadable payloads are skipped.
Expired == {c \in ClaimId : /\ lease[c] \notin {None, Malformed}
                            /\ claim_is_expired(lease[c])}

cleanup_expired_claims ==
    /\ up
    /\ Expired # {}
    /\ lease' = [c \in ClaimId |-> IF c \in Expired THEN None ELSE lease[c]]
    /\ marker' = [p \in Lane \X Item |->
                    IF \E c \in Expired : p = <<lease[c].lane, lease[c].item>>
                    THEN None ELSE marker[p]]
    /\ UNCHANGED <<rows, written, epoch, now, cleaning, up, used, held, acked>>

-----------------------------------------------------------------------------
\* The lease clock advances.
Tick ==
    /\ now < MaxTime
    /\ now' = now + 1
    /\ UNCHANGED <<rows, written, lease, marker, epoch, cleaning, up, used, held, acked>>

\* A holder goes away without acknowledging.
Abandon(c) ==
    /\ c \in held
    /\ held' = held \ {c}
    /\ UNCHANGED <<rows, written, lease, marker, epoch, now, cleaning, up, used, acked>>

\* The process dies and another opens the store: a new epoch, in which every
\* stored lease is expired, and the list recovery takes before it cleans.
Restart ==
    /\ epoch < MaxCrashes
    /\ epoch' = epoch + 1
    /\ now' = 0
    /\ held' = {}
    /\ up' = FALSE
    /\ cleaning' = {c \in ClaimId : lease[c] \notin {None, Malformed}}
    /\ UNCHANGED <<rows, written, lease, marker, used, acked>>

\* clean_expired_claims, first write of a claim: its marker.
RemoveMarker(c) ==
    /\ ~up /\ c \in cleaning
    /\ marker[<<lease[c].lane, lease[c].item>>] # None
    /\ marker' = [marker EXCEPT ![<<lease[c].lane, lease[c].item>>] = None]
    /\ UNCHANGED <<rows, written, lease, epoch, now, cleaning, up, used, held, acked>>

\* Second write: its lease.
RemoveLease(c) ==
    /\ ~up /\ c \in cleaning
    /\ marker[<<lease[c].lane, lease[c].item>>] = None
    /\ lease' = [lease EXCEPT ![c] = None]
    /\ cleaning' = cleaning \ {c}
    /\ UNCHANGED <<rows, written, marker, epoch, now, up, used, held, acked>>

RecoveryDone ==
    /\ ~up /\ cleaning = {}
    /\ up' = TRUE
    /\ UNCHANGED <<rows, written, lease, marker, epoch, now, cleaning, used, held, acked>>

-----------------------------------------------------------------------------
\* An empty queue, or one in which a lease payload was damaged.
Init ==
    /\ rows = [n \in Rows |-> None]
    /\ written = 0
    /\ \/ /\ lease = [c \in ClaimId |-> None]
          /\ marker = [p \in Lane \X Item |-> None]
          /\ used = {}
       \/ \E c \in ClaimId, p \in Lane \X Item :
          /\ lease = [d \in ClaimId |-> IF d = c THEN Malformed ELSE None]
          /\ marker = [r \in Lane \X Item |-> IF r = p THEN c ELSE None]
          /\ used = {c}
    /\ epoch = 0 /\ now = 0
    /\ cleaning = {} /\ up = TRUE
    /\ held = {} /\ acked = {}

Next ==
    \/ \E q \in Lane, i \in Item : Enqueue(q, i)
    \/ \E q \in Lane, c \in ClaimId : claim_next(q, c)
    \/ \E c \in ClaimId : ack_claim(c)
    \/ \E c \in ClaimId : renew_claim(c)
    \/ cleanup_expired_claims
    \/ Tick
    \/ \E c \in ClaimId : Abandon(c)
    \/ Restart
    \/ \E c \in ClaimId : RemoveMarker(c)
    \/ \E c \in ClaimId : RemoveLease(c)
    \/ RecoveryDone

Spec == Init /\ [][Next]_vars

-----------------------------------------------------------------------------
\* Every variable has the shape of the records the store writes.
TypeOK ==
    /\ rows \in [Rows -> Row \cup {None}]
    /\ written \in 0 .. MaxRows
    /\ lease \in [ClaimId -> Lease \cup {None, Malformed}]
    /\ marker \in [Lane \X Item -> ClaimId \cup {None}]
    /\ epoch \in 0 .. MaxCrashes
    /\ now \in 0 .. MaxTime
    /\ cleaning \in SUBSET ClaimId
    /\ up \in BOOLEAN
    /\ used \in SUBSET ClaimId
    /\ held \in SUBSET used
    /\ acked \in SUBSET Rows

\* Single winner: two live claims are never on the same item of a lane,
\* whatever expires, is cleaned up, renewed late or cut off by a restart.
SingleWinner ==
    \A c, d \in ClaimId :
        /\ Live(c)
        /\ Live(d)
        /\ lease[c].lane = lease[d].lane
        /\ lease[c].item = lease[d].item
        => c = d

\* Why it holds: in an open store every readable lease is the one its marker
\* names, and while recovery runs nothing is live and the claims it listed are
\* the readable leases.
LeasesAreMarked ==
    /\ up => \A c \in ClaimId :
                lease[c] \notin {None, Malformed}
                => marker[<<lease[c].lane, lease[c].item>>] = c
    /\ ~up => cleaning = {c \in ClaimId : lease[c] \notin {None, Malformed}}

\* A row leaves the queue only through an ack whose claim on it is live, so a
\* crash or a late ack loses no work.
RowsLeaveByLiveAck ==
    [][\A n \in Rows :
        (rows[n] # None /\ rows'[n] = None) =>
            \E c \in ClaimId : /\ Live(c)
                               /\ rows[n].lane = lease[c].lane
                               /\ rows[n].item = lease[c].item]_vars

\* A live claim stays live until it is acked, time runs out on it or the
\* process ends: no other operation on the queue takes it away.
LiveClaimsKept ==
    [][\A c \in ClaimId :
        (Live(c) /\ now' = now /\ epoch' = epoch /\ acked' = acked) => Live(c)']_vars
=============================================================================
