--------------------------- MODULE EventLogProofs ---------------------------
(***************************************************************************)
(* The event log implements the append-only log, keeps keys and queue rows *)
(* in step and skips no single append, for any numbers of events, keys,    *)
(* readers, crashes and expiries.                                          *)
(***************************************************************************)
EXTENDS EventLog, FiniteSetTheorems, WellFoundedInduction, TLAPS

\* The stored ids are those up to the stored sequence number, and the counter
\* is ahead of it by the events that are not committed yet.
LogInv ==
    /\ log \in [Id -> Event \cup {None}]
    /\ archive \in [Id -> Event \cup {None}]
    /\ metaSeq \in 0 .. MaxSeq
    /\ idem \in [Key -> 0 .. metaSeq]
    /\ inflight \in Seq(Event)
    /\ seq = metaSeq + Len(inflight)
    /\ seq <= MaxSeq
    /\ Committed = 1 .. metaSeq

\* Only an append of one event has a key.  Until a key expires it names its
\* one event and its one row, and an append under way has a new key.
KeyInv ==
    /\ rows \in SUBSET (Key \X Id)
    /\ \A i \in 1 .. Len(inflight) : inflight[i].key # None => Len(inflight) = 1
    /\ expiries \in Nat
    /\ expiries = 0 =>
        /\ \A i \in Committed : Stored(i).key # None => idem[Stored(i).key] = i
        /\ \A k \in Key, i \in Id : <<k, i>> \in rows => idem[k] = i
        /\ \A i \in 1 .. Len(inflight) :
              inflight[i].key # None => idem[inflight[i].key] = 0

\* A materialized key has a row.
QueueInv ==
    /\ \A k \in material : \E j \in Id : <<k, j>> \in rows
    /\ RequestsAreQueued

Streaming == [next : Int, end : Int, got : SUBSET Int]

\* A stream that began at the cursor c has read all ids up to its next one,
\* except perhaps the very last of its range, which was not committed yet.
ReadsOn(c, s) ==
    /\ c < s.next /\ s.next <= s.end /\ s.end <= metaSeq + 2
    /\ s.got \subseteq 1 .. metaSeq
    /\ \/ s.got = c + 1 .. s.next - 1
       \/ s.next = s.end /\ s.got = c + 1 .. s.next - 2

\* While every append is of one event: readers have seen all up to the cursor.
ReaderInv ==
    ~batched =>
        /\ Len(inflight) <= 1
        /\ cursor \in [Reader -> 0 .. metaSeq]
        /\ seen \in [Reader -> SUBSET Int]
        /\ stream \in [Reader -> {None} \cup Streaming]
        /\ \A r \in Reader : /\ 1 .. cursor[r] \subseteq seen[r]
                             /\ stream[r] # None => ReadsOn(cursor[r], stream[r])

Inv == LogInv /\ KeyInv /\ QueueInv /\ ReaderInv

-----------------------------------------------------------------------------
(* Maximum and minimum *)

\* An upper bound that is a member is what Max chooses.
LEMMA MaxIs ==
    ASSUME NEW S \in SUBSET Int, NEW m \in S, \A x \in S : x <= m
    PROVE  Max(S) = m
  <1>1. \E x \in S : \A y \in S : x >= y
    OBVIOUS
  <1>2. PICK x : x = Max(S)
    OBVIOUS
  <1>3. /\ x \in S
        /\ \A y \in S : x >= y
    BY <1>1, <1>2 DEF Max
  <1>4. x >= m /\ m >= x /\ x \in Int /\ m \in Int
    BY <1>3
  <1>5. x = m
    BY <1>4
  <1> QED BY <1>2, <1>5

\* A set of natural numbers has a least member.
LEMMA Least ==
    ASSUME NEW T \in SUBSET Nat, T # {}
    PROVE  \E x \in T : \A y \in T : x <= y
  <1> DEFINE R == OpToRel(<, Nat)
  <1>1. PICK x \in T : \A y \in T : ~ (<<y, x>> \in R)
    <2>1. IsWellFoundedOn(R, Nat)
      BY NatLessThanWellFounded
    <2> HIDE DEF R
    <2> QED BY <2>1, WFMin
  <1>2. \A y \in T : ~ (y < x)
    BY <1>1 DEF OpToRel
  <1> QED BY <1>2

\* Min of two numbers is one of them and not above the other.
LEMMA MinOfTwo ==
    ASSUME NEW a \in Int, NEW b \in Int
    PROVE  Min({a, b}) \in {a, b} /\ Min({a, b}) <= a /\ Min({a, b}) <= b
  <1>1. \E x \in {a, b} : \A y \in {a, b} : x =< y
    OBVIOUS
  <1>2. /\ Min({a, b}) \in {a, b}
        /\ \A y \in {a, b} : Min({a, b}) =< y
    BY <1>1 DEF Min
  <1> QED BY <1>2

\* load_seq: reopening finds the stored sequence number, although the log may
\* have been archived.
LEMMA ReopenedSeq ==
    ASSUME LogInv
    PROVE  load_seq = metaSeq
  <1> DEFINE H == {0} \cup {i \in Id : log[i] # None}
             T == {metaSeq - x : x \in H}
  <1>0. metaSeq \in Nat
    BY EventLogAssumption DEF LogInv
  <1>1. \A x \in H : x \in 0 .. metaSeq
    <2>1. \A i \in Id : log[i] # None => i \in Committed
      BY DEF Committed, Stored
    <2> QED BY <2>1, <1>0 DEF LogInv
  <1>2. PICK t \in T : \A u \in T : t <= u
    <2>1. T \subseteq Nat /\ metaSeq - 0 \in T
      BY <1>0, <1>1
    <2> HIDE DEF T
    <2> QED BY <2>1, Least
  <1>3. PICK m \in H : t = metaSeq - m
    BY <1>2
  <1>4. \A x \in H : metaSeq - x \in T
    OBVIOUS
  <1>5. \A x \in H : x <= m
    <2> SUFFICES ASSUME NEW x \in H PROVE x <= m
      OBVIOUS
    <2>1. metaSeq - m <= metaSeq - x
      BY <1>2, <1>3, <1>4
    <2>2. x \in Int /\ m \in Int
      BY <1>1
    <2> QED BY <2>1, <2>2, <1>0
  <1>6. load_high_water_mark = m
    <2>1. H \in SUBSET Int
      BY EventLogAssumption DEF Id
    <2>2. Max(H) = m
      <3> HIDE DEF H
      <3> QED BY <2>1, <1>5, MaxIs
    <2> QED BY <2>2 DEF load_high_water_mark
  <1>7. Max({metaSeq, m}) = metaSeq
    <2>1. m <= metaSeq /\ m \in Int
      <3> HIDE DEF H, T
      <3> QED BY <1>0, <1>1
    <2>2. {metaSeq, m} \in SUBSET Int /\ \A x \in {metaSeq, m} : x <= metaSeq
      BY <2>1, <1>0
    <2> QED BY <2>2, MaxIs
  <1> QED BY <1>6, <1>7 DEF load_seq

-----------------------------------------------------------------------------
(* The invariant *)

\* An empty store, and one an older version left, satisfy the invariant.
LEMMA InitInv == Init => Inv
  <1> SUFFICES ASSUME Init PROVE Inv
    OBVIOUS
  <1> USE EventLogAssumption, NoneIsNoEvent
  <1>1. LogInv
    <2>1. CASE log = [i \in Id |-> None] /\ idem = [k \in Key |-> 0] /\ metaSeq = 0
      <3>1. Committed = 1 .. metaSeq
        BY <2>1 DEF Init, Committed, Stored
      <3>2. load_high_water_mark = 0 /\ seq = 0
        <4>1. {0} \cup {i \in Id : log[i] # None} = {0}
          BY <2>1
        <4>2. Max({0}) = 0
          BY MaxIs
        <4>3. {metaSeq, 0} = {0}
          BY <2>1
        <4> QED BY <4>1, <4>2, <4>3 DEF Init, load_high_water_mark, load_seq
      <3> QED BY <2>1, <3>1, <3>2 DEF Init, LogInv
    <2>2. ASSUME NEW k \in Key, NEW p \in Payload,
                 log = [i \in Id |-> IF i = 1 THEN [payload |-> p, key |-> k] ELSE None],
                 idem = [j \in Key |-> IF j = k THEN 1 ELSE 0],
                 metaSeq = 1
          PROVE  LogInv
      <3>0. 1 \in Id /\ [payload |-> p, key |-> k] \in Event
        BY DEF Id, Event
      <3>1. Committed = 1 .. metaSeq
        BY <2>2, <3>0 DEF Init, Committed, Stored, Id
      <3>2. seq = 1
        <4>1. {0} \cup {i \in Id : log[i] # None} = {0, 1}
          BY <2>2, <3>0
        <4>2. Max({0, 1}) = 1 /\ Max({1}) = 1
          BY MaxIs
        <4>3. {metaSeq, 1} = {1}
          BY <2>2
        <4> QED BY <4>1, <4>2, <4>3 DEF Init, load_high_water_mark, load_seq
      <3> QED BY <2>2, <3>0, <3>1, <3>2 DEF Init, LogInv
    <2> QED BY <2>1, <2>2 DEF Init
  <1>2. KeyInv /\ QueueInv
    <2>1. Committed = {} \/ \E k \in Key : Committed = {1} /\ Stored(1).key = k /\ idem[k] = 1
      BY DEF Init, Committed, Stored, Id, Event
    <2> QED BY <2>1 DEF Init, KeyInv, QueueInv, RequestsAreQueued
  <1>3. ReaderInv
    BY <1>1 DEF Init, ReaderInv, LogInv
  <1> QED BY <1>1, <1>2, <1>3 DEF Inv

\* The keys of an append that takes its ids: none, or one that is not known.
NewKeys(evs) ==
    \A i \in 1 .. Len(evs) :
        evs[i].key # None => Len(evs) = 1 /\ idem[evs[i].key] = 0

\* Taking ids keeps the invariant.
LEMMA AllocateStep ==
    ASSUME Inv, NEW evs \in Seq(Event), NewKeys(evs), Allocate(evs)
    PROVE  Inv'
  <1> USE EventLogAssumption
  <1>1. Committed' = Committed /\ \A i \in Id : Stored(i)' = Stored(i)
    BY DEF Allocate, durable, Committed, Stored
  <1>2. inflight = <<>> /\ Len(inflight) = 0 /\ Len(evs) \in Nat
    BY DEF Allocate, Unlocked
  <1>3. LogInv'
    BY <1>1, <1>2 DEF Inv, LogInv, Allocate, durable
  <1>4. KeyInv'
    BY <1>1, <1>2 DEF Inv, KeyInv, NewKeys, Allocate, durable, bounds, Committed
  <1>5. QueueInv'
    BY <1>1 DEF Inv, QueueInv, RequestsAreQueued, Allocate, durable, Committed
  <1>6. ReaderInv'
    <2>1. ~batched' => ~batched /\ ~(Len(evs) > 1)
      BY Zenon DEF Allocate
    <2>2. ~batched' => Len(inflight') <= 1
      BY <1>2, <2>1 DEF Allocate
    <2> QED BY <2>1, <2>2 DEF Inv, ReaderInv, ReadsOn, Allocate, durable, readers
  <1> QED BY <1>3, <1>4, <1>5, <1>6 DEF Inv

\* A known key, restore_seq_on_error and key expiry leave the log alone.
LEMMA KnownKeyStep ==
    ASSUME Inv, NEW k \in Key, Unlocked, idem[k] # 0,
           seq' = Max({seq, idem[k]}),
           rows' = IF k \in material THEN rows ELSE rows \cup {<<k, idem[k]>>},
           material' = material \cup {k},
           UNCHANGED <<log, archive, metaSeq, idem, inflight, readers, batched, bounds>>
    PROVE  Inv'
  <1> USE EventLogAssumption
  <1>1. Committed' = Committed /\ \A i \in Id : Stored(i)' = Stored(i)
    BY DEF Committed, Stored
  <1>2. seq = metaSeq /\ idem[k] \in Id /\ idem[k] <= metaSeq /\ metaSeq \in Int
    BY DEF Inv, LogInv, Unlocked, Id
  <1>3. seq' = seq
    <2>1. /\ {seq, idem[k]} \in SUBSET Int /\ seq \in {seq, idem[k]}
          /\ \A x \in {seq, idem[k]} : x <= seq
      BY <1>2 DEF Id
    <2> QED BY <2>1, MaxIs
  <1>4. LogInv'
    BY <1>1, <1>3 DEF Inv, LogInv
  <1>5. KeyInv'
    <2>1. rows' \in SUBSET (Key \X Id)
      BY <1>2 DEF Inv, KeyInv
    <2>2. \A j \in Key, i \in Id : <<j, i>> \in rows' => <<j, i>> \in rows \/ (j = k /\ i = idem[k])
      OBVIOUS
    <2> QED BY <1>1, <2>1, <2>2 DEF Inv, KeyInv, bounds, Committed
  <1>6. QueueInv'
    <2>1. rows \subseteq rows' /\ (k \notin material => <<k, idem[k]>> \in rows')
      OBVIOUS
    <2>2. \A j \in material' : \E i \in Id : <<j, i>> \in rows'
      BY <1>2, <2>1 DEF Inv, QueueInv
    <2> QED BY <1>1, <2>1, <2>2 DEF Inv, QueueInv, RequestsAreQueued, Committed
  <1>7. ReaderInv'
    BY DEF Inv, ReaderInv, ReadsOn, readers
  <1> QED BY <1>4, <1>5, <1>6, <1>7 DEF Inv

\* A failed commit gives its ids back.
LEMMA RestoreStep ==
    ASSUME Inv, restore_seq_on_error
    PROVE  Inv'
  <1> USE EventLogAssumption
  <1>1. Committed' = Committed /\ \A i \in Id : Stored(i)' = Stored(i)
    BY DEF restore_seq_on_error, durable, Committed, Stored
  <1>2. inflight' = <<>> /\ Len(inflight') = 0 /\ inflight' \in Seq(Event)
    BY DEF restore_seq_on_error
  <1>3. LogInv'
    <2>1. seq' = metaSeq /\ metaSeq \in 0 .. MaxSeq
      BY DEF Inv, LogInv, restore_seq_on_error
    <2> QED BY <1>1, <1>2, <2>1 DEF Inv, LogInv, restore_seq_on_error, durable
  <1>4. KeyInv'
    BY <1>1, <1>2 DEF Inv, KeyInv, restore_seq_on_error, durable, bounds, Committed
  <1>5. QueueInv'
    BY <1>1 DEF Inv, QueueInv, RequestsAreQueued, restore_seq_on_error, durable, Committed
  <1>6. ReaderInv'
    BY <1>2 DEF Inv, ReaderInv, ReadsOn, restore_seq_on_error, durable, readers
  <1> QED BY <1>3, <1>4, <1>5, <1>6 DEF Inv

\* Expiry forgets which event a key names, and no more.
LEMMA ExpireStep ==
    ASSUME Inv, NEW k \in Key, expire_idempotency_keys(k)
    PROVE  Inv'
  <1> USE EventLogAssumption
  <1>1. Committed' = Committed /\ \A i \in Id : Stored(i)' = Stored(i)
    BY DEF expire_idempotency_keys, Committed, Stored
  <1>2. LogInv'
    BY <1>1 DEF Inv, LogInv, expire_idempotency_keys
  <1>3. KeyInv'
    BY DEF Inv, KeyInv, expire_idempotency_keys
  <1>4. QueueInv'
    BY <1>1 DEF Inv, QueueInv, RequestsAreQueued, expire_idempotency_keys, Committed
  <1>5. ReaderInv'
    BY DEF Inv, ReaderInv, ReadsOn, expire_idempotency_keys, readers
  <1> QED BY <1>2, <1>3, <1>4, <1>5 DEF Inv

\* Archiving moves events without changing what is stored.
LEMMA ArchiveStep ==
    ASSUME Inv, NEW c \in Id, archive_events_before(c)
    PROVE  Inv' /\ \A i \in Id : Stored(i)' = Stored(i)
  <1> USE EventLogAssumption
  <1>1. Committed' = Committed /\ \A i \in Id : Stored(i)' = Stored(i)
    BY DEF Inv, LogInv, archive_events_before, Committed, Stored
  <1>2. LogInv'
    BY <1>1 DEF Inv, LogInv, archive_events_before
  <1>3. KeyInv'
    BY <1>1 DEF Inv, KeyInv, archive_events_before, bounds, Committed
  <1>4. QueueInv'
    BY <1>1 DEF Inv, QueueInv, RequestsAreQueued, archive_events_before, Committed
  <1>5. ReaderInv'
    BY DEF Inv, ReaderInv, ReadsOn, archive_events_before, readers
  <1> QED BY <1>1, <1>2, <1>3, <1>4, <1>5 DEF Inv

\* A commit stores its events right after those that are stored.
LEMMA CommitStored ==
    ASSUME LogInv, Commit
    PROVE  /\ Len(inflight) \in Nat /\ Len(inflight) > 0
           /\ metaSeq' = seq /\ metaSeq' = metaSeq + Len(inflight)
           /\ \A i \in 1 .. metaSeq : Stored(i)' = Stored(i)
           /\ \A i \in metaSeq + 1 .. seq : /\ i \in Id
                                            /\ i - metaSeq \in 1 .. Len(inflight)
                                            /\ Stored(i)' = inflight[i - metaSeq]
                                            /\ Stored(i)' \in Event
           /\ Committed' = 1 .. metaSeq'
  <1> USE EventLogAssumption, NoneIsNoEvent
  <1>1. Len(inflight) \in Nat /\ Len(inflight) > 0
    BY DEF LogInv, Commit, Unlocked
  <1>2. /\ metaSeq \in 0 .. MaxSeq /\ seq \in Int /\ seq <= MaxSeq
        /\ seq = metaSeq + Len(inflight)
        /\ seq - Len(inflight) + 1 = metaSeq + 1
    BY <1>1 DEF LogInv
  <1>3. /\ metaSeq' = seq /\ archive' = archive
        /\ log' = [i \in Id |-> IF i \in metaSeq + 1 .. seq
                                THEN inflight[i - (metaSeq + 1) + 1] ELSE log[i]]
    BY <1>2 DEF Commit
  <1>4. ASSUME NEW i \in metaSeq + 1 .. seq
        PROVE  /\ i \in Id /\ i - metaSeq \in 1 .. Len(inflight)
               /\ Stored(i)' = inflight[i - metaSeq] /\ Stored(i)' \in Event
    <2>1. i \in Id /\ i - metaSeq \in 1 .. Len(inflight) /\ i - (metaSeq + 1) + 1 = i - metaSeq
      BY <1>1, <1>2 DEF Id
    <2>2. inflight[i - metaSeq] \in Event
      BY <2>1 DEF LogInv
    <2>3. log'[i] = inflight[i - metaSeq]
      BY <1>3, <2>1
    <2> QED BY <2>1, <2>2, <2>3 DEF Stored
  <1>5. \A i \in Id : i \notin metaSeq + 1 .. seq => Stored(i)' = Stored(i)
    BY <1>3 DEF Stored
  <1>6. Committed' = 1 .. metaSeq'
    <2>1. \A i \in Id : i \in Committed <=> i \in 1 .. metaSeq
      BY DEF LogInv
    <2>2. \A i \in Id : Stored(i)' # None <=> i \in 1 .. seq
      BY <1>2, <1>4, <1>5, <2>1 DEF Id, Committed
    <2>3. \A i \in 1 .. seq : i \in Id
      BY <1>2 DEF Id
    <2> QED BY <1>3, <2>2, <2>3 DEF Committed
  <1>7. \A i \in 1 .. metaSeq : i \in Id /\ i \notin metaSeq + 1 .. seq
    BY <1>2 DEF Id
  <1>8. \A i \in 1 .. metaSeq : Stored(i)' = Stored(i)
    BY <1>5, <1>7
  <1> QED BY <1>1, <1>2, <1>3, <1>4, <1>6, <1>8

\* What a commit does to keys and rows: nothing, or it records its one key.
LEMMA CommitKeys ==
    ASSUME LogInv, KeyInv, Commit
    PROVE  \/ /\ \A i \in 1 .. Len(inflight) : inflight[i].key = None
              /\ idem' = idem /\ rows' = rows /\ material' = material
           \/ /\ Len(inflight) = 1 /\ inflight[1].key \in Key
              /\ idem' = [idem EXCEPT ![inflight[1].key] = seq]
              /\ rows' = rows \cup {<<inflight[1].key, seq>>}
              /\ material' = material \cup {inflight[1].key}
  <1> DEFINE ev(i) == inflight[i - (metaSeq + 1) + 1]
             keyed == {i \in metaSeq + 1 .. seq : ev(i).key # None}
  <1>1. /\ Len(inflight) \in Nat /\ Len(inflight) > 0 /\ metaSeq \in Int
        /\ seq = metaSeq + Len(inflight) /\ seq - Len(inflight) + 1 = metaSeq + 1
    BY EventLogAssumption, CommitStored DEF LogInv
  <1>2. /\ idem' = [k \in Key |-> IF \E i \in keyed : ev(i).key = k THEN seq ELSE idem[k]]
        /\ rows' = rows \cup {<<ev(i).key, i>> : i \in keyed}
        /\ material' = material \cup {ev(i).key : i \in keyed}
    BY <1>1 DEF Commit
  <1>3. \A i \in metaSeq + 1 .. seq : i - (metaSeq + 1) + 1 \in 1 .. Len(inflight)
    BY <1>1
  <1>4. CASE \A i \in 1 .. Len(inflight) : inflight[i].key = None
    <2>1. keyed = {}
      BY <1>3, <1>4
    <2>2. idem' = [k \in Key |-> idem[k]] /\ rows' = rows /\ material' = material
      <3> HIDE DEF keyed
      <3> QED BY <1>2, <2>1
    <2>3. idem' = idem
      BY <2>2 DEF LogInv
    <2> QED BY <1>4, <2>2, <2>3
  <1>5. CASE \E i \in 1 .. Len(inflight) : inflight[i].key # None
    <2>1. Len(inflight) = 1 /\ inflight[1].key # None
      BY <1>1, <1>5 DEF KeyInv
    <2>2. inflight[1].key \in Key
      <3>0. inflight \in Seq(Event) /\ 1 \in 1 .. Len(inflight)
        BY <2>1 DEF LogInv
      <3>1. inflight[1] \in Event
        BY <3>0
      <3> QED BY <2>1, <3>1 DEF Event
    <2>3. seq = metaSeq + 1 /\ metaSeq + 1 .. seq = {seq} /\ seq - (metaSeq + 1) + 1 = 1
      BY <1>1, <2>1
    <2>4. keyed = {seq} /\ ev(seq) = inflight[1]
      BY <2>1, <2>3
    <2>5. /\ rows' = rows \cup {<<inflight[1].key, seq>>}
          /\ material' = material \cup {inflight[1].key}
          /\ idem' = [k \in Key |-> IF inflight[1].key = k THEN seq ELSE idem[k]]
      <3> HIDE DEF keyed, ev
      <3> QED BY <1>2, <2>4
    <2>6. idem' = [idem EXCEPT ![inflight[1].key] = seq]
      BY <2>5 DEF LogInv
    <2> QED BY <2>1, <2>2, <2>5, <2>6
  <1> QED BY <1>4, <1>5

\* A commit keeps the invariant.
LEMMA CommitStep ==
    ASSUME Inv, Commit
    PROVE  Inv'
  <1> USE EventLogAssumption, NoneIsNoEvent
  <1>0. LogInv /\ KeyInv /\ QueueInv /\ ReaderInv
    BY DEF Inv
  <1>1. /\ inflight' = <<>> /\ Len(inflight') = 0 /\ inflight' \in Seq(Event)
        /\ seq' = seq /\ archive' = archive
        /\ UNCHANGED <<readers, batched, bounds>>
    BY SMTT(30) DEF Commit
  <1>2. /\ Len(inflight) \in Nat /\ Len(inflight) > 0
        /\ metaSeq' = seq /\ metaSeq' = metaSeq + Len(inflight)
        /\ \A i \in 1 .. metaSeq : Stored(i)' = Stored(i)
        /\ \A i \in metaSeq + 1 .. seq : /\ i \in Id
                                         /\ i - metaSeq \in 1 .. Len(inflight)
                                         /\ Stored(i)' = inflight[i - metaSeq]
                                         /\ Stored(i)' \in Event
        /\ Committed' = 1 .. metaSeq'
    BY <1>0, CommitStored
  <1>3. metaSeq \in Nat /\ seq \in Nat /\ metaSeq < seq /\ seq <= MaxSeq /\ Committed = 1 .. metaSeq
    BY <1>0, <1>2 DEF LogInv
  <1>4. LogInv'
    <2>1. log' \in [Id -> Event \cup {None}]
      <3>1. \A i \in Id : i \in seq - Len(inflight) + 1 .. seq =>
                              inflight[i - (seq - Len(inflight) + 1) + 1] \in Event
        <4> SUFFICES ASSUME NEW i \in seq - Len(inflight) + 1 .. seq
                     PROVE  inflight[i - (seq - Len(inflight) + 1) + 1] \in Event
          OBVIOUS
        <4>1. i - (seq - Len(inflight) + 1) + 1 \in 1 .. Len(inflight)
          BY <1>2, <1>3
        <4> QED BY <1>0, <4>1 DEF LogInv
      <3> QED BY <1>0, <3>1 DEF LogInv, Commit
    <2>2. idem' \in [Key -> 0 .. metaSeq']
      BY <1>0, <1>2, <1>3, CommitKeys DEF LogInv
    <2> QED BY <1>0, <1>1, <1>2, <1>3, <2>1, <2>2 DEF LogInv
  <1>5. KeyInv' /\ QueueInv'
    <2>1. CASE /\ \A i \in 1 .. Len(inflight) : inflight[i].key = None
               /\ idem' = idem /\ rows' = rows /\ material' = material
      <3>1. \A i \in Committed' :
               \/ i \in Committed /\ Stored(i)' = Stored(i)
               \/ Stored(i)'.key = None
        <4> SUFFICES ASSUME NEW i \in 1 .. seq
                     PROVE  \/ i \in Committed /\ Stored(i)' = Stored(i)
                            \/ Stored(i)'.key = None
          BY <1>2
        <4>1. CASE i \in 1 .. metaSeq
          BY <1>2, <1>3, <4>1
        <4>2. CASE i \in metaSeq + 1 .. seq
          BY <1>2, <2>1, <4>2
        <4> QED BY <1>3, <4>1, <4>2
      <3>2. KeyInv'
        BY <1>0, <1>1, <2>1, <3>1 DEF KeyInv, bounds
      <3>3. QueueInv'
        BY <1>0, <2>1, <3>1 DEF QueueInv, RequestsAreQueued
      <3> QED BY <3>2, <3>3
    <2>2. ASSUME NEW k \in Key, k = inflight[1].key, Len(inflight) = 1,
                 idem' = [idem EXCEPT ![k] = seq],
                 rows' = rows \cup {<<k, seq>>},
                 material' = material \cup {k}
          PROVE  KeyInv' /\ QueueInv'
      <3>0. k # None /\ seq \in Id /\ seq = metaSeq + 1 /\ seq - metaSeq = 1
        BY <1>2, <1>3, <2>2 DEF Id
      <3>1. \A i \in Committed' :
               \/ i \in Committed /\ Stored(i)' = Stored(i)
               \/ i = seq /\ Stored(i)'.key = k
        <4> SUFFICES ASSUME NEW i \in 1 .. seq
                     PROVE  \/ i \in Committed /\ Stored(i)' = Stored(i)
                            \/ i = seq /\ Stored(i)'.key = k
          BY <1>2
        <4>1. CASE i \in 1 .. metaSeq
          BY <1>2, <1>3, <4>1
        <4>2. CASE i = seq
          <5>1. seq \in metaSeq + 1 .. seq
            BY <1>3, <3>0
          <5> QED BY <1>2, <2>2, <3>0, <4>2, <5>1
        <4> QED BY <1>3, <3>0, <4>1, <4>2
      <3>2. KeyInv'
        <4>1. rows' \in SUBSET (Key \X Id)
          BY <1>0, <2>2, <3>0 DEF KeyInv
        <4>2. ASSUME expiries = 0 PROVE idem[k] = 0
          <5>1. 1 \in 1 .. Len(inflight)
            BY <2>2
          <5> QED BY <1>0, <2>2, <3>0, <4>2, <5>1 DEF KeyInv
        <4>3. ASSUME expiries = 0, NEW i \in Committed', Stored(i)'.key # None
              PROVE  idem'[Stored(i)'.key] = i
          <5>1. CASE i = seq /\ Stored(i)'.key = k
            BY <1>0, <2>2, <5>1 DEF LogInv
          <5>2. CASE i \in Committed /\ Stored(i)' = Stored(i)
            <6>1. idem[Stored(i).key] = i /\ i # 0
              BY <1>0, <1>3, <4>3, <5>2 DEF KeyInv
            <6>2. Stored(i).key # k
              BY <4>2, <4>3, <6>1
            <6>3. Stored(i) \in Event
              BY <1>0, <5>2 DEF LogInv, Stored, Committed
            <6> QED BY <1>0, <2>2, <4>3, <5>2, <6>1, <6>2, <6>3 DEF LogInv, Event
          <5> QED BY <3>1, <4>3, <5>1, <5>2
        <4>4. ASSUME expiries = 0, NEW j \in Key, NEW i \in Id, <<j, i>> \in rows'
              PROVE  idem'[j] = i
          <5>1. CASE <<j, i>> \in rows
            <6>1. idem[j] = i /\ i # 0
              BY <1>0, <4>4, <5>1 DEF KeyInv, Id
            <6>2. j # k
              BY <4>2, <4>4, <6>1
            <6> QED BY <1>0, <2>2, <6>1, <6>2 DEF LogInv
          <5>2. CASE j = k /\ i = seq
            BY <1>0, <2>2, <5>2 DEF LogInv
          <5> QED BY <2>2, <4>4, <5>1, <5>2
        <4> QED BY <1>0, <1>1, <4>1, <4>3, <4>4, SMTT(30) DEF KeyInv, bounds
      <3>3. QueueInv'
        <4>1. rows \subseteq rows' /\ <<k, seq>> \in rows'
          BY <2>2
        <4>2. \A j \in material' : \E i \in Id : <<j, i>> \in rows'
          BY <1>0, <2>2, <3>0, <4>1 DEF QueueInv
        <4>3. RequestsAreQueued'
          BY <1>0, <3>1, <4>1, <4>2 DEF QueueInv, RequestsAreQueued
        <4> QED BY <4>2, <4>3 DEF QueueInv
      <3> QED BY <3>2, <3>3
    <2> QED BY <1>0, <2>1, <2>2, CommitKeys
  <1>6. ReaderInv'
    <2>1. metaSeq <= metaSeq' /\ metaSeq' \in Nat
      BY <1>2, <1>3
    <2> QED BY <1>0, <1>1, <1>3, <2>1 DEF ReaderInv, ReadsOn, Streaming, readers
  <1> QED BY <1>4, <1>5, <1>6 DEF Inv

\* A stream begins right after the cursor; its range ends at most one id after
\* the stored ones.
LEMMA StreamStartStep ==
    ASSUME Inv, NEW r \in Reader, StreamStart(r), ~batched
    PROVE  ReaderInv'
  <1> USE EventLogAssumption
  <1>1. /\ LogInv /\ Len(inflight) <= 1 /\ Len(inflight) \in Nat
        /\ cursor \in [Reader -> 0 .. metaSeq] /\ cursor[r] \in Nat /\ metaSeq \in Nat
    BY DEF Inv, ReaderInv, LogInv
  <1>2. UNCHANGED <<durable, seq, inflight, cursor, seen, batched>>
    BY DEF StreamStart
  <1>3. PICK s \in current_seq :
            /\ cursor[r] + 1 <= s
            /\ stream' = [stream EXCEPT ![r] =
                  [next |-> cursor[r] + 1,
                   end |-> Min({cursor[r] + 1 + Limit, s + 1}), got |-> {}]]
    BY DEF StreamStart
  <1>4. s \in Int /\ s <= metaSeq + 1
    BY <1>1 DEF current_seq, LogInv
  <1>5. PICK e : e = Min({cursor[r] + 1 + Limit, s + 1})
    OBVIOUS
  <1>6. e \in Int /\ cursor[r] + 1 < e /\ e <= metaSeq + 2
    <2>0. cursor[r] + 1 + Limit \in Int /\ s + 1 \in Int
      BY <1>1, <1>4
    <2>1. e \in {cursor[r] + 1 + Limit, s + 1} /\ e <= s + 1
      BY <1>5, <2>0, MinOfTwo
    <2> QED BY <1>1, <1>3, <1>4, <2>1
  <1>7. stream' = [stream EXCEPT ![r] = [next |-> cursor[r] + 1, end |-> e, got |-> {}]]
    BY <1>3, <1>5
  <1>8. ReadsOn(cursor[r], [next |-> cursor[r] + 1, end |-> e, got |-> {}])
    BY <1>1, <1>6 DEF ReadsOn
  <1>9. [next |-> cursor[r] + 1, end |-> e, got |-> {}] \in Streaming
    BY <1>1, <1>6 DEF Streaming
  <1>10. metaSeq' = metaSeq
    BY <1>2 DEF durable
  <1>11. \A q \in Reader : stream'[q] # None => ReadsOn(cursor[q], stream'[q])
    BY <1>7, <1>8 DEF Inv, ReaderInv
  <1>12. stream' \in [Reader -> {None} \cup Streaming]
    BY <1>7, <1>9 DEF Inv, ReaderInv
  <1> QED BY <1>2, <1>10, <1>11, <1>12 DEF Inv, ReaderInv, ReadsOn

\* Each read adds the next id, unless it is the last of the range.
LEMMA StreamReadStep ==
    ASSUME Inv, NEW r \in Reader, StreamRead(r), ~batched
    PROVE  ReaderInv'
  <1> USE EventLogAssumption
  <1> DEFINE s == stream[r]
             t == [s EXCEPT !.next = @ + 1, !.got = @ \cup ({s.next} \cap Committed)]
  <1>1. /\ s \in Streaming /\ ReadsOn(cursor[r], s) /\ s.next < s.end
        /\ cursor[r] \in Nat /\ metaSeq \in Nat /\ Committed = 1 .. metaSeq
    BY DEF Inv, ReaderInv, LogInv, StreamRead
  <1>2. UNCHANGED <<durable, seq, inflight, cursor, seen, batched>> /\ metaSeq' = metaSeq
    BY DEF StreamRead, durable
  <1>3. stream' = [stream EXCEPT ![r] = t]
    BY DEF StreamRead, Inv, ReaderInv
  <1>4. s.next \in Int /\ s.end \in Int /\ s.got \in SUBSET Int
    BY <1>1 DEF Streaming
  <1>5. /\ t.next = s.next + 1 /\ t.end = s.end
        /\ t.got = s.got \cup ({s.next} \cap Committed)
    BY <1>1 DEF Streaming
  <1>6. t \in Streaming
    <2>1. s.next + 1 \in Int /\ s.got \cup ({s.next} \cap Committed) \in SUBSET Int
      BY <1>4
    <2> QED BY <1>1, <2>1 DEF Streaming
  <1> HIDE DEF t, s
  <1>7. ReadsOn(cursor[r], t)
    <2>1. /\ cursor[r] < s.next /\ s.end <= metaSeq + 2
          /\ s.got = cursor[r] + 1 .. s.next - 1 /\ s.got \subseteq 1 .. metaSeq
      BY <1>1, <1>4 DEF ReadsOn
    <2>2. CASE s.next \in 1 .. metaSeq
      <3>1. t.got = s.got \cup {s.next}
        BY <1>1, <1>5, <2>2
      <3>2. (cursor[r] + 1 .. s.next - 1) \cup {s.next} = cursor[r] + 1 .. s.next
        BY <1>1, <1>4, <2>1, SMTT(30)
      <3>3. t.next - 1 = s.next
        BY <1>4, <1>5
      <3>4. t.got = cursor[r] + 1 .. t.next - 1 /\ t.got \subseteq 1 .. metaSeq
        BY <2>1, <2>2, <3>1, <3>2, <3>3
      <3>5. cursor[r] < t.next /\ t.next <= t.end /\ t.end <= metaSeq + 2
        BY <1>1, <1>4, <1>5, <2>1
      <3> QED BY <3>4, <3>5 DEF ReadsOn
    <2>3. CASE s.next \notin 1 .. metaSeq
      <3>1. t.got = s.got
        BY <1>1, <1>5, <2>3
      <3>2. s.next = metaSeq + 1 /\ s.end = metaSeq + 2
        BY <1>1, <1>4, <2>1, <2>3
      <3>3. t.next - 2 = s.next - 1 /\ t.next = t.end
        BY <1>1, <1>4, <1>5, <3>2, SMTT(30)
      <3> QED BY <1>1, <1>4, <1>5, <2>1, <3>1, <3>2, <3>3, SMTT(30) DEF ReadsOn
    <2> QED BY <2>2, <2>3
  <1>8. \A q \in Reader : stream'[q] # None => ReadsOn(cursor[q], stream'[q])
    BY <1>3, <1>7 DEF Inv, ReaderInv
  <1>9. stream' \in [Reader -> {None} \cup Streaming]
    BY <1>3, <1>6 DEF Inv, ReaderInv
  <1> QED BY <1>2, <1>8, <1>9 DEF Inv, ReaderInv, ReadsOn

\* The cursor moves to the last id that was read, with none missing before it.
LEMMA StreamEndStep ==
    ASSUME Inv, NEW r \in Reader, StreamEnd(r), ~batched
    PROVE  ReaderInv'
  <1> USE EventLogAssumption
  <1> DEFINE s == stream[r]  c == cursor[r]  G == {c} \cup s.got
  <1>1. /\ s \in Streaming /\ ReadsOn(c, s) /\ c \in Nat /\ c <= metaSeq /\ metaSeq \in Nat
    <2>1. metaSeq \in Nat
      BY DEF Inv, LogInv
    <2>2. ReaderInv /\ stream[r] # None
      BY DEF Inv, StreamEnd
    <2>3. s \in Streaming /\ ReadsOn(c, s) /\ c \in 0 .. metaSeq
      BY <2>2 DEF ReaderInv
    <2> HIDE DEF s, c
    <2> QED BY <2>1, <2>3
  <1>2. /\ UNCHANGED <<durable, seq, inflight, batched>> /\ metaSeq' = metaSeq
        /\ cursor' = [cursor EXCEPT ![r] = Max(G)]
        /\ seen' = [seen EXCEPT ![r] = @ \cup s.got]
        /\ stream' = [stream EXCEPT ![r] = None]
    BY DEF StreamEnd, durable
  <1>3. \E m \in Nat : /\ m = Max(G) /\ c <= m /\ m <= metaSeq
                      /\ c + 1 .. m \subseteq s.got
    <2>1. /\ s.next \in Int /\ c < s.next /\ s.got \subseteq 1 .. metaSeq
          /\ s.got = c + 1 .. s.next - 1 \/ s.got = c + 1 .. s.next - 2
      BY <1>1 DEF ReadsOn, Streaming
    <2>2. PICK n \in Int : s.got = c + 1 .. n /\ c <= n
      <3>1. CASE s.got = c + 1 .. s.next - 1
        <4>1. s.next - 1 \in Int /\ c <= s.next - 1
          BY <1>1, <2>1, SMTT(30)
        <4> HIDE DEF c, s
        <4> QED BY <3>1, <4>1
      <3>2. CASE s.got = c + 1 .. s.next - 2 /\ c <= s.next - 2
        <4>1. s.next - 2 \in Int
          BY <2>1
        <4> HIDE DEF c, s
        <4> QED BY <3>2, <4>1
      <3>3. CASE s.got = c + 1 .. s.next - 2 /\ ~(c <= s.next - 2)
        <4>1. s.next - 2 = c - 1 /\ c + 1 .. c - 1 = c + 1 .. c
          BY <1>1, <2>1, <3>3, SMTT(30)
        <4> HIDE DEF c, s
        <4> QED BY <1>1, <3>3, <4>1
      <3> QED BY <2>1, <3>1, <3>2, <3>3
    <2>3. n \in G /\ (\A x \in G : x <= n) /\ n <= metaSeq /\ n \in Nat
      BY <1>1, <2>1, <2>2, SMTT(30)
    <2>4. G \in SUBSET Int
      BY <1>1, <2>1, SMTT(30)
    <2>5. Max(G) = n
      <3> HIDE DEF G
      <3> QED BY <2>3, <2>4, MaxIs
    <2> QED BY <2>2, <2>3, <2>5
  <1>4. PICK m \in Nat : /\ m = Max(G) /\ c <= m /\ m <= metaSeq
                        /\ c + 1 .. m \subseteq s.got
    BY <1>3
  <1>5. cursor' = [cursor EXCEPT ![r] = m]
    BY <1>2, <1>4
  <1>6. cursor' \in [Reader -> 0 .. metaSeq]
    BY <1>1, <1>4, <1>5, SMTT(30) DEF Inv, ReaderInv
  <1>7. seen' \in [Reader -> SUBSET Int]
    BY <1>1, <1>2 DEF Inv, ReaderInv, Streaming
  <1>8. ASSUME NEW q \in Reader PROVE 1 .. cursor'[q] \subseteq seen'[q]
    <2>1. CASE q = r
      <3>1. cursor'[r] = m /\ seen'[r] = seen[r] \cup s.got /\ 1 .. c \subseteq seen[r]
        BY <1>2, <1>5 DEF Inv, ReaderInv
      <3>2. \A i \in 1 .. m : i \in 1 .. c \/ i \in c + 1 .. m
        BY <1>1, SMTT(30)
      <3> QED BY <1>4, <2>1, <3>1, <3>2
    <2>2. CASE q # r
      BY <1>2, <2>2 DEF Inv, ReaderInv
    <2> QED BY <2>1, <2>2
  <1>9. /\ stream' \in [Reader -> {None} \cup Streaming]
        /\ \A q \in Reader : stream'[q] # None => ReadsOn(cursor'[q], stream'[q])
    BY <1>2 DEF Inv, ReaderInv
  <1> QED BY <1>2, <1>6, <1>7, <1>8, <1>9 DEF Inv, ReaderInv, ReadsOn

\* Steps of readers keep the invariant.
LEMMA StreamStep ==
    ASSUME Inv, NEW r \in Reader, StreamStart(r) \/ StreamRead(r) \/ StreamEnd(r)
    PROVE  Inv'
  <1>1. UNCHANGED <<durable, seq, inflight, batched, bounds>>
    BY DEF StreamStart, StreamRead, StreamEnd
  <1>2. Committed' = Committed /\ \A i \in Id : Stored(i)' = Stored(i)
    BY <1>1 DEF durable, Committed, Stored
  <1>3. LogInv'
    BY <1>1, <1>2 DEF Inv, LogInv, durable
  <1>4. KeyInv'
    BY <1>1, <1>2 DEF Inv, KeyInv, durable, bounds, Committed
  <1>5. QueueInv'
    BY <1>1, <1>2 DEF Inv, QueueInv, RequestsAreQueued, durable, Committed
  <1>6. ReaderInv'
    <2>1. CASE batched
      BY <1>1, <2>1 DEF ReaderInv
    <2>2. CASE ~batched
      BY <2>2, StreamStartStep, StreamReadStep, StreamEndStep
    <2> QED BY <2>1, <2>2
  <1> QED BY <1>3, <1>4, <1>5, <1>6 DEF Inv

\* A crash drops what is not committed; the store opens at the stored number.
LEMMA ReopenStep ==
    ASSUME Inv, CrashAndReopen
    PROVE  Inv'
  <1> USE EventLogAssumption
  <1>1. Committed' = Committed /\ \A i \in Id : Stored(i)' = Stored(i)
    BY DEF CrashAndReopen, durable, Committed, Stored
  <1>2. inflight' = <<>> /\ Len(inflight') = 0 /\ inflight' \in Seq(Event)
    BY DEF CrashAndReopen
  <1>3. seq' = metaSeq /\ metaSeq' = metaSeq /\ metaSeq \in 0 .. MaxSeq
    BY ReopenedSeq DEF Inv, LogInv, CrashAndReopen, durable
  <1>4. LogInv'
    <2>1. LogInv /\ UNCHANGED <<log, archive, metaSeq, idem>>
      BY DEF Inv, CrashAndReopen, durable
    <2>2. seq' = metaSeq' + Len(inflight') /\ seq' <= MaxSeq
      BY <1>2, <1>3
    <2> QED BY <1>1, <1>2, <2>1, <2>2 DEF LogInv
  <1>5. KeyInv'
    <2>1. KeyInv /\ UNCHANGED <<idem, rows, expiries>>
      BY DEF Inv, CrashAndReopen, durable
    <2>2. \A i \in Committed' : i \in Committed /\ Stored(i)' = Stored(i)
      BY <1>1 DEF Committed
    <2>3. \A i \in 1 .. Len(inflight') : FALSE
      BY <1>2
    <2> QED BY <2>1, <2>2, <2>3 DEF KeyInv
  <1>6. QueueInv'
    BY <1>1 DEF Inv, QueueInv, RequestsAreQueued, CrashAndReopen, durable, Committed
  <1>7. ReaderInv'
    BY <1>2, <1>3 DEF ReaderInv, CrashAndReopen
  <1> QED BY <1>4, <1>5, <1>6, <1>7 DEF Inv

\* Each way to begin an append takes ids for events with a new key or none.
LEMMA AppendStep ==
    ASSUME Inv,
           \/ \E p \in Payload : append(p)
           \/ \E n \in 1 .. MaxBatch, p \in Payload : append_atomic(n, p)
           \/ \E p \in Payload, k \in Key :
                 idem[k] = 0 /\ Allocate(<<[payload |-> p, key |-> k]>>)
    PROVE  Inv'
  <1> USE EventLogAssumption
  <1>1. ASSUME NEW p \in Payload, NEW k \in Key \cup {None}, k # None => idem[k] = 0,
               Allocate(<<[payload |-> p, key |-> k]>>)
        PROVE  Inv'
    <2> DEFINE e == [payload |-> p, key |-> k]
    <2>1. e \in Event /\ e.key = k
      BY DEF Event
    <2> HIDE DEF e
    <2>2. <<e>> \in Seq(Event) /\ NewKeys(<<e>>)
      <3>1. <<e>> \in Seq(Event) /\ Len(<<e>>) = 1 /\ <<e>>[1] = e
        BY <2>1
      <3>2. \A i \in 1 .. Len(<<e>>) : i = 1
        BY <3>1
      <3>3. e.key # None => idem[e.key] = 0
        BY <1>1, <2>1
      <3> QED BY <3>1, <3>2, <3>3 DEF NewKeys
    <2> QED BY <1>1, <2>2, AllocateStep DEF e
  <1>2. ASSUME NEW n \in 1 .. MaxBatch, NEW p \in Payload, append_atomic(n, p)
        PROVE  Inv'
    <2> DEFINE evs == [i \in 1 .. n |-> [payload |-> p, key |-> None]]
    <2>1. [payload |-> p, key |-> None] \in Event
      BY DEF Event
    <2>2. n \in Nat /\ evs \in Seq(Event) /\ Len(evs) = n
      BY <2>1
    <2>3. \A i \in 1 .. n : evs[i].key = None
      OBVIOUS
    <2>4. Allocate(evs)
      BY <1>2 DEF append_atomic
    <2> HIDE DEF evs
    <2> QED BY <2>2, <2>3, <2>4, AllocateStep DEF NewKeys
  <1> QED BY <1>1, <1>2 DEF append

\* Every step keeps the invariant.
LEMMA NextInv == Inv /\ [Next]_vars => Inv'
  <1> SUFFICES ASSUME Inv, [Next]_vars PROVE Inv'
    OBVIOUS
  <1>1. CASE UNCHANGED vars
    BY <1>1 DEF vars, durable, readers, bounds, Inv, LogInv, KeyInv, QueueInv, ReaderInv,
                ReadsOn, RequestsAreQueued, Committed, Stored
  <1>2. ASSUME NEW p \in Payload, NEW k \in Key, append_and_enqueue(p, k) PROVE Inv'
    BY <1>2, AppendStep, KnownKeyStep DEF append_and_enqueue
  <1>3. CASE \/ \E p \in Payload : append(p)
             \/ \E n \in 1 .. MaxBatch, p \in Payload : append_atomic(n, p)
    BY <1>3, AppendStep
  <1> QED BY <1>1, <1>2, <1>3, CommitStep, RestoreStep, ArchiveStep, ExpireStep,
             StreamStep, ReopenStep DEF Next

-----------------------------------------------------------------------------
(* Theorems *)

\* The inductive invariant holds of every state of the store.
LEMMA Invariance == Spec => []Inv
  BY InitInv, NextInv, PTL DEF Spec

\* No request event without its queue row (append_and_enqueue), for any number
\* of keys, retries, failures and restarts.
THEOREM QueuedRequests == Spec => []RequestsAreQueued
  <1>1. Inv => RequestsAreQueued
    BY DEF Inv, QueueInv
  <1> QED BY <1>1, Invariance, PTL

\* Until a key expires it has one event and one row.
THEOREM KeysOnce == Spec => []KeysAppendOnce
  <1>1. Inv => KeysAppendOnce
    <2> SUFFICES ASSUME Inv, expiries = 0
                 PROVE  /\ \A i, j \in Committed :
                           (Stored(i).key = Stored(j).key /\ Stored(i).key # None) => i = j
                        /\ \A a, b \in rows : a[1] = b[1] => a = b
      BY DEF KeysAppendOnce
    <2>1. \A i \in Committed : Stored(i).key # None => idem[Stored(i).key] = i
      BY DEF Inv, KeyInv
    <2>2. \A a \in rows : a \in Key \X Id /\ a = <<a[1], a[2]>> /\ idem[a[1]] = a[2]
      BY SMTT(30) DEF Inv, KeyInv
    <2>3. ASSUME NEW a \in rows, NEW b \in rows, a[1] = b[1] PROVE a = b
      BY <2>2, <2>3
    <2> QED BY <2>1, <2>3
  <1> QED BY <1>1, Invariance, PTL

\* While every append is of one event, no reader's cursor passes an event the
\* reader was not given, for any limit and any number of readers.
THEOREM SinglesAreStreamed == Spec => []StreamSkipsNoSingles
  <1>1. Inv => StreamSkipsNoSingles
    <2> SUFFICES ASSUME Inv, ~batched, NEW r \in Reader, NEW i \in Committed, i <= cursor[r]
                 PROVE  i \in seen[r]
      BY DEF StreamSkipsNoSingles, StreamSkipsNothing
    <2>1. i \in Int /\ 1 <= i /\ cursor[r] \in Int /\ 1 .. cursor[r] \subseteq seen[r]
      BY EventLogAssumption DEF Inv, LogInv, ReaderInv
    <2> QED BY <2>1
  <1> QED BY <1>1, Invariance, PTL

\* The sequence of stored events, by the stored sequence number.
Numbered ==
    /\ AllEvents = [i \in 1 .. metaSeq |-> Stored(i)]
    /\ AllEvents \in Seq(Event) /\ Len(AllEvents) = metaSeq

\* The stored events are a sequence without gaps.
LEMMA AllEventsIs == LogInv => Numbered
  <1> SUFFICES ASSUME LogInv PROVE Numbered
    OBVIOUS
  <1>1. metaSeq \in Nat /\ Committed = 1 .. metaSeq
    BY EventLogAssumption DEF LogInv
  <1>2. Cardinality(1 .. metaSeq) = metaSeq
    BY <1>1, FS_Interval
  <1>3. AllEvents = [i \in 1 .. metaSeq |-> Stored(i)]
    BY <1>1, <1>2 DEF AllEvents
  <1>4. \A i \in 1 .. metaSeq : Stored(i) \in Event
    <2>1. \A i \in Committed : i \in Id /\ Stored(i) # None
      BY DEF Committed
    <2> QED BY <1>1, <2>1 DEF LogInv, Stored
  <1> QED BY <1>1, <1>3, <1>4 DEF Numbered

\* The event store implements the log its port promises: a commit appends its
\* events at the end, and allocation, failure, archiving, expiry, reading,
\* crash and reopening change nothing.
THEOREM ImplementsPort == Spec => RefinesAppendOnlyLog
  <1>1. Init => Port!Init
    BY InitInv, AllEventsIs DEF Inv, Numbered, Port!Init
  <1>2. Inv /\ Inv' /\ [Next]_vars => [Port!Extend]_AllEvents
    <2> SUFFICES ASSUME Inv, Inv', [Next]_vars, ~Commit
                 PROVE  AllEvents' = AllEvents
      <3>1. ASSUME Inv, Inv', Commit PROVE Port!Extend
        <4>1. /\ LogInv /\ LogInv' /\ metaSeq \in Nat /\ metaSeq' \in Nat
          <5>1. LogInv /\ LogInv'
            BY <3>1 DEF Inv
          <5>2. metaSeq \in 0 .. MaxSeq /\ metaSeq' \in 0 .. MaxSeq
            BY <5>1 DEF LogInv
          <5> QED BY <5>1, <5>2, EventLogAssumption
        <4>2. metaSeq' > metaSeq /\ \A i \in 1 .. metaSeq : Stored(i)' = Stored(i)
          BY <3>1, <4>1, CommitStored
        <4>3. /\ AllEvents = [i \in 1 .. metaSeq |-> Stored(i)]
              /\ AllEvents \in Seq(Event) /\ Len(AllEvents) = metaSeq
          BY <4>1, AllEventsIs DEF Numbered
        <4>4. /\ AllEvents' = [i \in 1 .. metaSeq' |-> Stored(i)']
              /\ AllEvents' \in Seq(Event) /\ Len(AllEvents') = metaSeq'
          <5>1. LogInv' => Numbered'
            BY AllEventsIs, PTL
          <5> QED BY <4>1, <5>1 DEF Numbered
        <4>5. SubSeq(AllEvents', 1, Len(AllEvents)) = AllEvents
          BY <4>1, <4>2, <4>3, <4>4
        <4> QED BY <4>1, <4>2, <4>3, <4>4, <4>5 DEF Port!Extend
      <3> QED BY <3>1
    <2>1. \A i \in Id : Stored(i)' = Stored(i)
      <3>1. CASE log' = log /\ archive' = archive
        BY <3>1 DEF Stored
      <3>2. CASE \E c \in Id : archive_events_before(c)
        BY <3>2, ArchiveStep
      <3>3. (\E c \in Id : archive_events_before(c)) \/ (log' = log /\ archive' = archive)
        BY DEF Next, vars, durable, append, append_atomic, append_and_enqueue, Allocate,
               restore_seq_on_error, expire_idempotency_keys, StreamStart, StreamRead,
               StreamEnd, CrashAndReopen
      <3> QED BY <3>1, <3>2, <3>3
    <2>2. Committed' = Committed /\ \A i \in Committed : i \in Id
      BY <2>1 DEF Committed
    <2>3. \A i \in 1 .. Cardinality(Committed) : i \in Id
      <3>1. metaSeq \in Nat /\ Committed = 1 .. metaSeq
        BY EventLogAssumption DEF Inv, LogInv
      <3>2. Cardinality(1 .. metaSeq) = metaSeq
        BY <3>1, FS_Interval
      <3> QED BY <2>2, <3>1, <3>2
    <2> QED BY <2>1, <2>2, <2>3 DEF AllEvents
  <1> QED BY <1>1, <1>2, Invariance, PTL DEF Spec, RefinesAppendOnlyLog, Port!Spec
=============================================================================
