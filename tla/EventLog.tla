------------------------------ MODULE EventLog ------------------------------
(***************************************************************************)
(* The event log of FjallEventStore: sequence numbers, idempotency keys,   *)
(* the queue row of append_and_enqueue, archiving, stream() and reopening  *)
(* after a crash.                                                          *)
(*                                                                         *)
(* An append takes its ids from the in-memory counter and commits them in  *)
(* one SyncAll batch later; append_lock keeps other appends and archiving  *)
(* out meanwhile, but not readers, key expiry or a crash.  stream() takes  *)
(* no lock: it reads the counter and then one key at a time.               *)
(***************************************************************************)
EXTENDS Integers, Sequences, FiniteSetsExt

CONSTANTS
    Key,          \* idempotency keys of append_and_enqueue
    Payload,      \* event contents
    Reader,       \* consumers that poll stream() with a cursor
    None,
    MaxSeq,       \* bound: events ever appended
    MaxBatch,     \* bound: events of one append_atomic
    Limit,        \* the limit readers pass to stream()
    MaxCrashes,   \* bound: crashes
    MaxExpiries   \* bound: key removals by prune/expire_idempotency_keys

ASSUME EventLogAssumption ==
    /\ MaxSeq \in Nat \ {0} /\ MaxBatch \in Nat \ {0} /\ Limit \in Nat \ {0}
    /\ MaxCrashes \in Nat /\ MaxExpiries \in Nat
    /\ None \notin Key

Id == 1 .. MaxSeq
Event == [payload : Payload, key : Key \cup {None}]

ASSUME NoneIsNoEvent == None \notin Event

VARIABLES
    log,       \* hot partition: Id -> event or None
    archive,   \* archive partition: Id -> event or None
    metaSeq,   \* KEY_META_SEQ
    idem,      \* idempotency keys: Key -> the id they name, 0 if absent
    rows,      \* queue rows written: set of <<key, id>>
    material,  \* keys with a queue materialization key
    seq,       \* in-memory counter
    inflight,  \* events of the append that holds append_lock and is uncommitted
    stream,    \* Reader -> [next, end, got] of a stream() under way, or None
    cursor,    \* Reader -> last id processed
    seen,      \* history: Reader -> ids processed since it started
    batched,   \* history: an append_atomic of several events was begun
    crashes, expiries

durable == <<log, archive, metaSeq, idem, rows, material>>
readers == <<stream, cursor, seen>>
bounds == <<crashes, expiries>>
vars == <<durable, seq, inflight, readers, batched, bounds>>

-----------------------------------------------------------------------------
Stored(i) == IF log[i] # None THEN log[i] ELSE archive[i]

Committed == {i \in Id : Stored(i) # None}

\* load_high_water_mark: the last id of the hot log only.
load_high_water_mark == Max({0} \cup {i \in Id : log[i] # None})

load_seq == Max({metaSeq, load_high_water_mark})

Unlocked == inflight = <<>>

\* next_event_id for each event; the batch is built and not yet committed.
Allocate(evs) ==
    /\ Unlocked
    /\ seq + Len(evs) <= MaxSeq
    /\ seq' = seq + Len(evs)
    /\ inflight' = evs
    /\ batched' = (batched \/ Len(evs) > 1)
    /\ UNCHANGED <<durable, readers, bounds>>

append(p) == Allocate(<<[payload |-> p, key |-> None]>>)

append_atomic(n, p) ==
    Allocate([i \in 1 .. n |-> [payload |-> p, key |-> None]])

\* Mutant: the key is written but never looked up.
append_and_enqueue_again(p, k) == Allocate(<<[payload |-> p, key |-> k]>>)

\* append_and_enqueue: a known key returns its id, and restores the queue row
\* an older partial write left out.
append_and_enqueue(p, k) ==
    \/ idem[k] = 0 /\ Allocate(<<[payload |-> p, key |-> k]>>)
    \/ /\ Unlocked
       /\ idem[k] # 0
       /\ seq' = Max({seq, idem[k]})
       /\ rows' = IF k \in material THEN rows ELSE rows \cup {<<k, idem[k]>>}
       /\ material' = material \cup {k}
       /\ UNCHANGED <<log, archive, metaSeq, idem, inflight, readers, batched, bounds>>

\* Mutant: the key is recorded, the queue row is left to a later write.
CommitWithoutRow ==
    LET first == seq - Len(inflight) + 1
        ev(i) == inflight[i - first + 1]
        new == first .. seq
        keyed == {i \in new : ev(i).key # None}
    IN  /\ ~Unlocked
        /\ log' = [i \in Id |-> IF i \in new THEN ev(i) ELSE log[i]]
        /\ metaSeq' = seq
        /\ idem' = [k \in Key |-> IF \E i \in keyed : ev(i).key = k
                                  THEN seq ELSE idem[k]]
        /\ material' = material \cup {ev(i).key : i \in keyed}
        /\ inflight' = <<>>
        /\ UNCHANGED <<archive, rows, seq, readers, batched, bounds>>

\* batch.commit(): events, sequence number, keys and queue row together.
Commit ==
    LET first == seq - Len(inflight) + 1
        ev(i) == inflight[i - first + 1]
        new == first .. seq
        keyed == {i \in new : ev(i).key # None}
    IN  /\ ~Unlocked
        /\ log' = [i \in Id |-> IF i \in new THEN ev(i) ELSE log[i]]
        /\ metaSeq' = seq
        /\ idem' = [k \in Key |-> IF \E i \in keyed : ev(i).key = k
                                  THEN seq ELSE idem[k]]
        /\ rows' = rows \cup {<<ev(i).key, i>> : i \in keyed}
        /\ material' = material \cup {ev(i).key : i \in keyed}
        /\ inflight' = <<>>
        /\ UNCHANGED <<archive, seq, readers, batched, bounds>>

\* restore_seq_on_error: the batch failed, nothing of it is stored.
restore_seq_on_error ==
    /\ ~Unlocked
    /\ seq' = seq - Len(inflight)
    /\ inflight' = <<>>
    /\ UNCHANGED <<durable, readers, batched, bounds>>

archive_events_before(cutoff) ==
    /\ Unlocked
    /\ archive' = [i \in Id |-> IF i <= cutoff /\ log[i] # None
                                THEN log[i] ELSE archive[i]]
    /\ log' = [i \in Id |-> IF i <= cutoff THEN None ELSE log[i]]
    /\ UNCHANGED <<metaSeq, idem, rows, material, seq, inflight, readers, batched, bounds>>

\* prune_idempotency_keys and expire_idempotency_keys: the key goes, its
\* materialization key stays.  No lock is taken.
expire_idempotency_keys(k) ==
    /\ expiries < MaxExpiries
    /\ idem[k] # 0
    /\ idem' = [idem EXCEPT ![k] = 0]
    /\ expiries' = expiries + 1
    /\ UNCHANGED <<log, archive, metaSeq, rows, material, seq, inflight, readers,
                   batched, crashes>>

-----------------------------------------------------------------------------
\* Mutant: the range ends one id early.
last_seq == {seq - 1}

\* What get_current_seq may return: an append under way has moved the counter
\* one id at a time.
current_seq == {seq} \cup (seq - Len(inflight) + 1 .. seq)

\* stream(since): the range is fixed from the in-memory counter ...
StreamStart(r) ==
    /\ stream[r] = None
    /\ \E s \in current_seq :
        /\ cursor[r] + 1 <= s
        /\ stream' = [stream EXCEPT ![r] =
                        [next |-> cursor[r] + 1,
                         end |-> Min({cursor[r] + 1 + Limit, s + 1}),
                         got |-> {}]]
    /\ UNCHANGED <<durable, seq, inflight, cursor, seen, batched, bounds>>

\* ... then each id is read, from the log or the archive; a missing one is
\* skipped.
StreamRead(r) ==
    /\ stream[r] # None
    /\ stream[r].next < stream[r].end
    /\ stream' = [stream EXCEPT ![r].next = @ + 1,
                    ![r].got = @ \cup ({stream[r].next} \cap Committed)]
    /\ UNCHANGED <<durable, seq, inflight, cursor, seen, batched, bounds>>

\* Mutant: the cursor moves to the end of the range that was asked for.
StreamEndAtRange(r) ==
    /\ stream[r] # None
    /\ stream[r].next = stream[r].end
    /\ cursor' = [cursor EXCEPT ![r] = stream[r].end - 1]
    /\ seen' = [seen EXCEPT ![r] = @ \cup stream[r].got]
    /\ stream' = [stream EXCEPT ![r] = None]
    /\ UNCHANGED <<durable, seq, inflight, batched, bounds>>

\* The consumer processes the batch and moves its cursor to the last event's
\* id (Orchestrator::tick; the supervisor's poll_events does the same).
StreamEnd(r) ==
    /\ stream[r] # None
    /\ stream[r].next = stream[r].end
    /\ cursor' = [cursor EXCEPT ![r] = Max({@} \cup stream[r].got)]
    /\ seen' = [seen EXCEPT ![r] = @ \cup stream[r].got]
    /\ stream' = [stream EXCEPT ![r] = None]
    /\ UNCHANGED <<durable, seq, inflight, batched, bounds>>

\* Mutant: the reopened counter starts at the end of the hot log.
ReopenFromHotLog ==
    /\ crashes < MaxCrashes
    /\ crashes' = crashes + 1
    /\ seq' = load_high_water_mark
    /\ inflight' = <<>>
    /\ stream' = [r \in Reader |-> None]
    /\ cursor' = [r \in Reader |-> 0]
    /\ seen' = [r \in Reader |-> {}]
    /\ UNCHANGED <<durable, batched, expiries>>

\* The process dies and FjallEventStore::new opens the store again; readers
\* keep their cursors in memory and start over.
CrashAndReopen ==
    /\ crashes < MaxCrashes
    /\ crashes' = crashes + 1
    /\ seq' = load_seq
    /\ inflight' = <<>>
    /\ stream' = [r \in Reader |-> None]
    /\ cursor' = [r \in Reader |-> 0]
    /\ seen' = [r \in Reader |-> {}]
    /\ UNCHANGED <<durable, batched, expiries>>

-----------------------------------------------------------------------------
\* An empty store, or one where an older version stored a request's event and
\* key without its queue row.
Init ==
    /\ archive = [i \in Id |-> None]
    /\ rows = {}
    /\ material = {}
    /\ \/ /\ log = [i \in Id |-> None]
          /\ idem = [k \in Key |-> 0]
          /\ metaSeq = 0
       \/ \E k \in Key, p \in Payload :
          /\ log = [i \in Id |-> IF i = 1 THEN [payload |-> p, key |-> k] ELSE None]
          /\ idem = [j \in Key |-> IF j = k THEN 1 ELSE 0]
          /\ metaSeq = 1
    /\ seq = load_seq
    /\ inflight = <<>>
    /\ stream = [r \in Reader |-> None]
    /\ cursor = [r \in Reader |-> 0]
    /\ seen = [r \in Reader |-> {}]
    /\ batched = FALSE
    /\ crashes = 0 /\ expiries = 0

Next ==
    \/ \E p \in Payload : append(p)
    \/ \E n \in 1 .. MaxBatch, p \in Payload : append_atomic(n, p)
    \/ \E p \in Payload, k \in Key : append_and_enqueue(p, k)
    \/ Commit
    \/ restore_seq_on_error
    \/ \E c \in Id : archive_events_before(c)
    \/ \E k \in Key : expire_idempotency_keys(k)
    \/ \E r \in Reader : StreamStart(r) \/ StreamRead(r) \/ StreamEnd(r)
    \/ CrashAndReopen

\* A reader keeps polling and the append that holds the lock gets its answer
\* from the disk.
Fairness ==
    /\ WF_vars(Commit \/ restore_seq_on_error)
    /\ \A r \in Reader : WF_vars(StreamStart(r) \/ StreamRead(r) \/ StreamEnd(r))

Spec == Init /\ [][Next]_vars
FairSpec == Spec /\ Fairness

-----------------------------------------------------------------------------
\* Every variable has the shape its keys give it.
TypeOK ==
    /\ log \in [Id -> Event \cup {None}]
    /\ archive \in [Id -> Event \cup {None}]
    /\ metaSeq \in 0 .. MaxSeq
    /\ idem \in [Key -> 0 .. MaxSeq]
    /\ rows \in SUBSET (Key \X Id)
    /\ material \in SUBSET Key
    /\ seq \in 0 .. MaxSeq
    /\ inflight \in Seq(Event)
    /\ cursor \in [Reader -> 0 .. MaxSeq]
    /\ seen \in [Reader -> SUBSET Id]
    /\ batched \in BOOLEAN
    /\ crashes \in 0 .. MaxCrashes /\ expiries \in 0 .. MaxExpiries

\* The stored events as one sequence, archived ones first.
AllEvents == [i \in 1 .. Cardinality(Committed) |-> Stored(i)]

Port == INSTANCE AppendOnlyLog WITH events <- AllEvents

\* The port's "Global Append Ordering": whatever fails, crashes or is archived,
\* stored events form a log without gaps that only grows at its end.
RefinesAppendOnlyLog == Port!Spec

\* A request event never lives without its queue row; only one that an older
\* version stored may, until its key is retried (append_and_enqueue).
RequestsAreQueued ==
    \A i \in Committed :
        LET k == Stored(i).key IN
        k # None => \/ <<k, i>> \in rows
                    \/ /\ i = 1
                       /\ k \in material => \E j \in Id : <<k, j>> \in rows

\* While no key expires, a key has one event and one queue row, however often
\* the request is retried, also across failures and restarts.
KeysAppendOnce ==
    expiries = 0 =>
        /\ \A i, j \in Committed :
            (Stored(i).key = Stored(j).key /\ Stored(i).key # None) => i = j
        /\ \A a, b \in rows : a[1] = b[1] => a = b

\* A reader never moves its cursor past an event it was not given: "Returns up
\* to `limit` events with `EventId` greater than `since`".
StreamSkipsNothing ==
    \A r \in Reader : \A i \in Committed : i <= cursor[r] => i \in seen[r]

\* While every append is of one event, a reader skips nothing, although it
\* reads beside appends that fail, crash or are archived.
StreamSkipsNoSingles == ~batched => StreamSkipsNothing

\* While every append is of one event, each stored event reaches a reader that
\* keeps polling.
EventsReachReaders ==
    \A r \in Reader : \A i \in Id :
        (i \in Committed) ~> (i \in seen[r] \/ batched)
=============================================================================
