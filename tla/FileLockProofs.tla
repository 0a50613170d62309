--------------------------- MODULE FileLockProofs ---------------------------
(***************************************************************************)
(* Mutual exclusion of the lock files, for any number of processes and     *)
(* locks and for any timeouts with HeartbeatEvery < StaleAfter.            *)
(***************************************************************************)
EXTENDS FileLock, TLAPS

\* A lock that no crash and no overrun has touched: a holder is the creator
\* of the file, the file is fresh, it has a living creator, and nobody is
\* about to remove it.
Sound ==
    \A l \in Lock \ (orphaned \cup overrun) :
        /\ \A p \in Proc : l \in held[p] => file[l] # None /\ file[l].by = p
        /\ \A p \in Proc : want[p] = l => ~clearing[p]
        /\ file[l] # None => file[l].by # None /\ file[l].age < StaleAfter

\* The age of a file with a living creator is at most the time since the
\* creator's heartbeat last touched it.
Beaten ==
    \A l \in Beating : file[l] # None /\ file[l].by # None =>
        /\ beat[file[l].by][l] # None
        /\ file[l].age <= beat[file[l].by][l]

LockInv == TypeOK /\ Sound /\ Beaten /\ LiveLocksStayFresh

\* Initially there are no files.
LEMMA InitLockInv == Init => LockInv
  BY FileLockAssumption
  DEF Init, LockInv, TypeOK, Sound, Beaten, LiveLocksStayFresh

\* What a step of the retry loop does to the invariant, one lemma per step
\* (acquire_task_lock, clear_stale_lock).
LEMMA BeginKeeps ==
  ASSUME LockInv, NEW p \in Proc, NEW l \in Lock, BeginAcquire(p, l)
  PROVE  LockInv'
  <1>1. TypeOK'
    BY FileLockAssumption DEF LockInv, TypeOK, BeginAcquire, LooksStale
  <1>2. Sound'
    <2> SUFFICES ASSUME NEW m \in Lock \ (orphaned \cup overrun), NEW q \in Proc,
                        want'[q] = m
                 PROVE  ~clearing'[q]
      BY DEF LockInv, Sound, BeginAcquire
    <2>1. file[m] # None => file[m].age < StaleAfter
      BY DEF LockInv, Sound
    <2>2. CASE q = p
      <3>1. m = l
        BY <2>2 DEF LockInv, TypeOK, BeginAcquire
      <3>2. ~LooksStale(l)
        BY <2>1, <3>1, FileLockAssumption DEF LockInv, TypeOK, LockFile, LooksStale
      <3>3. clearing'[q] = LooksStale(l)
        BY <2>2 DEF LockInv, TypeOK, BeginAcquire
      <3> QED BY <3>2, <3>3
    <2>3. CASE q # p
      BY <2>3 DEF LockInv, TypeOK, Sound, BeginAcquire
    <2> QED BY <2>2, <2>3
  <1> QED BY <1>1, <1>2
          DEF LockInv, Beaten, LiveLocksStayFresh, BeginAcquire

LEMMA CreateKeeps ==
  ASSUME LockInv, NEW p \in Proc, Create(p)
  PROVE  LockInv'
  <1> DEFINE l == want[p]
             new == [by |-> p, age |-> 0]
  <1>0. l \in Lock /\ new \in LockFile /\ new # None
    BY FileLockAssumption DEF LockInv, TypeOK, Create, LockFile
  <1>1. TypeOK'
    BY <1>0, FileLockAssumption DEF LockInv, TypeOK, Create
  <1>2. file' = [file EXCEPT ![l] = new] /\ file[l] = None
    BY DEF Create
  <1>3. Sound'
    <2> SUFFICES ASSUME NEW m \in Lock \ (orphaned \cup overrun)
                 PROVE  /\ \A q \in Proc : m \in held'[q] => file'[m] # None /\ file'[m].by = q
                        /\ \A q \in Proc : want'[q] = m => ~clearing'[q]
                        /\ file'[m] # None => file'[m].by # None /\ file'[m].age < StaleAfter
      BY DEF Sound, Create
    <2>1. /\ \A q \in Proc : m \in held[q] => file[m] # None /\ file[m].by = q
          /\ \A q \in Proc : want[q] = m => ~clearing[q]
          /\ file[m] # None => file[m].by # None /\ file[m].age < StaleAfter
      BY DEF LockInv, Sound
    <2>2. \A q \in Proc : held'[q] = IF q = p THEN held[q] \cup {l} ELSE held[q]
      BY DEF LockInv, TypeOK, Create
    <2>3. \A q \in Proc : want'[q] = m => want[q] = m /\ clearing' = clearing
      BY <1>0, FileLockAssumption DEF LockInv, TypeOK, Create
    <2>4. CASE m = l
      <3>1. file'[m] = new
        BY <1>2, <2>4 DEF LockInv, TypeOK
      <3>2. \A q \in Proc : m \in held'[q] => q = p
        BY <1>2, <2>1, <2>2, <2>4
      <3> QED BY <1>0, <2>1, <2>3, <3>1, <3>2, FileLockAssumption
    <2>5. CASE m # l
      <3>1. file'[m] = file[m]
        BY <1>2, <2>5 DEF LockInv, TypeOK
      <3> QED BY <2>1, <2>2, <2>3, <2>5, <3>1
    <2> QED BY <2>4, <2>5
  <1>4. Beaten'
    <2> SUFFICES ASSUME NEW m \in Beating, file'[m] # None, file'[m].by # None
                 PROVE  /\ beat'[file'[m].by][m] # None
                        /\ file'[m].age <= beat'[file'[m].by][m]
      BY DEF Beaten
    <2>0. m \in Lock
      BY FileLockAssumption
    <2>1. beat' = [beat EXCEPT ![p][l] = IF l \in Beating THEN 0 ELSE None]
      BY DEF Create
    <2>2. CASE m = l
      <3>1. file'[m] = new
        BY <1>2, <2>0, <2>2 DEF LockInv, TypeOK
      <3>2. beat'[p][m] = 0
        BY <2>0, <2>1, <2>2 DEF LockInv, TypeOK
      <3> QED BY <3>1, <3>2, FileLockAssumption
    <2>3. CASE m # l
      <3>1. file'[m] = file[m] /\ file[m].by \in Proc
        BY <1>2, <2>0, <2>3 DEF LockInv, TypeOK, LockFile
      <3>2. beat'[file[m].by][m] = beat[file[m].by][m]
        BY <2>0, <2>1, <2>3, <3>1 DEF LockInv, TypeOK
      <3> QED BY <3>1, <3>2 DEF LockInv, Beaten
    <2> QED BY <2>2, <2>3
  <1> QED BY <1>1, <1>3, <1>4 DEF LockInv, LiveLocksStayFresh, Create

LEMMA FindStaleKeeps ==
  ASSUME LockInv, NEW p \in Proc, FindStale(p)
  PROVE  LockInv'
  <1>1. TypeOK'
    BY DEF LockInv, TypeOK, FindStale
  <1>2. want[p] \in orphaned \cup overrun
    BY FileLockAssumption DEF LockInv, TypeOK, LockFile, Sound, FindStale, LooksStale
  <1>3. \A q \in Proc : q # p => clearing'[q] = clearing[q]
    BY DEF LockInv, TypeOK, FindStale
  <1>4. Sound'
    BY <1>2, <1>3 DEF LockInv, Sound, FindStale
  <1> QED BY <1>1, <1>4 DEF LockInv, Beaten, LiveLocksStayFresh, FindStale

\* The removal by path hits only a lock with a crash or an overrun behind it.
LEMMA ClearStaleKeeps ==
  ASSUME LockInv, NEW p \in Proc, ClearStale(p)
  PROVE  LockInv'
  <1>1. TypeOK'
    BY DEF LockInv, TypeOK, ClearStale
  <1>2. want[p] \notin Lock \ (orphaned \cup overrun)
    BY DEF LockInv, Sound, ClearStale
  <1>3. \A m \in Lock : file'[m] = file[m] \/ file'[m] = None
    BY DEF LockInv, TypeOK, ClearStale
  <1>4. \A m \in Lock \ (orphaned \cup overrun) : file'[m] = file[m]
    BY <1>2 DEF LockInv, TypeOK, ClearStale
  <1>5. \A q \in Proc : clearing'[q] => clearing[q]
    BY DEF LockInv, TypeOK, ClearStale
  <1>6. Sound'
    BY <1>4, <1>5 DEF LockInv, Sound, ClearStale
  <1>7. Beaten'
    BY <1>3, FileLockAssumption DEF LockInv, Beaten, ClearStale
  <1> QED BY <1>1, <1>6, <1>7 DEF LockInv, LiveLocksStayFresh, ClearStale

LEMMA GiveUpKeeps ==
  ASSUME LockInv, NEW p \in Proc, GiveUp(p)
  PROVE  LockInv'
  <1>1. TypeOK'
    BY FileLockAssumption DEF LockInv, TypeOK, GiveUp
  <1>2. \A q \in Proc, m \in Lock : want'[q] = m => want[q] = m
    BY FileLockAssumption DEF LockInv, TypeOK, GiveUp
  <1>3. Sound'
    BY <1>2 DEF LockInv, Sound, GiveUp
  <1> QED BY <1>1, <1>3 DEF LockInv, Beaten, LiveLocksStayFresh, GiveUp

\* Any file at the path is touched, also one another process created: the age
\* only gets smaller (touch_lock).
LEMMA HeartbeatKeeps ==
  ASSUME LockInv, NEW p \in Proc, NEW l \in Lock, Heartbeat(p, l)
  PROVE  LockInv'
  <1>1. CASE file[l] # None
    <2>0. file[l] \in LockFile /\ [file[l] EXCEPT !.age = 0] \in LockFile
      BY <1>1, FileLockAssumption DEF LockInv, TypeOK, LockFile
    <2>1. /\ file' = [file EXCEPT ![l] = [file[l] EXCEPT !.age = 0]]
          /\ beat' = [beat EXCEPT ![p] = [beat[p] EXCEPT ![l] = 0]]
      BY <1>1 DEF Heartbeat
    <2>2. TypeOK'
      BY <2>0, <2>1, FileLockAssumption DEF LockInv, TypeOK, Heartbeat
    <2>3. \A m \in Lock : m # l => file'[m] = file[m]
      BY <2>1 DEF LockInv, TypeOK
    <2>4. file'[l] # None /\ file'[l].by = file[l].by /\ file'[l].age = 0
      BY <2>0, <2>1, FileLockAssumption DEF LockInv, TypeOK, LockFile
    <2>5. \A q \in Proc, m \in Lock : beat'[q][m] = beat[q][m] \/ (m = l /\ beat'[q][m] = 0)
      BY <2>1 DEF LockInv, TypeOK
    <2>6. Sound'
      BY <1>1, <2>3, <2>4, FileLockAssumption DEF LockInv, Sound, Heartbeat
    <2>7. Beaten'
      <3> SUFFICES ASSUME NEW m \in Beating, file'[m] # None, file'[m].by # None
                   PROVE  /\ beat'[file'[m].by][m] # None
                          /\ file'[m].age <= beat'[file'[m].by][m]
        BY DEF Beaten
      <3>1. m \in Lock /\ file[m] # None /\ file[m].by = file'[m].by
        BY <1>1, <2>3, <2>4, FileLockAssumption
      <3>2. file[m].by \in Proc
        BY <3>1 DEF LockInv, TypeOK, LockFile
      <3>3. beat[file[m].by][m] \in 0..HeartbeatEvery /\ file[m].age <= beat[file[m].by][m]
        BY <3>1, <3>2 DEF LockInv, Beaten, TypeOK
      <3> QED BY <2>3, <2>4, <2>5, <3>1, <3>2, <3>3, FileLockAssumption
    <2> QED BY <2>2, <2>6, <2>7 DEF LockInv, LiveLocksStayFresh, Heartbeat
  <1>2. CASE file[l] = None
    <2>1. file' = file /\ beat' = [beat EXCEPT ![p] = [beat[p] EXCEPT ![l] = None]]
      BY <1>2 DEF Heartbeat
    <2>2. TypeOK'
      BY <2>1 DEF LockInv, TypeOK, Heartbeat
    <2>3. \A q \in Proc, m \in Lock : m # l => beat'[q][m] = beat[q][m]
      BY <2>1 DEF LockInv, TypeOK
    <2>4. Beaten'
      <3> SUFFICES ASSUME NEW m \in Beating, file[m] # None, file[m].by # None
                   PROVE  /\ beat'[file[m].by][m] # None
                          /\ file[m].age <= beat'[file[m].by][m]
        BY <2>1 DEF Beaten
      <3>1. m \in Lock /\ m # l /\ file[m].by \in Proc
        BY <1>2, FileLockAssumption DEF LockInv, TypeOK, LockFile
      <3> QED BY <2>3, <3>1 DEF LockInv, Beaten
    <2> QED BY <2>1, <2>2, <2>4 DEF LockInv, Sound, LiveLocksStayFresh, Heartbeat
  <1> QED BY <1>1, <1>2

\* Drop removes the file at the path; where the invariant holds it is the
\* process's own, and no other holder is left behind.
LEMMA ReleaseKeeps ==
  ASSUME LockInv, NEW p \in Proc, NEW l \in Lock, Release(p, l)
  PROVE  LockInv'
  <1>1. TypeOK'
    BY DEF LockInv, TypeOK, Release
  <1>2. /\ \A m \in Lock : file'[m] = IF m = l THEN None ELSE file[m]
        /\ \A q \in Proc : held'[q] = IF q = p THEN held[q] \ {l} ELSE held[q]
        /\ \A q \in Proc, m \in Lock : m # l => beat'[q][m] = beat[q][m]
    BY DEF LockInv, TypeOK, Release
  <1>3. l \notin orphaned \cup overrun => \A q \in Proc : l \in held[q] => q = p
    BY DEF LockInv, Sound, Release
  <1>4. Sound'
    BY <1>2, <1>3 DEF LockInv, Sound, Release
  <1>5. Beaten'
    <2> SUFFICES ASSUME NEW m \in Beating, file'[m] # None, file'[m].by # None
                 PROVE  /\ beat'[file'[m].by][m] # None
                        /\ file'[m].age <= beat'[file'[m].by][m]
      BY DEF Beaten
    <2>1. m \in Lock /\ m # l /\ file'[m] = file[m] /\ file[m].by \in Proc
      BY <1>2, FileLockAssumption DEF LockInv, TypeOK, LockFile
    <2> QED BY <1>2, <2>1 DEF LockInv, Beaten
  <1> QED BY <1>1, <1>4, <1>5 DEF LockInv, LiveLocksStayFresh, Release

\* Every file the dead process had created makes its lock orphaned.
LEMMA CrashKeeps ==
  ASSUME LockInv, NEW p \in Proc, Crash(p)
  PROVE  LockInv'
  <1> DEFINE left == {m \in Lock : file[m] # None /\ file[m].by = p}
  <1>0. /\ file' = [m \in Lock |-> IF m \in left THEN [file[m] EXCEPT !.by = None] ELSE file[m]]
        /\ orphaned' = orphaned \cup left /\ overrun' = overrun
    BY DEF Crash
  <1>1. \A m \in left : /\ [file[m] EXCEPT !.by = None] \in LockFile
                        /\ file'[m].by = None
    BY <1>0, FileLockAssumption DEF LockInv, TypeOK, LockFile
  <1>2. TypeOK'
    BY <1>0, <1>1, FileLockAssumption DEF LockInv, TypeOK, Crash
  <1>3. \A m \in Lock : m \notin left => file'[m] = file[m]
    BY <1>0
  <1>4. \A q \in Proc : /\ held'[q] = IF q = p THEN {} ELSE held[q]
                        /\ clearing'[q] => clearing[q] /\ want'[q] = want[q]
    BY DEF LockInv, TypeOK, Crash
  <1>5. Sound'
    BY <1>0, <1>3, <1>4 DEF LockInv, Sound
  <1>6. Beaten'
    <2> SUFFICES ASSUME NEW m \in Beating, file'[m] # None, file'[m].by # None
                 PROVE  /\ beat'[file'[m].by][m] # None
                        /\ file'[m].age <= beat'[file'[m].by][m]
      BY DEF Beaten
    <2>1. m \in Lock /\ m \notin left /\ file'[m] = file[m]
      BY <1>1, <1>3, FileLockAssumption
    <2>2. file[m].by \in Proc /\ file[m].by # p
      BY <2>1 DEF LockInv, TypeOK, LockFile
    <2>3. beat'[file[m].by] = beat[file[m].by]
      BY <2>2 DEF LockInv, TypeOK, Crash
    <2> QED BY <2>1, <2>3 DEF LockInv, Beaten
  <1> QED BY <1>0, <1>2, <1>5, <1>6 DEF LockInv, LiveLocksStayFresh

\* Time passes only once every heartbeat that is due has touched its file, so
\* the age of a live file stays within HeartbeatEvery < StaleAfter.
LEMMA TickKeeps ==
  ASSUME LockInv, Tick
  PROVE  LockInv'
  <1> DEFINE aged(m) == [file[m] EXCEPT !.age = Older(@, StaleAfter)]
             stale == {m \in Lock : /\ file[m] # None
                                    /\ file[m].by # None
                                    /\ Older(file[m].age, StaleAfter) >= StaleAfter}
  <1>0. \A m \in Lock : file'[m] = IF file[m] = None THEN None ELSE aged(m)
    BY DEF Tick
  <1>1. \A m \in Lock : file[m] # None =>
           /\ aged(m) \in LockFile /\ aged(m) # None
           /\ aged(m).by = file[m].by
           /\ aged(m).age = Older(file[m].age, StaleAfter)
    BY FileLockAssumption DEF LockInv, TypeOK, LockFile, Older
  <1>2. TypeOK'
    <2>1. file' \in [Lock -> LockFile \cup {None}]
      BY <1>0, <1>1 DEF Tick
    <2>2. waited' \in [Proc -> 0..AcquireTimeout]
      BY FileLockAssumption DEF LockInv, TypeOK, Tick, Older
    <2>3. beat' \in [Proc -> [Lock -> (0..HeartbeatEvery) \cup {None}]]
      BY FileLockAssumption DEF LockInv, TypeOK, Tick, Older
    <2>4. overrun' \subseteq Lock
      BY DEF LockInv, TypeOK, Tick
    <2> QED BY <2>1, <2>2, <2>3, <2>4 DEF LockInv, TypeOK, Tick
  <1>3. overrun' = overrun \cup stale /\ orphaned' = orphaned
    BY DEF Tick
  <1>4. Sound'
    <2>1. ASSUME NEW m \in Lock \ (orphaned' \cup overrun'), file'[m] # None
          PROVE  file'[m].by # None /\ file'[m].age < StaleAfter
      <3>1. file[m] # None /\ file[m].by # None /\ m \notin stale
        BY <1>0, <1>3, <2>1 DEF LockInv, Sound
      <3>2. Older(file[m].age, StaleAfter) < StaleAfter
        BY <3>1, FileLockAssumption DEF LockInv, TypeOK, LockFile, Older
      <3> QED BY <1>0, <1>1, <3>1, <3>2
    <2> QED BY <1>0, <1>1, <1>3, <2>1 DEF LockInv, Sound, Tick
  <1>5. \A m \in Beating : file[m] # None /\ file[m].by # None =>
           /\ file[m].by \in Proc /\ file[m].age \in Nat
           /\ beat[file[m].by][m] \in 0..(HeartbeatEvery - 1)
           /\ file[m].age <= beat[file[m].by][m]
    <2> SUFFICES ASSUME NEW m \in Beating, file[m] # None, file[m].by # None
                 PROVE  /\ file[m].by \in Proc /\ file[m].age \in Nat
                        /\ beat[file[m].by][m] \in 0..(HeartbeatEvery - 1)
                        /\ file[m].age <= beat[file[m].by][m]
      OBVIOUS
    <2>1. m \in Lock /\ file[m].by \in Proc /\ file[m].age \in Nat
      BY FileLockAssumption DEF LockInv, TypeOK, LockFile
    <2>2. beat[file[m].by][m] \in 0..HeartbeatEvery /\ file[m].age <= beat[file[m].by][m]
      BY <2>1 DEF LockInv, Beaten, TypeOK
    <2>3. beat[file[m].by][m] # HeartbeatEvery
      BY <2>1 DEF Tick
    <2> QED BY <2>1, <2>2, <2>3, FileLockAssumption
  <1>6. Beaten'
    <2> SUFFICES ASSUME NEW m \in Beating, file'[m] # None, file'[m].by # None
                 PROVE  /\ beat'[file'[m].by][m] # None
                        /\ file'[m].age <= beat'[file'[m].by][m]
      BY DEF Beaten
    <2>1. /\ m \in Lock /\ file[m] # None /\ file'[m].by = file[m].by
          /\ file'[m].age = Older(file[m].age, StaleAfter)
      BY <1>0, <1>1, FileLockAssumption
    <2>2. beat'[file[m].by][m] = beat[file[m].by][m] + 1
      <3>1. file[m].by \in Proc /\ beat[file[m].by][m] \in 0..(HeartbeatEvery - 1)
        BY <1>5, <2>1
      <3>2. beat[file[m].by][m] # None /\ beat[file[m].by][m] < HeartbeatEvery
        BY <3>1, FileLockAssumption
      <3>3. beat'[file[m].by][m] = IF beat[file[m].by][m] = None THEN None
                                   ELSE Older(beat[file[m].by][m], HeartbeatEvery)
        BY <2>1, <3>1 DEF Tick
      <3> QED BY <3>2, <3>3 DEF Older
    <2> QED BY <1>5, <2>1, <2>2, FileLockAssumption, SMTT(30) DEF Older
  <1>7. LiveLocksStayFresh'
    <2>1. stale \cap Beating = {}
      BY <1>5, FileLockAssumption DEF Older
    <2> QED BY <1>3, <2>1 DEF LockInv, LiveLocksStayFresh
  <1> QED BY <1>2, <1>4, <1>6, <1>7 DEF LockInv

LEMMA LockInvariance == Spec => []LockInv
  <1>1. LockInv /\ [Next]_vars => LockInv'
    <2> SUFFICES ASSUME LockInv, [Next]_vars
                 PROVE  LockInv'
      OBVIOUS
    <2>1. CASE UNCHANGED vars
      BY <2>1 DEF vars, LockInv, TypeOK, Sound, Beaten, LiveLocksStayFresh
    <2>2. CASE Next
      BY <2>2, BeginKeeps, CreateKeeps, FindStaleKeeps, ClearStaleKeeps, GiveUpKeeps,
         HeartbeatKeeps, ReleaseKeeps, CrashKeeps, TickKeeps DEF Next, Wait
    <2> QED BY <2>1, <2>2
  <1> QED BY <1>1, InitLockInv, PTL DEF Spec

\* Mutual exclusion of acquire_task_lock, acquire_repo_lock and
\* acquire_review_lock: a lock no holder of which has crashed and whose file
\* never got stale in its creator's hands has at most one holder.
THEOREM Exclusion == Spec => []HoldersAreExclusive
  <1>1. LockInv => HoldersAreExclusive
    BY DEF LockInv, Sound, HoldersAreExclusive, Holders
  <1> QED BY <1>1, LockInvariance, PTL

\* The heartbeat of spawn_heartbeat keeps the file of a live task or repository
\* lock below the stale age, whatever the two intervals are.
THEOREM HeartbeatSuffices == Spec => []LiveLocksStayFresh
  <1>1. LockInv => LiveLocksStayFresh
    BY DEF LockInv
  <1> QED BY <1>1, LockInvariance, PTL
=============================================================================
