------------------------------ MODULE FileLock ------------------------------
(***************************************************************************)
(* Lock files shared by the MCP server processes of the agents.  A lock is *)
(* held by whoever created its file; a waiter removes a file whose mtime   *)
(* is old, because its holder is then taken for dead.  Task locks and the  *)
(* repository lock (task_actions/locking.rs) are touched by a heartbeat    *)
(* while they are held; review locks (verification/state.rs) are not.      *)
(* A handler may ask for a lock while it holds another one.                *)
(***************************************************************************)
EXTENDS Integers

CONSTANTS
    Proc,           \* processes that take locks
    Lock,           \* the lock files
    Beating,        \* the locks whose holders run a heartbeat
    Nests,          \* <<l, m>>: m is asked for while l is held
    None,
    AcquireTimeout, \* TASK_LOCK_TIMEOUT, REVIEW_LOCK_TIMEOUT
    StaleAfter,     \* TASK_LOCK_STALE_AFTER, REVIEW_LOCK_STALE_AFTER
    HeartbeatEvery, \* TASK_LOCK_HEARTBEAT
    MaxCrashes      \* bound: crashes of processes

LockFile == [by : Proc \cup {None}, age : 0..StaleAfter]

ASSUME FileLockAssumption ==
    /\ Beating \subseteq Lock
    /\ Nests \subseteq Lock \X Lock
    /\ None \notin Proc \cup Lock \cup Int \cup LockFile
    /\ AcquireTimeout \in Nat \ {0}
    /\ HeartbeatEvery \in Nat \ {0}
    /\ StaleAfter \in Nat
    /\ StaleAfter > HeartbeatEvery
    /\ MaxCrashes \in Nat

VARIABLES
    file,      \* lock -> its file (who created it, age of its mtime) or None
    held,      \* process -> the locks whose guards it holds
    want,      \* process -> the lock it waits for, or None
    waited,    \* process -> time since it began to wait
    clearing,  \* process -> it has found the file stale and will remove it
    beat,      \* process, lock -> time since the last touch, None: no heartbeat
    crashes,
    orphaned,  \* history: locks some holder of which has crashed
    overrun    \* history: locks whose file got stale while its creator held it

vars == <<file, held, want, waited, clearing, beat, crashes, orphaned, overrun>>

Holders(l) == {p \in Proc : l \in held[p]}

TypeOK ==
    /\ file \in [Lock -> LockFile \cup {None}]
    /\ held \in [Proc -> SUBSET Lock]
    /\ want \in [Proc -> Lock \cup {None}]
    /\ waited \in [Proc -> 0..AcquireTimeout]
    /\ clearing \in [Proc -> BOOLEAN]
    /\ beat \in [Proc -> [Lock -> (0..HeartbeatEvery) \cup {None}]]
    /\ crashes \in 0..MaxCrashes
    /\ orphaned \subseteq Lock
    /\ overrun \subseteq Lock

Init ==
    /\ file = [l \in Lock |-> None]
    /\ held = [p \in Proc |-> {}]
    /\ want = [p \in Proc |-> None]
    /\ waited = [p \in Proc |-> 0]
    /\ clearing = [p \in Proc |-> FALSE]
    /\ beat = [p \in Proc |-> [l \in Lock |-> None]]
    /\ crashes = 0
    /\ orphaned = {}
    /\ overrun = {}

-----------------------------------------------------------------------------
(* acquire_task_lock, acquire_repo_lock, acquire_review_lock *)

\* Mutant: a file is taken for stale after one heartbeat interval
LooksStaleEarly(l) == file[l] # None /\ file[l].age >= HeartbeatEvery

LooksStale(l) == file[l] # None /\ file[l].age >= StaleAfter

MayAsk(p, l) == l \notin held[p] /\ \A h \in held[p] : <<h, l>> \in Nests

\* The first look at the file comes before any time has passed
BeginAcquire(p, l) ==
    /\ want[p] = None
    /\ MayAsk(p, l)
    /\ want' = [want EXCEPT ![p] = l]
    /\ clearing' = [clearing EXCEPT ![p] = LooksStale(l)]
    /\ UNCHANGED <<file, held, waited, beat, crashes, orphaned, overrun>>

\* create_new succeeds; the heartbeat's first tick, which fires at once and
\* touches a file of age 0, is part of the step
Create(p) ==
    LET l == want[p] IN
    /\ l # None
    /\ ~clearing[p]
    /\ file[l] = None
    /\ file' = [file EXCEPT ![l] = [by |-> p, age |-> 0]]
    /\ held' = [held EXCEPT ![p] = @ \cup {l}]
    /\ want' = [want EXCEPT ![p] = None]
    /\ beat' = [beat EXCEPT ![p][l] = IF l \in Beating THEN 0 ELSE None]
    /\ waited' = [waited EXCEPT ![p] = 0]
    /\ UNCHANGED <<clearing, crashes, orphaned, overrun>>

\* clear_stale_lock: the mtime is read; the removal is a later step
FindStale(p) ==
    LET l == want[p] IN
    /\ l # None
    /\ ~clearing[p]
    /\ waited[p] < AcquireTimeout
    /\ LooksStale(l)
    /\ clearing' = [clearing EXCEPT ![p] = TRUE]
    /\ UNCHANGED <<file, held, want, waited, beat, crashes, orphaned, overrun>>

\* Mutant: only a process's own file is removed
ClearStaleOwn(p) ==
    LET l == want[p] IN
    /\ clearing[p]
    /\ file' = [file EXCEPT ![l] = IF @ # None /\ @.by = p THEN None ELSE @]
    /\ clearing' = [clearing EXCEPT ![p] = FALSE]
    /\ UNCHANGED <<held, want, waited, beat, crashes, orphaned, overrun>>

\* remove_file by path: whatever file is there by now
ClearStale(p) ==
    LET l == want[p] IN
    /\ clearing[p]
    /\ file' = [file EXCEPT ![l] = None]
    /\ clearing' = [clearing EXCEPT ![p] = FALSE]
    /\ UNCHANGED <<held, want, waited, beat, crashes, orphaned, overrun>>

\* Mutant: the time of the wait is counted from the last retry
GiveUpRestarts(p) ==
    LET l == want[p] IN
    /\ l # None
    /\ ~clearing[p]
    /\ file[l] # None
    /\ waited[p] >= AcquireTimeout
    /\ waited' = [waited EXCEPT ![p] = 0]
    /\ UNCHANGED <<file, held, want, clearing, beat, crashes, orphaned, overrun>>

GiveUp(p) ==
    LET l == want[p] IN
    /\ l # None
    /\ ~clearing[p]
    /\ file[l] # None
    /\ waited[p] >= AcquireTimeout
    /\ want' = [want EXCEPT ![p] = None]
    /\ waited' = [waited EXCEPT ![p] = 0]
    /\ UNCHANGED <<file, held, clearing, beat, crashes, orphaned, overrun>>
-----------------------------------------------------------------------------
(* holding: heartbeat and Drop *)

\* Mutant: the heartbeat ends after its first touch
HeartbeatOnce(p, l) ==
    /\ beat[p][l] # None
    /\ beat[p][l] >= HeartbeatEvery
    /\ file' = [file EXCEPT ![l] = IF @ = None THEN None ELSE [@ EXCEPT !.age = 0]]
    /\ beat' = [beat EXCEPT ![p][l] = None]
    /\ UNCHANGED <<held, want, waited, clearing, crashes, orphaned, overrun>>

\* touch_lock: any file at the path is touched; with none the heartbeat ends
Heartbeat(p, l) ==
    /\ beat[p][l] # None
    /\ beat[p][l] >= HeartbeatEvery
    /\ IF file[l] # None
       THEN /\ file' = [file EXCEPT ![l].age = 0]
            /\ beat' = [beat EXCEPT ![p][l] = 0]
       ELSE /\ beat' = [beat EXCEPT ![p][l] = None]
            /\ UNCHANGED file
    /\ UNCHANGED <<held, want, waited, clearing, crashes, orphaned, overrun>>

\* Drop: the heartbeat is aborted and the path is removed, whoever created it
Release(p, l) ==
    /\ want[p] = None
    /\ l \in held[p]
    /\ held' = [held EXCEPT ![p] = @ \ {l}]
    /\ beat' = [beat EXCEPT ![p][l] = None]
    /\ file' = [file EXCEPT ![l] = None]
    /\ UNCHANGED <<want, waited, clearing, crashes, orphaned, overrun>>

\* The process dies: its files stay and nobody touches them any more
Crash(p) ==
    LET left == {l \in Lock : file[l] # None /\ file[l].by = p} IN
    /\ crashes < MaxCrashes
    /\ held[p] # {} \/ want[p] # None
    /\ crashes' = crashes + 1
    /\ held' = [held EXCEPT ![p] = {}]
    /\ want' = [want EXCEPT ![p] = None]
    /\ clearing' = [clearing EXCEPT ![p] = FALSE]
    /\ beat' = [beat EXCEPT ![p] = [l \in Lock |-> None]]
    /\ file' = [l \in Lock |-> IF l \in left THEN [file[l] EXCEPT !.by = None] ELSE file[l]]
    /\ orphaned' = orphaned \cup left
    /\ waited' = [waited EXCEPT ![p] = 0]
    /\ UNCHANGED overrun

Older(n, cap) == IF n < cap THEN n + 1 ELSE n

\* Time passes.  A heartbeat that is due is not delayed by a whole unit.
Tick ==
    /\ \A p \in Proc, l \in Lock : beat[p][l] # HeartbeatEvery
    /\ file' = [l \in Lock |-> IF file[l] = None THEN None
                               ELSE [file[l] EXCEPT !.age = Older(@, StaleAfter)]]
    /\ waited' = [p \in Proc |-> IF want[p] = None THEN waited[p]
                                 ELSE Older(waited[p], AcquireTimeout)]
    /\ beat' = [p \in Proc |-> [l \in Lock |->
                   IF beat[p][l] = None THEN None ELSE Older(beat[p][l], HeartbeatEvery)]]
    /\ overrun' = overrun \cup {l \in Lock : /\ file[l] # None
                                             /\ file[l].by # None
                                             /\ Older(file[l].age, StaleAfter) >= StaleAfter}
    /\ UNCHANGED <<held, want, clearing, crashes, orphaned>>

\* what a waiting process does by itself
Wait(p) == Create(p) \/ FindStale(p) \/ ClearStale(p) \/ GiveUp(p)

Next ==
    \/ \E p \in Proc : \/ \E l \in Lock : \/ BeginAcquire(p, l)
                                           \/ Heartbeat(p, l)
                                           \/ Release(p, l)
                       \/ Wait(p)
                       \/ Crash(p)
    \/ Tick

Spec == Init /\ [][Next]_vars

\* The retry loop of a waiting process and the heartbeat tasks go on, and time
\* passes.  That anybody asks for a lock or gives one back is not assumed.
FairSpec ==
    /\ Spec
    /\ WF_vars(Tick)
    /\ \A p \in Proc : WF_vars(Wait(p)) /\ \A l \in Lock : WF_vars(Heartbeat(p, l))
-----------------------------------------------------------------------------
(* Properties *)

\* No two processes hold a lock at once, as long as no holder of it has
\* crashed and no file of it got stale in the hands of its creator.  After a
\* crash two waiters may both find the old file stale, and the slower one
\* then removes the file the faster one has just created.
HoldersAreExclusive ==
    \A l \in Lock \ (orphaned \cup overrun) : \A p, q \in Holders(l) : p = q

\* The heartbeat does its work: the file of a task or repository lock never
\* gets stale while the process that created it is alive.
LiveLocksStayFresh == overrun \cap Beating = {}

\* Every attempt to take a lock ends, with the lock or with an error, even
\* when two handlers that hold a task lock wait for each other's.
AttemptsEnd == \A p \in Proc : want[p] # None ~> want[p] = None

Orphan(l) == file[l] # None /\ file[l].by = None

\* A crash does not close a lock for ever: if somebody asks for it time and
\* again, the file the dead process left is removed again and again.
OrphansAreReclaimed ==
    \A l \in Lock : []<>(\E p \in Proc : want[p] = l) => []<>~Orphan(l)
=============================================================================
