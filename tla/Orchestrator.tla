---------------------------- MODULE Orchestrator ----------------------------
(***************************************************************************)
(* The orchestrator loop: the task board, the dependency graph, the worker *)
(* pool and the assignment engine, without a run store (RunRepair adds the *)
(* runs).  One tick is a sequence of phases; the loop awaits between them, *)
(* at every spawn and at every prompt, so sessions die and the pool's      *)
(* handle_worker_death is called in between.  The loop alone touches the   *)
(* board.                                                                  *)
(*                                                                         *)
(* An event of the log is drawn when the tick reads it: an event that was  *)
(* appended and not yet read has no effect (EventLog models the reading).  *)
(* Titles, timestamps and priorities are left out.                         *)
(***************************************************************************)
EXTENDS Integers, Sequences, FiniteSets

CONSTANTS
    Tasks,              \* task ids
    MinCount,           \* worker_config.min_count
    DependsOn,          \* the dependencies add_task is given
    None,               \* an absent Option value
    MaxTasks,           \* retention.max_tasks
    MaxCompleted,       \* retention.max_completed_tasks
    MaxSessions,        \* bound: sessions the gateway can spawn
    MaxEvents,          \* bound: events the log holds
    MaxDeaths,          \* bound: sessions that die by themselves
    MaxSendFailures,    \* bound: prompts that a live session does not take
    MaxNotices          \* bound: calls of handle_worker_death

Workers == 0 .. MinCount - 1        \* "<agent_type>-<index>"
Sessions == 1 .. MaxSessions

ASSUME OrchestratorAssumption ==
    /\ MinCount \in Nat \ {0} /\ MaxTasks \in Nat \ {0} /\ MaxCompleted \in Nat
    /\ MaxSessions \in Nat /\ MaxEvents \in Nat /\ MaxDeaths \in Nat
    /\ MaxSendFailures \in Nat /\ MaxNotices \in Nat
    /\ DependsOn \in [Tasks -> SUBSET Tasks]
    /\ None \notin Tasks /\ None \notin Int

VARIABLES
    board,      \* Tasks -> TaskEntry, or None
    order,      \* task_order
    edges,      \* DependencyGraph.edges
    dependents, \* DependencyGraph.reverse_edges
    completed,  \* completed_tasks
    workers,    \* WorkerPool.workers: Workers -> WorkerInfo, or None
    owner,      \* WorkerPool.session_to_worker
    history,    \* AssignmentEngine.assignment_history, as <<worker, task>>
    turn,       \* AssignmentEngine.round_robin_indices
    pc,         \* where the loop is
    booted,     \* startup reconciliation done
    todo,       \* the tick's assignable tasks still to look at
    sending,    \* the assignment whose prompt is on its way
    plans,      \* worker indexes run has still to spawn
    deaths,     \* worker deaths the plan has still to apply
    clears,     \* workers whose assignment the plan clears
    git,        \* git_ops present, or worktree isolation off; never changes
    live,       \* sessions alive in the gateway
    spawned,    \* sessions spawned so far
    replaced,   \* history: some worker's record was overwritten by a spawn
    merged,     \* history: tasks whose MergeCommitted was processed
    events, died, failures, notices     \* counters, bounded

boardVars == <<board, order>>
poolVars == <<workers, owner>>
engineVars == <<history, turn>>
loopVars == <<pc, booted, plans, todo, sending, deaths, clears>>
graphVars == <<edges, dependents, completed, merged>>
envVars == <<git, live, spawned, replaced, events, died, failures, notices>>
vars == <<boardVars, poolVars, engineVars, loopVars, graphVars, envVars>>

Status == {"Pending", "Assigned", "InProgress", "InReview",
           "ChangesRequested", "Approved", "Merged", "Blocked"}

TaskEntry ==
    [status : Status, assignee : Workers \cup {None},
     session : Sessions \cup {None}, blocked : BOOLEAN]
WorkerInfo ==
    [session : Sessions, task : Tasks \cup {None}, alive : BOOLEAN]
Prompt == [task : Tasks, worker : Workers, session : Sessions]

ASSUME NoneIsNoRecord ==
    None \notin TaskEntry /\ None \notin WorkerInfo /\ None \notin Prompt

-----------------------------------------------------------------------------
\* TaskBoard.

NewEntry ==
    [status |-> "Pending", assignee |-> None, session |-> None,
     blocked |-> FALSE]

has_task(t) == board[t] # None

OnBoard == {t \in Tasks : has_task(t)}

is_assignable(t) ==
    has_task(t) /\ board[t].status = "Pending" /\ ~board[t].blocked

is_terminal(s) == s = "Merged"

is_worker_owned_status(s) == s \in {"Assigned", "InProgress", "ChangesRequested"}

Owned(t) == has_task(t) /\ is_worker_owned_status(board[t].status)

\* TaskLifecycle::apply, for the two transitions the loop asks for.
Complete(s) == IF s = "InProgress" THEN "InReview" ELSE s
Assign(s) == IF s = "Pending" THEN "Assigned" ELSE s

assigned(entry, w, s) ==
    [entry EXCEPT !.status = "Assigned", !.assignee = w, !.session = s]

unassigned(entry) ==
    [entry EXCEPT !.status = "Pending", !.assignee = None, !.session = None]

BlockedEntry(entry) == [entry EXCEPT !.status = "Blocked", !.blocked = TRUE]

\* add_task: an entry already there is overwritten.
AddEntry(t) ==
    /\ board' = [board EXCEPT ![t] = NewEntry]
    /\ order' = IF has_task(t) THEN order ELSE Append(order, t)

\* Change the entry of t if there is one.
UpdateEntry(t, entry) ==
    board' = IF has_task(t) THEN [board EXCEPT ![t] = entry] ELSE board

-----------------------------------------------------------------------------
\* DependencyGraph.

\* has_cycle: the search finds a cycle if there is one, that is a set of tasks
\* each of which depends on another of them.
has_cycle(graph) ==
    \E S \in SUBSET Tasks : S # {} /\ \A t \in S : graph[t] \cap S # {}

\* The dependencies of t that add_dependency does not refuse, one after the
\* other: a cycle through t -> d has no other edge from t, so the order is
\* irrelevant.
Accepted(t, deps) ==
    {d \in deps : ~has_cycle([edges EXCEPT ![t] = @ \cup {d}])}

\* Both directions of an edge are recorded, of a refused one neither.
AddDependencies(t, deps) ==
    /\ edges' = [edges EXCEPT ![t] = @ \cup Accepted(t, deps)]
    /\ dependents' = [d \in Tasks |-> IF d \in Accepted(t, deps)
                                     THEN dependents[d] \cup {t} ELSE dependents[d]]

\* Mutant: a dependency that is not on the board counts as met.
is_ready_on_board(t) == edges[t] \cap OnBoard \subseteq completed

is_ready(t) == edges[t] \subseteq completed

\* Mutant: the graph is read the wrong way round.
get_dependencies(t) == edges[t]

get_dependents(t) == dependents[t]

-----------------------------------------------------------------------------
\* WorkerPool.  The orchestrator's pool has no task board, so a worker is
\* available when it is alive and has no task.

Known(w) == workers[w] # None
Alive(w) == Known(w) /\ workers[w].alive

\* Mutant: every live worker is available.
IdleIfAlive(w) == Alive(w)

Idle(w) == Alive(w) /\ workers[w].task = None

AliveCount(pool) == Cardinality({w \in Workers : pool[w] # None /\ pool[w].alive})

get_idle_workers == {w \in Workers : Idle(w)}

Fresh(s) == [session |-> s, task |-> None, alive |-> TRUE]

\* record_spawned_worker: the record of that worker id is replaced.
Recorded(pool, w, s) == [pool EXCEPT ![w] = Fresh(s)]

\* The gateway spawns a session for worker w, or fails; either way the loop
\* goes on.
Spawn(pool, w) ==
    \/ /\ spawned < MaxSessions
       /\ spawned' = spawned + 1
       /\ live' = live \cup {spawned + 1}
       /\ workers' = Recorded(pool, w, spawned + 1)
       /\ owner' = [owner EXCEPT ![spawned + 1] = w]
       /\ replaced' = (replaced \/ Known(w))
    \/ /\ workers' = pool
       /\ UNCHANGED <<spawned, live, owner, replaced>>

WithTask(info, t) == [info EXCEPT !.task = t]
Dead(info) == [info EXCEPT !.alive = FALSE, !.task = None]

\* reconcile_worker_death followed by the spawn it plans.  The worker id never
\* parses as a number, so the replacement is always worker 0.
WorkerDeath(s) ==
    IF owner[s] = None \/ ~Known(owner[s])
    THEN UNCHANGED <<workers, owner, spawned, live, replaced>>
    ELSE LET pool == [workers EXCEPT ![owner[s]] = Dead(@)]
         IN  IF AliveCount(pool) < MinCount
             THEN Spawn(pool, 0)
             ELSE workers' = pool /\ UNCHANGED <<owner, spawned, live, replaced>>

-----------------------------------------------------------------------------
Init ==
    /\ board = [t \in Tasks |-> None] /\ order = << >>
    /\ edges = [t \in Tasks |-> {}] /\ dependents = [t \in Tasks |-> {}]
    /\ completed = {} /\ merged = {}
    /\ workers = [w \in Workers |-> None] /\ owner = [s \in Sessions |-> None]
    /\ history = {} /\ turn = 0
    /\ pc = "stopped" /\ booted = FALSE
    /\ plans = {} /\ todo = {} /\ sending = None /\ deaths = {} /\ clears = {}
    /\ git \in BOOLEAN /\ live = {} /\ spawned = 0 /\ replaced = FALSE
    /\ events = 0 /\ died = 0 /\ failures = 0 /\ notices = 0

\* Orchestrator::add_task.  It needs the orchestrator to itself, and the run
\* that is to come has not started.
add_task(t) ==
    /\ pc = "stopped" /\ ~booted
    /\ AddEntry(t)
    /\ AddDependencies(t, DependsOn[t])
    /\ UNCHANGED <<poolVars, engineVars, loopVars, completed, merged, envVars>>

\* Orchestrator::add_dependency, under the same condition; neither task need be
\* on the board.
add_dependency(t, d) ==
    /\ pc = "stopped" /\ ~booted
    /\ AddDependencies(t, {d})
    /\ UNCHANGED <<boardVars, poolVars, engineVars, loopVars, completed, merged, envVars>>

\* run: the startup reconciliation comes first.
run ==
    /\ pc = "stopped"
    /\ pc' = "reconcile" /\ booted' = FALSE
    /\ UNCHANGED <<boardVars, poolVars, engineVars, graphVars, envVars,
                   plans, todo, sending, deaths, clears>>

-----------------------------------------------------------------------------
\* process_event, one per kind of event.  The tick reads them one after the
\* other without awaiting.

EventKept ==
    /\ pc = "events" /\ events < MaxEvents
    /\ events' = events + 1
    /\ UNCHANGED <<poolVars, engineVars, loopVars, edges, dependents,
                   git, live, spawned, replaced, died, failures, notices>>

TaskCreated(t) ==
    /\ EventKept
    /\ IF has_task(t) THEN UNCHANGED boardVars ELSE AddEntry(t)
    /\ UNCHANGED <<completed, merged>>

TaskAssigned(t, w) ==
    /\ EventKept
    /\ UpdateEntry(t, assigned(board[t], w, None))
    /\ UNCHANGED <<order, completed, merged>>

TaskCompleted(t) ==
    /\ EventKept
    /\ UpdateEntry(t, [board[t] EXCEPT !.status = Complete(@)])
    /\ UNCHANGED <<order, completed, merged>>

\* Every task the worker was ever assigned is unassigned.  The pool is not
\* told.
AgentDied(s) ==
    /\ EventKept
    /\ s \in 1 .. spawned /\ s \notin live
    /\ board' = IF owner[s] = None \/ ~Known(owner[s]) THEN board
                ELSE [t \in Tasks |->
                        IF has_task(t) /\ <<owner[s], t>> \in history
                        THEN unassigned(board[t]) ELSE board[t]]
    /\ UNCHANGED <<order, completed, merged>>

MergeCommitted(t) ==
    /\ EventKept
    /\ completed' = completed \cup {t}
    /\ merged' = merged \cup {t}
    /\ UpdateEntry(t, [board[t] EXCEPT !.status = "Merged"])
    /\ UNCHANGED order

MergeAborted(t) ==
    /\ EventKept
    /\ UpdateEntry(t, [board[t] EXCEPT !.status = Assign(@)])
    /\ UNCHANGED <<order, completed, merged>>

process_event ==
    \/ \E t \in Tasks : \/ TaskCreated(t)
                        \/ \E w \in Workers : TaskAssigned(t, w)
                        \/ TaskCompleted(t)
                        \/ MergeCommitted(t)
                        \/ MergeAborted(t)
    \/ \E s \in Sessions : AgentDied(s)

EventsDone ==
    /\ pc = "events"
    /\ pc' = "reconcile"
    /\ UNCHANGED <<boardVars, poolVars, engineVars, graphVars, envVars,
                   booted, plans, todo, sending, deaths, clears>>

-----------------------------------------------------------------------------
\* reconcile_before_dispatch: the plan is made from one snapshot.

task_session_is_stale(t, w) ==
    board[t].session # None /\ board[t].session # workers[w].session

\* The assignee is gone, dead, or under another session by now.
ToUnassign ==
    {t \in OnBoard :
        /\ Owned(t)
        /\ board[t].assignee # None
        /\ ~Alive(board[t].assignee) \/ task_session_is_stale(t, board[t].assignee)}

\* The assignment's task is missing, over, or not this worker's.
AssignmentIsOver(w) ==
    /\ Known(w)
    /\ workers[w].task # None
    /\ LET t == workers[w].task
       IN  \/ ~has_task(t)
           \/ is_terminal(board[t].status)
           \/ board[t].assignee # w

\* Mutant: only the worker of an unassigned task is cleared.
ToClearIfUnassigned ==
    {w \in Workers : Alive(w) /\ \E t \in ToUnassign : board[t].assignee = w}

ToClear ==
    {w \in Workers :
        \/ AssignmentIsOver(w)
        \/ Alive(w) /\ \E t \in ToUnassign : board[t].assignee = w}

\* The task updates are applied at once, the worker cleanups after them.
Reconcile ==
    /\ pc = "reconcile"
    /\ board' = [t \in Tasks |-> IF t \in ToUnassign THEN unassigned(board[t])
                                                  ELSE board[t]]
    /\ deaths' = {workers[w].session : w \in {v \in Workers : Known(v) /\ ~Alive(v)}}
    /\ clears' = ToClear
    /\ pc' = "cleanup"
    /\ UNCHANGED <<order, poolVars, engineVars, graphVars, envVars,
                   booted, plans, todo, sending>>

\* HandleWorkerDeath: the pool's order of workers is any order.
CleanupDeath(s) ==
    /\ pc = "cleanup" /\ s \in deaths
    /\ WorkerDeath(s)
    /\ deaths' = deaths \ {s}
    /\ UNCHANGED <<boardVars, engineVars, graphVars, git, events, died,
                   failures, notices, pc, booted, plans, todo, sending, clears>>

\* ClearAssignment, after the deaths; then the tick goes on to dispatch, with
\* the tasks that are assignable now, or run goes on to spawn.
ClearAssignments ==
    /\ pc = "cleanup" /\ deaths = {}
    /\ workers' = [w \in Workers |->
                    IF w \in clears THEN WithTask(workers[w], None)
                                    ELSE workers[w]]
    /\ clears' = {}
    /\ pc' = IF booted THEN "dispatch" ELSE "spawn"
    /\ todo' = IF booted THEN {t \in Tasks : is_assignable(t)} ELSE {}
    /\ plans' = IF booted THEN {} ELSE AliveCount(workers) .. MinCount - 1
    /\ UNCHANGED <<boardVars, owner, engineVars, graphVars, envVars, booted,
                   sending, deaths>>

-----------------------------------------------------------------------------
\* spawn_workers_to_min, one planned spawn at a time, in order.
spawn_workers_to_min(w) ==
    /\ pc = "spawn" /\ w \in plans /\ \A v \in plans : w <= v
    /\ Spawn(workers, w)
    /\ plans' = plans \ {w}
    /\ UNCHANGED <<boardVars, engineVars, graphVars, git, events, died,
                   failures, notices, pc, booted, todo, sending, deaths, clears>>

StartTicks ==
    /\ pc = "spawn" /\ plans = {}
    /\ pc' = "events" /\ booted' = TRUE
    /\ UNCHANGED <<boardVars, poolVars, engineVars, graphVars, envVars,
                   plans, todo, sending, deaths, clears>>

-----------------------------------------------------------------------------
\* dispatch_ready_tasks, one task of the list at a time, in any order.

\* set_blocked: blocked_by becomes all the dependencies, met or not.
DispatchBlocked(t) ==
    /\ pc = "dispatch" /\ sending = None /\ t \in todo
    /\ ~is_ready(t)
    /\ board' = [board EXCEPT ![t] = BlockedEntry(@)]
    /\ todo' = todo \ {t}
    /\ UNCHANGED <<order, poolVars, engineVars, graphVars, envVars,
                   pc, booted, plans, sending, deaths, clears>>

\* Without an available worker the rest of the list waits for the next tick;
\* without git the task does.
DispatchWaits(t) ==
    /\ pc = "dispatch" /\ sending = None /\ t \in todo
    /\ is_ready(t)
    /\ \/ get_idle_workers = {} /\ todo' = {}
       \/ get_idle_workers # {} /\ ~git /\ todo' = todo \ {t}
    /\ UNCHANGED <<boardVars, poolVars, engineVars, graphVars, envVars,
                   pc, booted, plans, sending, deaths, clears>>

\* Mutant: the turn never passes on.
select_worker_first(w) ==
    LET n == Cardinality(get_idle_workers)
    IN  /\ w \in get_idle_workers
        /\ n > 1 => Cardinality({v \in get_idle_workers : v < w}) = turn % n
        /\ turn' = turn

\* select_worker_for_task: the only idle worker, or the next one in turn.
select_worker(w) ==
    LET n == Cardinality(get_idle_workers)
    IN  /\ w \in get_idle_workers
        /\ n > 1 => Cardinality({v \in get_idle_workers : v < w}) = turn % n
        /\ turn' = IF n > 1 THEN (turn + 1) % n ELSE turn

\* AssignmentEngine::assign_task; the prompt is then awaited.
DispatchAssign(t, w) ==
    /\ pc = "dispatch" /\ sending = None /\ t \in todo
    /\ is_ready(t) /\ git
    /\ select_worker(w)
    /\ workers' = [workers EXCEPT ![w] = WithTask(@, t)]
    /\ history' = history \cup {<<w, t>>}
    /\ sending' = [task |-> t, worker |-> w, session |-> workers[w].session]
    /\ todo' = todo \ {t}
    /\ UNCHANGED <<boardVars, owner, graphVars, envVars,
                   pc, booted, plans, deaths, clears>>

\* dispatch_task took the prompt: the board has the task as assigned.
DispatchSent ==
    /\ pc = "dispatch" /\ sending # None
    /\ sending.session \in live
    /\ UpdateEntry(sending.task,
            assigned(board[sending.task], sending.worker, sending.session))
    /\ sending' = None
    /\ UNCHANGED <<order, poolVars, engineVars, graphVars, envVars,
                   pc, booted, plans, todo, deaths, clears>>

\* dispatch_task failed: the board forgets the assignment, the pool does not.
DispatchFailed ==
    /\ pc = "dispatch" /\ sending # None
    /\ \/ sending.session \notin live /\ UNCHANGED failures
       \/ failures < MaxSendFailures /\ failures' = failures + 1
    /\ UpdateEntry(sending.task, unassigned(board[sending.task]))
    /\ sending' = None
    /\ UNCHANGED <<order, poolVars, engineVars, graphVars, git, live, spawned,
                   replaced, events, died, notices, pc, booted, plans, todo, deaths, clears>>

DispatchDone ==
    /\ pc = "dispatch" /\ sending = None /\ todo = {}
    /\ pc' = "bounds"
    /\ UNCHANGED <<boardVars, poolVars, engineVars, graphVars, envVars,
                   booted, plans, todo, sending, deaths, clears>>

-----------------------------------------------------------------------------
\* TaskBoard::apply_bounds evicts the oldest merged tasks over the limit.
MergedBefore(i) ==
    {j \in 1 .. i - 1 : board[order[j]].status = "Merged"}

Evicted ==
    {order[i] : i \in {k \in 1 .. Len(order) :
        /\ board[order[k]].status = "Merged"
        /\ Cardinality(MergedBefore(k)) < Len(order) - MaxTasks}}

\* Completed tasks over the limit go, in any order, if no task needs them.
PruneCompleted ==
    LET over == Cardinality(completed) - MaxCompleted
        free == {t \in completed : get_dependents(t) = {}}
    IN  \E gone \in SUBSET free :
            /\ Cardinality(gone) = IF over <= 0 THEN 0
                                  ELSE IF over < Cardinality(free) THEN over
                                  ELSE Cardinality(free)
            /\ completed' = completed \ gone

apply_bounds ==
    /\ pc = "bounds"
    /\ board' = [t \in Tasks |-> IF t \in Evicted THEN None ELSE board[t]]
    /\ order' = SelectSeq(order, LAMBDA t : t \notin Evicted)
    /\ PruneCompleted
    /\ pc' = "idle"
    /\ UNCHANGED <<edges, dependents, merged, poolVars, engineVars, envVars,
                   booted, plans, todo, sending, deaths, clears>>

-----------------------------------------------------------------------------
\* The loop sleeps; it ticks again or, told to stop, leaves.
Wake ==
    /\ pc = "idle"
    /\ pc' = "events"
    /\ UNCHANGED <<boardVars, poolVars, engineVars, graphVars, envVars,
                   booted, plans, todo, sending, deaths, clears>>

\* run returns and shutdown kills what it can: only workers whose session was
\* killed are marked dead, and their sessions are forgotten.
shutdown(killed) ==
    /\ pc = "idle"
    /\ killed \subseteq {workers[w].session : w \in {v \in Workers : Alive(v)}}
    /\ live' = live \ killed
    /\ workers' = [w \in Workers |->
                    IF Known(w) /\ \E s \in killed : owner[s] = w
                    THEN Dead(workers[w]) ELSE workers[w]]
    /\ owner' = [s \in Sessions |->
                    IF owner[s] # None /\ workers'[owner[s]].alive
                    THEN owner[s] ELSE None]
    /\ pc' = "stopped"
    /\ UNCHANGED <<boardVars, engineVars, graphVars, git, spawned, replaced, events,
                   died, failures, notices, booted, plans, todo, sending, deaths, clears>>

\* A session dies by itself.
SessionDies(s) ==
    /\ s \in live /\ died < MaxDeaths
    /\ live' = live \ {s}
    /\ died' = died + 1
    /\ UNCHANGED <<boardVars, poolVars, engineVars, loopVars, graphVars,
                   git, spawned, replaced, events, failures, notices>>

\* WorkerPool::handle_worker_death, called by whoever shares the pool; the
\* notice may come late or twice.
handle_worker_death(s) ==
    /\ s \in 1 .. spawned /\ s \notin live /\ notices < MaxNotices
    /\ notices' = notices + 1
    /\ WorkerDeath(s)
    /\ UNCHANGED <<boardVars, engineVars, loopVars, graphVars,
                   git, events, died, failures>>

Loop ==
    \/ EventsDone
    \/ Reconcile
    \/ \E s \in Sessions : CleanupDeath(s)
    \/ ClearAssignments
    \/ \E w \in Workers : spawn_workers_to_min(w)
    \/ StartTicks
    \/ \E t \in Tasks : DispatchBlocked(t) \/ DispatchWaits(t)
    \/ \E t \in Tasks, w \in Workers : DispatchAssign(t, w)
    \/ DispatchSent
    \/ DispatchFailed
    \/ DispatchDone
    \/ apply_bounds
    \/ Wake

Next ==
    \/ \E t \in Tasks : add_task(t) \/ \E d \in Tasks : add_dependency(t, d)
    \/ run
    \/ process_event
    \/ Loop
    \/ \E killed \in SUBSET Sessions : shutdown(killed)
    \/ \E s \in Sessions : SessionDies(s) \/ handle_worker_death(s)

Spec == Init /\ [][Next]_vars

\* run polls until it is told to stop: a started loop keeps taking steps, and
\* Tokio resolves every spawn and every prompt.
FairSpec == Spec /\ WF_vars(Loop)

-----------------------------------------------------------------------------
\* The board, the pool and the loop's own state have the shapes of their types.
TypeOK ==
    /\ board \in [Tasks -> TaskEntry \cup {None}]
    /\ order \in Seq(Tasks)
    /\ edges \in [Tasks -> SUBSET Tasks] /\ dependents \in [Tasks -> SUBSET Tasks]
    /\ completed \in SUBSET Tasks /\ merged \in SUBSET Tasks
    /\ workers \in [Workers -> WorkerInfo \cup {None}]
    /\ owner \in [Sessions -> Workers \cup {None}]
    /\ history \in SUBSET (Workers \X Tasks) /\ turn \in Nat
    /\ pc \in {"stopped", "reconcile", "cleanup", "spawn", "events",
               "dispatch", "bounds", "idle"}
    /\ booted \in BOOLEAN /\ git \in BOOLEAN /\ replaced \in BOOLEAN
    /\ plans \in SUBSET Workers /\ todo \in SUBSET Tasks
    /\ sending \in Prompt \cup {None}
    /\ deaths \in SUBSET Sessions /\ clears \in SUBSET Workers
    /\ spawned \in 0 .. MaxSessions /\ live \in SUBSET (1 .. spawned)
    /\ events \in 0 .. MaxEvents /\ died \in 0 .. MaxDeaths
    /\ failures \in 0 .. MaxSendFailures /\ notices \in 0 .. MaxNotices

\* The tasks a worker is at work on, as far as the board knows.
Exclusive ==
    \A t, u \in Tasks :
        (Owned(t) /\ Owned(u) /\ t # u /\ board[t].session # None)
            => board[t].session # board[u].session

\* As long as no spawn replaced a worker's record, no two tasks are assigned
\* to one session: the pool's assigned_task and the board's assignment, which
\* dispatch, process_event and the reconciler change one at a time, agree well
\* enough.
SessionsAreExclusive == ~replaced => Exclusive

\* A task that was dispatched had all its dependencies merged, although
\* apply_bounds forgets completed tasks.
PrerequisitesFirst ==
    \A t \in Tasks : (Owned(t) /\ board[t].session # None) => edges[t] \subseteq merged

\* A merged task that another depends on is not forgotten by apply_bounds: the
\* dependent would be set_blocked for good.
MergedDepsAreRemembered ==
    \A t \in Tasks : edges[t] \cap merged \subseteq completed

\* A worker whose assignment the board does not know (the prompt failed, the
\* task merged, was evicted or went to another worker) is freed.
StaleAssignmentsAreCleared ==
    \A w \in Workers :
        (AssignmentIsOver(w) /\ pc # "stopped")
            ~> (~AssignmentIsOver(w) \/ pc = "stopped")

\* A task that could be dispatched to an idle worker in a live session does not
\* wait for ever, whatever dead sessions the pool still takes for alive.
ReadyTasksAreDispatched ==
    \A t \in Tasks, w \in Workers :
        ~<>[](/\ is_assignable(t) /\ is_ready(t) /\ git
              /\ Idle(w) /\ workers[w].session \in live
              /\ pc # "stopped")
=============================================================================
