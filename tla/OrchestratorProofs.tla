------------------------- MODULE OrchestratorProofs -------------------------
(***************************************************************************)
(* No task is dispatched before its dependencies have merged, none of them *)
(* is forgotten, and no session has two tasks: for any tasks, dependencies,*)
(* workers, limits and numbers of events, deaths and failures.             *)
(***************************************************************************)
EXTENDS Orchestrator, TLAPS

\* The two directions of the graph agree, and there is no cycle.
GraphInv ==
    /\ edges \in [Tasks -> SUBSET Tasks]
    /\ dependents \in [Tasks -> SUBSET Tasks]
    /\ \A t, d \in Tasks : t \in dependents[d] <=> d \in edges[t]
    /\ ~has_cycle(edges)

\* The shapes the argument needs.
Types ==
    /\ board \in [Tasks -> TaskEntry \cup {None}]
    /\ edges \in [Tasks -> SUBSET Tasks]
    /\ completed \in SUBSET Tasks /\ merged \in SUBSET Tasks
    /\ workers \in [Workers -> WorkerInfo \cup {None}]
    /\ owner \in [Sessions -> Workers \cup {None}]
    /\ sending \in Prompt \cup {None}
    /\ todo \in SUBSET Tasks
    /\ spawned \in 0 .. MaxSessions
    /\ \A w \in Workers : Known(w) => workers[w].session \in 1 .. spawned

\* Dispatch and retention happen in started loops only, a prompt is under way
\* only in dispatch, and the tasks to dispatch and the workers to clear exist.
PhaseInv ==
    /\ pc \in {"events", "dispatch", "bounds", "idle"} => booted
    /\ pc = "stopped" /\ ~booted =>
           merged = {} /\ \A t \in Tasks : has_task(t) => board[t].session = None
    /\ sending # None => pc = "dispatch"
    /\ pc = "cleanup" => \A w \in clears : w \in Workers /\ Known(w)
    /\ pc = "dispatch" => \A t \in todo : has_task(t)

\* A task that a session was ever given, or is being given, has its
\* dependencies merged.
DependencyInv ==
    /\ completed \subseteq merged
    /\ MergedDepsAreRemembered
    /\ \A t \in Tasks : has_task(t) /\ board[t].session # None => edges[t] \subseteq merged
    /\ sending # None => edges[sending.task] \subseteq merged

Holds(t) == Owned(t) /\ board[t].session # None

\* The worker w, if it still lives, is at work on t in the session s.
WorksOn(w, s, t) ==
    /\ w \in Workers /\ Known(w)
    /\ workers[w].session = s
    /\ workers[w].alive => workers[w].task = t

\* Until a record is replaced: a task in a session is the one its worker has,
\* unless the worker is dead, and no worker has two.
ExclusionInv ==
    /\ \A t \in Tasks : has_task(t) /\ board[t].status = "Pending" => board[t].session = None
    /\ ~replaced =>
        /\ \A v, w \in Workers : Known(v) /\ Known(w) /\ v # w =>
                                     workers[v].session # workers[w].session
        /\ \A t \in Tasks : Holds(t) => WorksOn(board[t].assignee, board[t].session, t)
        /\ \A t, u \in Tasks : Holds(t) /\ Holds(u) /\ board[t].assignee = board[u].assignee => t = u
        /\ pc = "cleanup" => \A w \in clears, t \in Tasks :
               Holds(t) /\ board[t].assignee = w => ~workers[w].alive
        /\ sending # None =>
               /\ WorksOn(sending.worker, sending.session, sending.task)
               /\ \A t \in Tasks : Holds(t) => board[t].assignee # sending.worker

Inv == Types /\ PhaseInv /\ DependencyInv /\ ExclusionInv

\* Until a record is replaced no two workers share a session.
LEMMA SessionsDiffer ==
    ASSUME Inv, ~replaced
    PROVE  \A v, w \in Workers : Known(v) /\ Known(w) /\ v # w =>
                                     workers[v].session # workers[w].session
  <1>1. ExclusionInv
    BY DEF Inv
  <1> QED BY <1>1 DEF ExclusionInv

-----------------------------------------------------------------------------
(* The dependency graph *)

\* Dependencies that close no cycle one by one close none together: a cycle
\* through t uses one edge from t only.
LEMMA NoCycle ==
    ASSUME NEW G \in [Tasks -> SUBSET Tasks], NEW t \in Tasks, NEW D \in SUBSET Tasks,
           ~has_cycle(G), \A d \in D : ~has_cycle([G EXCEPT ![t] = @ \cup {d}])
    PROVE  ~has_cycle([G EXCEPT ![t] = @ \cup D])
  <1> SUFFICES ASSUME NEW S \in SUBSET Tasks, S # {},
                      \A u \in S : [G EXCEPT ![t] = @ \cup D][u] \cap S # {}
               PROVE  FALSE
    BY DEF has_cycle
  <1>1. \A u \in S \ {t} : G[u] \cap S # {}
    OBVIOUS
  <1>2. t \in S /\ G[t] \cap S = {}
    BY <1>1 DEF has_cycle
  <1>3. PICK d \in D : d \in S
    BY <1>2
  <1>4. \A u \in S : [G EXCEPT ![t] = @ \cup {d}][u] \cap S # {}
    BY <1>1, <1>3
  <1> QED BY <1>4 DEF has_cycle

\* add_dependency keeps the graph acyclic and its two directions equal.
LEMMA DependenciesAdded ==
    ASSUME GraphInv, NEW t \in Tasks, NEW D \in SUBSET Tasks, AddDependencies(t, D)
    PROVE  GraphInv'
  <1> DEFINE A == Accepted(t, D)
  <1>1. A \in SUBSET Tasks
    BY DEF Accepted
  <1>2. ~has_cycle([edges EXCEPT ![t] = @ \cup A])
    <2>1. \A d \in A : ~has_cycle([edges EXCEPT ![t] = @ \cup {d}])
      BY DEF Accepted
    <2> HIDE DEF A
    <2> QED BY <1>1, <2>1, NoCycle DEF GraphInv
  <1>3. /\ edges' = [edges EXCEPT ![t] = @ \cup A]
        /\ dependents' = [d \in Tasks |-> IF d \in A THEN dependents[d] \cup {t} ELSE dependents[d]]
    BY DEF AddDependencies
  <1> HIDE DEF A
  <1>4. edges' \in [Tasks -> SUBSET Tasks] /\ dependents' \in [Tasks -> SUBSET Tasks]
    BY <1>1, <1>3 DEF GraphInv
  <1>5. \A u, d \in Tasks : u \in dependents'[d] <=> d \in edges'[u]
    BY <1>1, <1>3 DEF GraphInv
  <1>6. ~has_cycle(edges)'
    BY <1>2, <1>3 DEF has_cycle
  <1> QED BY <1>4, <1>5, <1>6 DEF GraphInv

\* Nothing else touches the graph.
LEMMA GraphInvariance == Spec => []GraphInv
  <1> USE OrchestratorAssumption
  <1>1. Init => GraphInv
    BY DEF Init, GraphInv, has_cycle
  <1>2. GraphInv /\ [Next]_vars => GraphInv'
    <2> SUFFICES ASSUME GraphInv, [Next]_vars PROVE GraphInv'
      OBVIOUS
    <2>1. ASSUME NEW t \in Tasks, add_task(t) PROVE GraphInv'
      BY <2>1, DependenciesAdded DEF add_task
    <2>2. ASSUME NEW t \in Tasks, NEW d \in Tasks, add_dependency(t, d) PROVE GraphInv'
      BY <2>2, DependenciesAdded DEF add_dependency
    <2>3. CASE UNCHANGED <<edges, dependents>>
      BY <2>3 DEF GraphInv, has_cycle
    <2>4. process_event => UNCHANGED <<edges, dependents>>
      BY DEF process_event, TaskCreated, TaskAssigned, TaskCompleted, MergeCommitted,
             MergeAborted, AgentDied, EventKept
    <2>5. Loop => UNCHANGED <<edges, dependents>>
      BY DEF Loop, EventsDone, Reconcile, CleanupDeath, ClearAssignments, spawn_workers_to_min,
             StartTicks, DispatchBlocked, DispatchWaits, DispatchAssign, DispatchSent,
             DispatchFailed, DispatchDone, apply_bounds, Wake, graphVars
    <2>6. run \/ UNCHANGED vars => UNCHANGED <<edges, dependents>>
      BY DEF run, vars, graphVars
    <2>7. ASSUME NEW killed \in SUBSET Sessions, shutdown(killed)
          PROVE  UNCHANGED <<edges, dependents>>
      BY <2>7 DEF shutdown, graphVars
    <2>8. ASSUME NEW s \in Sessions, SessionDies(s) \/ handle_worker_death(s)
          PROVE  UNCHANGED <<edges, dependents>>
      BY <2>8 DEF SessionDies, handle_worker_death, graphVars
    <2> QED BY <2>1, <2>2, <2>3, <2>4, <2>5, <2>6, <2>7, <2>8 DEF Next
  <1> QED BY <1>1, <1>2, PTL DEF Spec

-----------------------------------------------------------------------------
\* The loop starts with an empty board and an empty pool.
LEMMA InitInv == Init => Inv
  <1> SUFFICES ASSUME Init PROVE Inv
    OBVIOUS
  <1> USE OrchestratorAssumption
  <1>1. Types
    BY DEF Init, Types, Known
  <1>2. PhaseInv /\ DependencyInv
    BY DEF Init, PhaseInv, DependencyInv, MergedDepsAreRemembered, has_task
  <1>3. ExclusionInv
    BY DEF Init, ExclusionInv, has_task, Known, Holds, Owned
  <1> QED BY <1>1, <1>2, <1>3 DEF Inv

-----------------------------------------------------------------------------
(* Changes of the board *)

\* A step that changes the board alone, gives no task a session and leaves
\* what is assigned as it is or releases it, keeps the exclusion.
LEMMA Released ==
    ASSUME ExclusionInv,
           \A t \in Tasks : Holds(t)' => board'[t] = board[t],
           \A t \in Tasks : has_task(t)' /\ board'[t].status = "Pending" =>
                                board'[t].session = None,
           UNCHANGED <<workers, replaced>>, sending' \in {sending, None},
           pc' = "cleanup" => pc = "cleanup" /\ clears' = clears
    PROVE  ExclusionInv'
  <1>1. \A t \in Tasks : Holds(t)' => Holds(t) /\ board'[t] = board[t]
    BY DEF Holds, Owned, has_task
  <1>2. CASE replaced'
    BY <1>2 DEF ExclusionInv
  <1>3. CASE ~replaced'
    <2>1. ~replaced
      BY <1>3
    <2>2. \A w, x, t : WorksOn(w, x, t)' <=> WorksOn(w, x, t)
      BY DEF WorksOn, Known
    <2>3. \A v, w \in Workers : Known(v)' /\ Known(w)' /\ v # w =>
                                     workers'[v].session # workers'[w].session
      BY <2>1 DEF ExclusionInv, Known
    <2>4. \A t \in Tasks : Holds(t)' => WorksOn(board[t].assignee, board[t].session, t)'
      <3>1. \A t \in Tasks : Holds(t) => WorksOn(board[t].assignee, board[t].session, t)
        BY <2>1 DEF ExclusionInv
      <3> QED BY <1>1, <2>2, <3>1
    <2>5. \A t, u \in Tasks : Holds(t)' /\ Holds(u)' /\ board'[t].assignee = board'[u].assignee
                              => t = u
      BY <1>1, <2>1 DEF ExclusionInv
    <2>6. pc' = "cleanup" => \A w \in clears', t \in Tasks :
              Holds(t)' /\ board'[t].assignee = w => ~workers'[w].alive
      BY <1>1, <2>1 DEF ExclusionInv
    <2>7. sending' # None =>
              /\ WorksOn(sending.worker, sending.session, sending.task)'
              /\ \A t \in Tasks : Holds(t)' => board'[t].assignee # sending'.worker
      BY <1>1, <2>1, <2>2 DEF ExclusionInv
    <2> QED BY <1>3, <2>3, <2>4, <2>5, <2>6, <2>7 DEF ExclusionInv
  <1> QED BY <1>2, <1>3

\* The same with dependencies: no task gets a session, and edges stay.
LEMMA DependenciesKept ==
    ASSUME DependencyInv,
           \A t \in Tasks : has_task(t)' /\ board'[t].session # None =>
                                has_task(t) /\ board'[t].session = board[t].session,
           edges' = edges, merged \subseteq merged',
           \A t \in Tasks : edges[t] \cap merged' \subseteq completed',
           completed' \subseteq merged',
           sending' # None => sending' = sending
    PROVE  DependencyInv'
  BY DEF DependencyInv, MergedDepsAreRemembered

\* Fields of the entries the events write.
LEMMA EntryShapes ==
    ASSUME NEW e \in TaskEntry, NEW w \in Workers, NEW s \in Sessions \cup {None}
    PROVE  /\ NewEntry \in TaskEntry /\ NewEntry.session = None
           /\ assigned(e, w, s) \in TaskEntry
           /\ assigned(e, w, s).session = s /\ assigned(e, w, s).assignee = w
           /\ assigned(e, w, s).status = "Assigned"
           /\ unassigned(e) \in TaskEntry /\ unassigned(e).session = None
           /\ unassigned(e).status = "Pending"
           /\ BlockedEntry(e) \in TaskEntry /\ BlockedEntry(e).session = e.session
           /\ BlockedEntry(e).status = "Blocked"
           /\ \A x \in Status : /\ [e EXCEPT !.status = x] \in TaskEntry
                                /\ [e EXCEPT !.status = x].session = e.session
                                /\ [e EXCEPT !.status = x].status = x
  BY DEF TaskEntry, Status, NewEntry, assigned, unassigned, BlockedEntry

\* add_task and add_dependency: before the first run nothing has merged, so the
\* edges are free.
LEMMA AddTaskStep ==
    ASSUME Inv, NEW t \in Tasks, add_task(t) \/ \E d \in Tasks : add_dependency(t, d)
    PROVE  Inv'
  <1> USE OrchestratorAssumption
  <1>1. /\ board' = [board EXCEPT ![t] = NewEntry] \/ board' = board
        /\ \E D \in SUBSET Tasks : edges' = [edges EXCEPT ![t] = @ \cup D]
        /\ UNCHANGED <<completed, merged, workers, owner, sending, todo, spawned, pc, booted,
                       clears, replaced>>
        /\ pc = "stopped" /\ ~booted
    <2>1. CASE add_task(t)
      <3>1. Accepted(t, DependsOn[t]) \in SUBSET Tasks
        BY DEF Accepted
      <3> QED BY <2>1, <3>1 DEF add_task, AddEntry, AddDependencies, poolVars, engineVars, loopVars,
                 envVars
    <2>2. ASSUME NEW d \in Tasks, add_dependency(t, d)
          PROVE  /\ board' = board
                 /\ edges' = [edges EXCEPT ![t] = @ \cup Accepted(t, {d})]
                 /\ Accepted(t, {d}) \in SUBSET Tasks
                 /\ UNCHANGED <<completed, merged, workers, owner, sending, todo, spawned, pc, booted,
                                clears, replaced>>
                 /\ pc = "stopped" /\ ~booted
      <3>1. Accepted(t, {d}) \in SUBSET Tasks
        BY DEF Accepted
      <3> QED BY <2>2, <3>1 DEF add_dependency, AddDependencies, boardVars, poolVars, loopVars, envVars
    <2> QED BY <2>1, <2>2
  <1>2. NewEntry \in TaskEntry /\ NewEntry.session = None
    BY DEF NewEntry, TaskEntry, Status
  <1>3. Types'
    BY <1>1, <1>2 DEF Inv, Types, Known
  <1>4. PhaseInv'
    <2>1. \A u \in Tasks : has_task(u)' => board'[u].session = None
      BY <1>1, <1>2 DEF Inv, Types, PhaseInv, has_task
    <2> QED BY <1>1, <2>1 DEF Inv, PhaseInv, Known
  <1>5. DependencyInv'
    <2>1. merged' = {} /\ completed' = {} /\ sending' = None
      BY <1>1 DEF Inv, PhaseInv, DependencyInv
    <2>2. \A u \in Tasks : has_task(u)' => board'[u].session = None
      BY <1>4, <1>1 DEF PhaseInv
    <2> QED BY <2>1, <2>2 DEF DependencyInv, MergedDepsAreRemembered
  <1>6. ExclusionInv'
    <2>1. \A u \in Tasks : board'[u] = NewEntry \/ board'[u] = board[u]
      BY <1>1 DEF Inv, Types
    <2>2. \A u \in Tasks : Holds(u)' => board'[u] = board[u]
      BY <1>2, <2>1 DEF Holds
    <2>3. \A u \in Tasks : has_task(u)' /\ board'[u].status = "Pending" => board'[u].session = None
      BY <1>2, <2>1 DEF Inv, ExclusionInv, has_task
    <2> QED BY <1>1, <2>2, <2>3, Released DEF Inv
  <1> QED BY <1>3, <1>4, <1>5, <1>6 DEF Inv

\* An event changes entries without giving one a session.
LEMMA EventStep ==
    ASSUME Inv, process_event
    PROVE  Inv'
  <1> USE OrchestratorAssumption, NoneIsNoRecord
  <1>1. /\ UNCHANGED <<edges, workers, owner, sending, todo, spawned, pc, booted, clears, replaced>>
        /\ pc = "events"
    BY DEF process_event, TaskCreated, TaskAssigned, TaskCompleted, MergeCommitted,
           MergeAborted, AgentDied, EventKept, poolVars, engineVars, loopVars
  <1>2. \/ UNCHANGED <<completed, merged>>
        \/ \E t \in Tasks : completed' = completed \cup {t} /\ merged' = merged \cup {t}
    BY DEF process_event, TaskCreated, TaskAssigned, TaskCompleted, MergeCommitted,
           MergeAborted, AgentDied
  <1>3. ASSUME NEW u \in Tasks
        PROVE  \/ board'[u] = board[u]
               \/ /\ board'[u] \in TaskEntry
                  /\ board'[u].session = None
               \/ /\ has_task(u)
                  /\ board'[u] \in TaskEntry
                  /\ board'[u].session = board[u].session
                  /\ ~is_worker_owned_status(board'[u].status)
                  /\ board'[u].status # "Pending"
    <2> USE DEF Inv, Types
    <2>1. ASSUME NEW t \in Tasks, TaskCreated(t)
          PROVE  board'[u] = board[u] \/ board'[u] = NewEntry
      BY <2>1 DEF TaskCreated, AddEntry, boardVars
    <2>2. ASSUME NEW t \in Tasks, NEW w \in Workers, TaskAssigned(t, w)
          PROVE  \/ board'[u] = board[u]
                 \/ has_task(u) /\ board'[u] = assigned(board[u], w, None)
      BY <2>2 DEF TaskAssigned, UpdateEntry
    <2>3. ASSUME NEW t \in Tasks, TaskCompleted(t)
          PROVE  \/ board'[u] = board[u]
                 \/ has_task(u) /\ board[u].status = "InProgress"
                                /\ board'[u] = [board[u] EXCEPT !.status = "InReview"]
      <3>1. CASE has_task(t) /\ u = t /\ board[t].status = "InProgress"
        BY <2>3, <3>1 DEF TaskCompleted, UpdateEntry, Complete
      <3>2. CASE has_task(t) /\ u = t /\ board[t].status # "InProgress"
        <4>1. board'[u] = [board[u] EXCEPT !.status = board[u].status]
          BY <2>3, <3>2 DEF TaskCompleted, UpdateEntry, Complete
        <4>2. board[u] \in TaskEntry
          BY <3>2 DEF has_task
        <4> QED BY <4>1, <4>2 DEF TaskEntry
      <3>3. CASE ~has_task(t) \/ u # t
        BY <2>3, <3>3 DEF TaskCompleted, UpdateEntry
      <3> QED BY <3>1, <3>2, <3>3
    <2>4. ASSUME NEW t \in Tasks, MergeCommitted(t)
          PROVE  \/ board'[u] = board[u]
                 \/ has_task(u) /\ board'[u] = [board[u] EXCEPT !.status = "Merged"]
      BY <2>4 DEF MergeCommitted, UpdateEntry
    <2>5. ASSUME NEW t \in Tasks, MergeAborted(t)
          PROVE  \/ board'[u] = board[u]
                 \/ has_task(u) /\ board[u].status = "Pending"
                                /\ board'[u] = [board[u] EXCEPT !.status = "Assigned"]
      <3>1. CASE has_task(t) /\ u = t /\ board[t].status = "Pending"
        BY <2>5, <3>1 DEF MergeAborted, UpdateEntry, Assign
      <3>2. CASE has_task(t) /\ u = t /\ board[t].status # "Pending"
        <4>1. board'[u] = [board[u] EXCEPT !.status = board[u].status]
          BY <2>5, <3>2 DEF MergeAborted, UpdateEntry, Assign
        <4>2. board[u] \in TaskEntry
          BY <3>2 DEF has_task
        <4> QED BY <4>1, <4>2 DEF TaskEntry
      <3>3. CASE ~has_task(t) \/ u # t
        BY <2>5, <3>3 DEF MergeAborted, UpdateEntry
      <3> QED BY <3>1, <3>2, <3>3
    <2>6. ASSUME NEW x \in Sessions, AgentDied(x)
          PROVE  \/ board'[u] = board[u]
                 \/ has_task(u) /\ board'[u] = unassigned(board[u])
      BY <2>6 DEF AgentDied
    <2>7. has_task(u) => board[u] \in TaskEntry
      BY DEF has_task
    <2>8. NewEntry \in TaskEntry /\ NewEntry.session = None
      BY DEF NewEntry, TaskEntry, Status
    <2>9. has_task(u) /\ board[u].status = "Pending" => board[u].session = None
      BY DEF ExclusionInv
    <2>10. \/ board'[u] = board[u] \/ board'[u] = NewEntry
           \/ has_task(u) /\ \E w \in Workers : board'[u] = assigned(board[u], w, None)
           \/ has_task(u) /\ \E x \in {"InReview", "Merged"} : board'[u] = [board[u] EXCEPT !.status = x]
           \/ has_task(u) /\ board[u].status = "Pending" /\ board'[u] = [board[u] EXCEPT !.status = "Assigned"]
           \/ has_task(u) /\ board'[u] = unassigned(board[u])
      BY <2>1, <2>2, <2>3, <2>4, <2>5, <2>6 DEF process_event
    <2>11. {"InReview", "Merged", "Assigned"} \subseteq Status /\ None \in Sessions \cup {None}
           /\ 0 \in Workers
      BY DEF Status, Workers
    <2> HIDE DEF Inv, Types
    <2>12. ASSUME has_task(u), NEW w \in Workers, board'[u] = assigned(board[u], w, None)
           PROVE  board'[u] \in TaskEntry /\ board'[u].session = None
      BY <2>7, <2>11, <2>12, EntryShapes
    <2>13. ASSUME has_task(u), board'[u] = unassigned(board[u])
           PROVE  board'[u] \in TaskEntry /\ board'[u].session = None
      BY <2>7, <2>11, <2>13, EntryShapes
    <2>14. ASSUME has_task(u), NEW x \in Status, board'[u] = [board[u] EXCEPT !.status = x]
           PROVE  /\ board'[u] \in TaskEntry /\ board'[u].status = x
                  /\ board'[u].session = board[u].session
      BY <2>7, <2>14 DEF TaskEntry
    <2>15. ASSUME has_task(u), NEW x \in {"InReview", "Merged"},
                  board'[u] = [board[u] EXCEPT !.status = x]
           PROVE  /\ board'[u] \in TaskEntry /\ board'[u].session = board[u].session
                  /\ ~is_worker_owned_status(board'[u].status) /\ board'[u].status # "Pending"
      <3>1. x \in Status
        BY DEF Status
      <3>2. /\ board'[u] \in TaskEntry /\ board'[u].status = x
            /\ board'[u].session = board[u].session
        BY <2>14, <2>15, <3>1
      <3> QED BY <3>2 DEF is_worker_owned_status
    <2>16. ASSUME has_task(u), board[u].status = "Pending",
                  board'[u] = [board[u] EXCEPT !.status = "Assigned"]
           PROVE  board'[u] \in TaskEntry /\ board'[u].session = None
      BY <2>9, <2>11, <2>14, <2>16
    <2> QED BY <2>8, <2>10, <2>12, <2>13, <2>15, <2>16
  <1>4. Types'
    <2>1. board' \in [Tasks -> TaskEntry \cup {None}]
      <3>1. board' = [u \in Tasks |-> board'[u]]
        BY DEF Inv, Types, process_event, TaskCreated, TaskAssigned, TaskCompleted,
               MergeCommitted, MergeAborted, AgentDied, AddEntry, UpdateEntry, boardVars
      <3>2. \A u \in Tasks : board'[u] \in TaskEntry \cup {None}
        BY <1>3 DEF Inv, Types
      <3> QED BY <3>1, <3>2
    <2> QED BY <1>1, <1>2, <2>1 DEF Inv, Types, Known
  <1>5. PhaseInv'
    BY <1>1 DEF Inv, PhaseInv, Known
  <1>6. DependencyInv'
    <2>1. \A u \in Tasks : has_task(u)' /\ board'[u].session # None =>
                               has_task(u) /\ board'[u].session = board[u].session
      BY <1>3 DEF has_task
    <2>2. \A u \in Tasks : edges[u] \cap merged' \subseteq completed'
      BY <1>2 DEF Inv, DependencyInv, MergedDepsAreRemembered
    <2>3. merged \subseteq merged' /\ completed' \subseteq merged'
      BY <1>2 DEF Inv, DependencyInv
    <2> QED BY <1>1, <2>1, <2>2, <2>3, DependenciesKept DEF Inv
  <1>7. ExclusionInv'
    <2>1. \A u \in Tasks : Holds(u)' => board'[u] = board[u]
      BY <1>3 DEF Holds, Owned
    <2>2. \A u \in Tasks : has_task(u)' /\ board'[u].status = "Pending" => board'[u].session = None
      BY <1>3 DEF Inv, ExclusionInv, has_task
    <2> QED BY <1>1, <2>1, <2>2, Released DEF Inv
  <1> QED BY <1>4, <1>5, <1>6, <1>7 DEF Inv
-----------------------------------------------------------------------------
(* Reconciliation and the pool *)

\* The plan releases tasks of lost workers, and clears no worker that is at
\* work on a task of the board.
LEMMA ReconcileStep ==
    ASSUME Inv, Reconcile
    PROVE  Inv'
  <1> USE OrchestratorAssumption, NoneIsNoRecord
  <1>1. /\ UNCHANGED <<edges, completed, merged, workers, owner, sending, todo, spawned,
                       booted, replaced>>
        /\ pc = "reconcile" /\ pc' = "cleanup" /\ clears' = ToClear
        /\ board' = [t \in Tasks |-> IF t \in ToUnassign THEN unassigned(board[t])
                                                        ELSE board[t]]
    BY DEF Reconcile, poolVars, engineVars, graphVars, envVars
  <1>2. \A t \in ToUnassign : t \in Tasks /\ has_task(t) /\ board[t] \in TaskEntry
    BY DEF ToUnassign, OnBoard, has_task, Inv, Types
  <1>3. \A t \in ToUnassign : /\ unassigned(board[t]) \in TaskEntry
                              /\ unassigned(board[t]).session = None
    <2>1. 0 \in Workers /\ None \in Sessions \cup {None}
      BY DEF Workers
    <2> QED BY <1>2, <2>1, EntryShapes
  <1>4. Types'
    <2>1. board' \in [Tasks -> TaskEntry \cup {None}]
      BY <1>1, <1>3 DEF Inv, Types
    <2> QED BY <1>1, <2>1 DEF Inv, Types, Known
  <1>5. PhaseInv'
    <2>1. \A w \in ToClear : w \in Workers /\ Known(w)
      BY DEF ToClear, AssignmentIsOver, Alive
    <2>2. sending = None
      BY <1>1 DEF Inv, PhaseInv
    <2> QED BY <1>1, <2>1, <2>2 DEF Inv, PhaseInv, Known
  <1>6. DependencyInv'
    <2>1. \A t \in Tasks : has_task(t)' /\ board'[t].session # None =>
                               has_task(t) /\ board'[t].session = board[t].session
      BY <1>1, <1>3 DEF has_task
    <2> QED BY <1>1, <2>1, DependenciesKept DEF Inv, DependencyInv, MergedDepsAreRemembered
  <1>7. ExclusionInv'
    <2>1. \A t \in Tasks : Holds(t)' => Holds(t) /\ board'[t] = board[t] /\ t \notin ToUnassign
      BY <1>1, <1>3 DEF Holds, Owned, has_task
    <2>2. \A t \in Tasks : has_task(t)' /\ board'[t].status = "Pending" => board'[t].session = None
      BY <1>1, <1>3 DEF Inv, ExclusionInv, has_task
    <2>3. sending' = None
      BY <1>1 DEF Inv, PhaseInv
    <2>4. ASSUME ~replaced, NEW w \in ToClear, NEW t \in Tasks, Holds(t), board[t].assignee = w,
                 workers[w].alive
          PROVE  FALSE
      <3>1. /\ Known(w) /\ workers[w].session = board[t].session /\ workers[w].task = t
            /\ has_task(t) /\ board[t].status # "Merged"
        BY <2>4 DEF Inv, ExclusionInv, WorksOn, Holds, Owned, is_worker_owned_status
      <3>2. ~AssignmentIsOver(w)
        BY <2>4, <3>1 DEF AssignmentIsOver, is_terminal
      <3>3. PICK u \in ToUnassign : board[u].assignee = w /\ Alive(w)
        BY <2>4, <3>2 DEF ToClear
      <3>4. u \in Tasks /\ Owned(u) /\ board[u].session # None /\ board[u].session # workers[w].session
        BY <1>2, <3>3 DEF ToUnassign, task_session_is_stale
      <3>5. Holds(u) /\ WorksOn(w, board[u].session, u)
        BY <2>4, <3>3, <3>4 DEF Inv, ExclusionInv, Holds
      <3> QED BY <3>4, <3>5 DEF WorksOn
    <2>5. ~replaced' =>
            /\ \A v, w \in Workers : Known(v)' /\ Known(w)' /\ v # w =>
                                         workers'[v].session # workers'[w].session
            /\ \A t \in Tasks : Holds(t)' => WorksOn(board[t].assignee, board[t].session, t)'
            /\ \A t, u \in Tasks : Holds(t)' /\ Holds(u)' /\ board'[t].assignee = board'[u].assignee
                                       => t = u
      BY <1>1, <2>1 DEF Inv, ExclusionInv, WorksOn, Known
    <2>6. ~replaced' => \A w \in clears', t \in Tasks :
                            Holds(t)' /\ board'[t].assignee = w => ~workers'[w].alive
      BY <1>1, <2>1, <2>4
    <2> QED BY <2>2, <2>3, <2>5, <2>6 DEF ExclusionInv
  <1> QED BY <1>4, <1>5, <1>6, <1>7 DEF Inv

\* Fields of the records the pool writes.
LEMMA InfoShapes ==
    ASSUME NEW i \in WorkerInfo, NEW t \in Tasks \cup {None}
    PROVE  /\ Dead(i) \in WorkerInfo /\ Dead(i).session = i.session /\ ~Dead(i).alive
           /\ WithTask(i, t) \in WorkerInfo /\ WithTask(i, t).session = i.session
           /\ WithTask(i, t).alive = i.alive /\ WithTask(i, t).task = t
  <1>1. Dead(i) \in WorkerInfo /\ Dead(i).session = i.session /\ ~Dead(i).alive
    BY DEF WorkerInfo, Dead
  <1>2. /\ WithTask(i, t) \in WorkerInfo /\ WithTask(i, t).session = i.session
        /\ WithTask(i, t).alive = i.alive /\ WithTask(i, t).task = t
    BY DEF WorkerInfo, WithTask
  <1> QED BY <1>1, <1>2

\* What a step of the pool may do to a worker's record: nothing, mark it dead,
\* or write a record with a new session.
PoolStep ==
    /\ workers' \in [Workers -> WorkerInfo \cup {None}]
    /\ spawned' \in {spawned, spawned + 1} /\ spawned' \in 0 .. MaxSessions
    /\ \A w \in Workers :
           \/ workers'[w] = workers[w]
           \/ Known(w) /\ workers'[w] = Dead(workers[w])
           \/ /\ workers'[w] \in WorkerInfo
              /\ spawned' = spawned + 1
              /\ workers'[w].session = spawned + 1
              /\ Known(w) => replaced'
              /\ \A v \in Workers : workers'[v] # workers[v] /\ v # w =>
                                        Known(v) /\ workers'[v] = Dead(workers[v])
    /\ replaced => replaced'
    /\ owner' \in [Sessions -> Workers \cup {None}]

\* Such a step keeps the invariant.
LEMMA PoolStepKeeps ==
    ASSUME Inv, PoolStep, UNCHANGED <<board, edges, completed, merged, sending, todo>>,
           pc' = "cleanup" => pc = "cleanup" /\ clears' \subseteq clears,
           PhaseInv'
    PROVE  Inv'
  <1> USE OrchestratorAssumption, NoneIsNoRecord
  <1>1. \A w \in Workers : Known(w) =>
            /\ workers[w] \in WorkerInfo /\ Dead(workers[w]) \in WorkerInfo
            /\ Dead(workers[w]).session = workers[w].session
            /\ ~Dead(workers[w]).alive
    <2> TAKE w \in Workers
    <2> HAVE Known(w)
    <2>1. workers[w] \in WorkerInfo
      BY DEF Inv, Types, Known
    <2>2. None \in Tasks \cup {None}
      OBVIOUS
    <2> QED BY <2>1, <2>2, InfoShapes
  <1>2. \A w \in Workers : \/ Known(w)' /\ workers'[w].session = spawned' /\ spawned' = spawned + 1
                              /\ (Known(w) => replaced')
                           \/ Known(w) /\ Known(w)' /\ workers'[w].session = workers[w].session
                              /\ (workers'[w] = workers[w] \/ ~workers'[w].alive)
                           \/ ~Known(w) /\ ~Known(w)'
    <2> TAKE w \in Workers
    <2>1. CASE workers'[w] = workers[w]
      BY <2>1 DEF Known
    <2>2. CASE Known(w) /\ workers'[w] = Dead(workers[w])
      BY <1>1, <2>2 DEF Known
    <2>3. CASE /\ workers'[w] \in WorkerInfo /\ spawned' = spawned + 1
               /\ workers'[w].session = spawned + 1
               /\ Known(w) => replaced'
      BY <2>3 DEF Known
    <2> QED BY <2>1, <2>2, <2>3 DEF PoolStep
  <1>3. spawned \in Nat /\ spawned' \in Nat /\ spawned <= spawned'
    <2>1. MaxSessions \in Nat /\ spawned \in 0 .. MaxSessions
      BY DEF Inv, Types
    <2>2. spawned' \in {spawned, spawned + 1} /\ spawned' \in 0 .. MaxSessions
      BY DEF PoolStep
    <2> QED BY ONLY <2>1, <2>2
  <1>4. Types'
    <2>1. ASSUME NEW w \in Workers, Known(w)' PROVE workers'[w].session \in 1 .. spawned'
      <3>1. \/ workers'[w].session = spawned' /\ spawned' = spawned + 1
            \/ Known(w) /\ workers'[w].session = workers[w].session
        BY <1>2, <2>1
      <3>2. Known(w) => workers[w].session \in 1 .. spawned
        BY DEF Inv, Types
      <3> QED BY ONLY <1>3, <3>1, <3>2
    <2> QED BY <2>1 DEF Inv, Types, PoolStep
  <1>5. DependencyInv'
    BY DEF Inv, DependencyInv, MergedDepsAreRemembered, has_task
  <1>6. ExclusionInv'
    <2>1. \A t \in Tasks : (has_task(t)' <=> has_task(t)) /\ (Holds(t)' <=> Holds(t))
      BY DEF has_task, Holds, Owned
    <2>2. CASE replaced'
      BY <2>1, <2>2 DEF Inv, ExclusionInv
    <2>3. CASE ~replaced'
      <3>1. ~replaced
        BY <2>3 DEF PoolStep
      <3>2. \A w \in Workers : Known(w) =>
                 /\ Known(w)' /\ workers'[w].session = workers[w].session
                 /\ workers'[w] = workers[w] \/ ~workers'[w].alive
        BY <1>2, <2>3
      <3>3. ASSUME NEW v \in Workers, NEW w \in Workers, Known(v)', Known(w)', v # w
            PROVE  workers'[v].session # workers'[w].session
        <4>1. CASE Known(v) /\ Known(w)
          BY <3>1, <3>2, <3>3, <4>1 DEF Inv, ExclusionInv
        <4>2. CASE ~Known(v) /\ Known(w)
          <5>1. workers'[v].session = spawned + 1 /\ workers'[w].session \in 1 .. spawned
            BY <1>2, <3>2, <3>3, <4>2 DEF Inv, Types
          <5> QED BY ONLY <1>3, <5>1
        <4>3. CASE Known(v) /\ ~Known(w)
          <5>1. workers'[w].session = spawned + 1 /\ workers'[v].session \in 1 .. spawned
            BY <1>2, <3>2, <3>3, <4>3 DEF Inv, Types
          <5> QED BY ONLY <1>3, <5>1
        <4>4. CASE ~Known(v) /\ ~Known(w)
          <5>1. workers'[v] # workers[v] /\ workers'[w] # workers[w]
            BY <3>3, <4>4 DEF Known
          <5> QED BY <3>3, <4>4, <5>1 DEF PoolStep
        <4> QED BY <4>1, <4>2, <4>3, <4>4
      <3>4. \A w, x, t : WorksOn(w, x, t) => WorksOn(w, x, t)'
        BY <3>2 DEF WorksOn
      <3>5. \A t \in Tasks : Holds(t)' => WorksOn(board[t].assignee, board[t].session, t)'
        BY <2>1, <3>1, <3>4 DEF Inv, ExclusionInv
      <3>6. pc' = "cleanup" => \A w \in clears', t \in Tasks :
                Holds(t)' /\ board'[t].assignee = w => ~workers'[w].alive
        BY <2>1, <3>1, <3>2 DEF Inv, ExclusionInv, PhaseInv
      <3>7. sending' # None =>
               /\ WorksOn(sending.worker, sending.session, sending.task)'
               /\ \A t \in Tasks : Holds(t)' => board'[t].assignee # sending'.worker
        BY <2>1, <3>1, <3>4 DEF Inv, ExclusionInv
      <3> QED BY <2>1, <3>1, <3>3, <3>5, <3>6, <3>7 DEF Inv, ExclusionInv
    <2> QED BY <2>2, <2>3
  <1> QED BY <1>4, <1>5, <1>6 DEF Inv

\* A spawn for worker w, in a pool where some workers have been marked dead,
\* is a step of the pool.
LEMMA SpawnIsPoolStep ==
    ASSUME Inv, NEW w \in Workers, NEW pool \in [Workers -> WorkerInfo \cup {None}],
           \A v \in Workers : \/ pool[v] = workers[v]
                              \/ Known(v) /\ pool[v] = Dead(workers[v]),
           Spawn(pool, w)
    PROVE  PoolStep
  <1> USE OrchestratorAssumption
  <1>1. CASE spawned < MaxSessions /\ spawned' = spawned + 1
             /\ workers' = Recorded(pool, w, spawned + 1)
             /\ owner' = [owner EXCEPT ![spawned + 1] = w]
             /\ replaced' = (replaced \/ Known(w))
    <2>1. spawned + 1 \in Sessions /\ spawned' \in 0 .. MaxSessions
      <3>1. spawned \in 0 .. MaxSessions /\ MaxSessions \in Nat
        BY DEF Inv, Types
      <3> QED BY ONLY <1>1, <3>1 DEF Sessions
    <2>2. Fresh(spawned + 1) \in WorkerInfo /\ Fresh(spawned + 1).session = spawned + 1
      BY <2>1 DEF Fresh, WorkerInfo
    <2>3. /\ workers' \in [Workers -> WorkerInfo \cup {None}]
          /\ \A v \in Workers : workers'[v] = IF v = w THEN Fresh(spawned + 1) ELSE pool[v]
      BY <1>1, <2>2 DEF Recorded
    <2>4. owner' \in [Sessions -> Workers \cup {None}]
      BY <1>1, <2>1 DEF Inv, Types
    <2>5. \A v \in Workers :
             \/ workers'[v] = workers[v]
             \/ Known(v) /\ workers'[v] = Dead(workers[v])
             \/ v = w
      BY <2>3
    <2>6. \A v \in Workers \ {w} : workers'[v] # workers[v] =>
                                    Known(v) /\ workers'[v] = Dead(workers[v])
      BY <2>5
    <2>7. /\ workers'[w] \in WorkerInfo /\ workers'[w].session = spawned + 1
          /\ Known(w) => replaced'
          /\ replaced => replaced'
      BY <1>1, <2>2, <2>3
    <2>8. \A v \in Workers : workers'[v] # workers[v] /\ v # w =>
                                 Known(v) /\ workers'[v] = Dead(workers[v])
      BY <2>6
    <2>9. ASSUME NEW v \in Workers
          PROVE  \/ workers'[v] = workers[v]
                 \/ Known(v) /\ workers'[v] = Dead(workers[v])
                 \/ /\ workers'[v] \in WorkerInfo
                    /\ spawned' = spawned + 1
                    /\ workers'[v].session = spawned + 1
                    /\ Known(v) => replaced'
                    /\ \A x \in Workers : workers'[x] # workers[x] /\ x # v =>
                                              Known(x) /\ workers'[x] = Dead(workers[x])
      <3>1. CASE v = w
        BY <1>1, <2>7, <2>8, <3>1
      <3>2. CASE v # w
        BY <2>5, <3>2
      <3> QED BY <3>1, <3>2
    <2>10. spawned' \in {spawned, spawned + 1} /\ (replaced => replaced')
      BY <1>1, <2>7
    <2> QED BY <2>1, <2>3, <2>4, <2>9, <2>10, Zenon DEF PoolStep
  <1>2. CASE workers' = pool /\ UNCHANGED <<spawned, live, owner, replaced>>
    BY <1>2 DEF Inv, Types, PoolStep
  <1> QED BY <1>1, <1>2 DEF Spawn

\* So is the death of a worker, with the spawn that may follow.
LEMMA DeathIsPoolStep ==
    ASSUME Inv, NEW s \in Sessions, WorkerDeath(s)
    PROVE  PoolStep
  <1> USE OrchestratorAssumption
  <1>1. CASE owner[s] = None \/ ~Known(owner[s])
    BY <1>1 DEF WorkerDeath, Inv, Types, PoolStep
  <1>2. CASE ~(owner[s] = None \/ ~Known(owner[s]))
    <2> DEFINE o == owner[s]
               pool == [workers EXCEPT ![o] = Dead(@)]
    <2>1. o \in Workers /\ Known(o) /\ workers[o] \in WorkerInfo
      BY <1>2 DEF Inv, Types, Known
    <2>2. Dead(workers[o]) \in WorkerInfo
      <3>1. None \in Tasks \cup {None}
        OBVIOUS
      <3> QED BY <2>1, <3>1, InfoShapes
    <2>3. pool \in [Workers -> WorkerInfo \cup {None}]
      BY <2>1, <2>2 DEF Inv, Types
    <2>4. \A v \in Workers : \/ pool[v] = workers[v]
                             \/ Known(v) /\ pool[v] = Dead(workers[v])
      BY <2>1 DEF Inv, Types
    <2>5. \/ Spawn(pool, 0)
          \/ workers' = pool /\ UNCHANGED <<owner, spawned, live, replaced>>
      BY <1>2 DEF WorkerDeath
    <2> HIDE DEF pool
    <2>6. 0 \in Workers
      BY DEF Workers
    <2>7. CASE Spawn(pool, 0)
      BY <2>3, <2>4, <2>6, <2>7, SpawnIsPoolStep
    <2>8. CASE workers' = pool /\ UNCHANGED <<owner, spawned, live, replaced>>
      BY <2>3, <2>4, <2>8 DEF Inv, Types, PoolStep
    <2> QED BY <2>5, <2>7, <2>8
  <1> QED BY <1>1, <1>2

\* A worker once known stays known.
LEMMA PoolKeepsWorkers ==
    ASSUME Inv, PoolStep, NEW w \in Workers, Known(w)
    PROVE  Known(w)'
  <1> USE NoneIsNoRecord
  <1>1. workers[w] \in WorkerInfo
    BY DEF Inv, Types, Known
  <1>2. Dead(workers[w]) \in WorkerInfo
    <2>1. None \in Tasks \cup {None}
      OBVIOUS
    <2> QED BY <1>1, <2>1, InfoShapes
  <1> QED BY <1>2 DEF PoolStep, Known

\* The steps that go through the pool.
LEMMA PoolSteps ==
    ASSUME Inv,
           \/ \E s \in Sessions : CleanupDeath(s) \/ handle_worker_death(s)
           \/ \E w \in Workers : spawn_workers_to_min(w)
    PROVE  Inv'
  <1>1. PoolStep
    <2>1. CASE \E s \in Sessions : CleanupDeath(s) \/ handle_worker_death(s)
      BY <2>1, DeathIsPoolStep DEF CleanupDeath, handle_worker_death
    <2>2. ASSUME NEW w \in Workers, spawn_workers_to_min(w) PROVE PoolStep
      BY <2>2, SpawnIsPoolStep DEF spawn_workers_to_min, Inv, Types
    <2> QED BY <2>1, <2>2
  <1>2. UNCHANGED <<board, edges, completed, merged, sending, todo, pc, booted, clears>>
    BY DEF CleanupDeath, handle_worker_death, spawn_workers_to_min, boardVars, graphVars, loopVars
  <1>3. PhaseInv'
    BY <1>1, <1>2, PoolKeepsWorkers DEF Inv, PhaseInv, has_task
  <1> QED BY <1>1, <1>2, <1>3, PoolStepKeeps

\* Shutdown marks workers dead and forgets sessions.
LEMMA ShutdownStep ==
    ASSUME Inv, NEW killed \in SUBSET Sessions, shutdown(killed)
    PROVE  Inv'
  <1>1. /\ UNCHANGED <<board, edges, completed, merged, sending, todo, booted, clears, spawned,
                       replaced>>
        /\ pc = "idle" /\ pc' = "stopped"
    BY DEF shutdown, boardVars, graphVars
  <1>2. workers' = [w \in Workers |->
                    IF Known(w) /\ \E s \in killed : owner[s] = w
                    THEN Dead(workers[w]) ELSE workers[w]]
    BY DEF shutdown
  <1>3. owner' \in [Sessions -> Workers \cup {None}]
    BY DEF shutdown, Inv, Types
  <1>4. \A w \in Workers : Known(w) => Dead(workers[w]) \in WorkerInfo
    <2>1. None \in Tasks \cup {None} /\ \A w \in Workers : Known(w) => workers[w] \in WorkerInfo
      BY DEF Inv, Types, Known
    <2> QED BY <2>1, InfoShapes
  <1>5. PoolStep
    BY <1>1, <1>2, <1>3, <1>4 DEF PoolStep, Inv, Types
  <1>6. PhaseInv'
    BY <1>1 DEF Inv, PhaseInv
  <1> QED BY <1>1, <1>5, <1>6, PoolStepKeeps

\* The plan's worker cleanups take the task from workers that hold none of the
\* board, or are dead.
LEMMA ClearStep ==
    ASSUME Inv, ClearAssignments
    PROVE  Inv'
  <1> USE OrchestratorAssumption, NoneIsNoRecord
  <1>1. /\ UNCHANGED <<board, edges, completed, merged, owner, sending, spawned, booted, replaced>>
        /\ pc = "cleanup" /\ pc' = IF booted THEN "dispatch" ELSE "spawn"
        /\ todo' = IF booted THEN {t \in Tasks : is_assignable(t)} ELSE {}
        /\ workers' = [w \in Workers |-> IF w \in clears THEN WithTask(workers[w], None)
                                                         ELSE workers[w]]
    BY DEF ClearAssignments, boardVars, graphVars, envVars
  <1>2. \A w \in Workers :
            \/ workers'[w] = workers[w]
            \/ /\ w \in clears /\ Known(w) /\ Known(w)' /\ workers'[w] \in WorkerInfo
               /\ workers'[w].session = workers[w].session
               /\ workers'[w].alive = workers[w].alive
    <2> TAKE w \in Workers
    <2>1. CASE w \in clears
      <3>1. Known(w) /\ workers[w] \in WorkerInfo /\ None \in Tasks \cup {None}
        BY <1>1, <2>1 DEF Inv, PhaseInv, Types, Known
      <3>2. workers'[w] = WithTask(workers[w], None)
        BY <1>1, <2>1
      <3>3. /\ WithTask(workers[w], None) \in WorkerInfo
            /\ WithTask(workers[w], None).session = workers[w].session
            /\ WithTask(workers[w], None).alive = workers[w].alive
        BY ONLY <3>1, InfoShapes
      <3>4. /\ workers'[w] \in WorkerInfo /\ workers'[w].session = workers[w].session
            /\ workers'[w].alive = workers[w].alive
        BY ONLY <3>2, <3>3
      <3> QED BY <2>1, <3>1, <3>4 DEF Known
    <2>2. CASE w \notin clears
      BY <1>1, <2>2
    <2> QED BY <2>1, <2>2
  <1>3. sending = None /\ sending' = None
    BY <1>1 DEF Inv, PhaseInv
  <1>4. Types'
    <2>1. workers' \in [Workers -> WorkerInfo \cup {None}]
      <3>1. \A w \in Workers : workers'[w] \in WorkerInfo \cup {None}
        BY <1>2 DEF Inv, Types
      <3> QED BY <1>1, <3>1
    <2>2. \A w \in Workers : Known(w)' => workers'[w].session \in 1 .. spawned
      BY <1>2 DEF Inv, Types, Known
    <2> QED BY <1>1, <2>1, <2>2 DEF Inv, Types
  <1>5. PhaseInv'
    BY <1>1, <1>3 DEF Inv, PhaseInv, is_assignable, has_task
  <1>6. DependencyInv'
    BY <1>1 DEF Inv, DependencyInv, MergedDepsAreRemembered, has_task
  <1>7. ExclusionInv'
    <2>1. \A t \in Tasks : (has_task(t)' <=> has_task(t)) /\ (Holds(t)' <=> Holds(t))
      BY <1>1 DEF has_task, Holds, Owned
    <2>2. ASSUME ~replaced, NEW t \in Tasks, Holds(t)
          PROVE  WorksOn(board[t].assignee, board[t].session, t)'
      <3>1. WorksOn(board[t].assignee, board[t].session, t)
        BY <2>2 DEF Inv, ExclusionInv
      <3>2. board[t].assignee \in clears => ~workers[board[t].assignee].alive
        BY <1>1, <2>2 DEF Inv, ExclusionInv
      <3> QED BY <1>1, <1>2, <3>1, <3>2 DEF WorksOn, Known
    <2>3. ~replaced => \A v, w \in Workers : Known(v)' /\ Known(w)' /\ v # w =>
                                     workers'[v].session # workers'[w].session
      <3>1. \A v \in Workers : Known(v)' => Known(v) /\ workers'[v].session = workers[v].session
        BY <1>2 DEF Known
      <3> QED BY <3>1, SessionsDiffer
    <2>4. pc' # "cleanup"
      BY <1>1
    <2> QED BY <1>1, <1>3, <2>1, <2>2, <2>3, <2>4 DEF Inv, ExclusionInv
  <1> QED BY <1>4, <1>5, <1>6, <1>7 DEF Inv

-----------------------------------------------------------------------------
(* Dispatch and retention *)

\* Steps that only move the loop on, or end a session.
LEMMA QuietStep ==
    ASSUME Inv,
           \/ run \/ EventsDone \/ StartTicks \/ DispatchDone \/ Wake
           \/ \E t \in Tasks : DispatchWaits(t)
           \/ \E s \in Sessions : SessionDies(s)
    PROVE  Inv'
  <1>1. /\ UNCHANGED <<board, edges, completed, merged, workers, owner, sending, clears, spawned,
                       replaced>>
        /\ todo' \subseteq todo
        /\ pc' \in {"cleanup", "stopped"} => pc' = pc /\ booted' = booted
        /\ pc' = "dispatch" => pc = "dispatch"
        /\ pc' \in {"events", "dispatch", "bounds", "idle"} => booted'
        /\ sending = None \/ pc' = pc
    BY DEF Inv, Types, PhaseInv, run, EventsDone, StartTicks, DispatchDone, Wake, DispatchWaits,
           SessionDies, boardVars, poolVars, graphVars, loopVars, envVars
  <1>2. Types'
    BY <1>1 DEF Inv, Types, Known
  <1>3. PhaseInv'
    <2>1. PhaseInv /\ \A t \in Tasks : has_task(t)' <=> has_task(t)
      BY <1>1 DEF Inv, has_task
    <2>2. pc' \in {"events", "dispatch", "bounds", "idle"} => booted'
      BY <1>1
    <2>3. pc' = "stopped" /\ ~booted' =>
              merged' = {} /\ \A t \in Tasks : has_task(t)' => board'[t].session = None
      <3>1. pc' = "stopped" /\ ~booted' => pc = "stopped" /\ ~booted
        BY <1>1
      <3> QED BY <1>1, <2>1, <3>1 DEF PhaseInv
    <2>4. sending' # None => pc' = "dispatch"
      BY <1>1, <2>1 DEF PhaseInv
    <2>5. pc' = "cleanup" => \A w \in clears' : w \in Workers /\ Known(w)'
      <3>1. pc' = "cleanup" => pc = "cleanup"
        BY <1>1
      <3> QED BY <1>1, <2>1, <3>1 DEF PhaseInv, Known
    <2>6. pc' = "dispatch" => \A t \in todo' : has_task(t)'
      <3>1. pc' = "dispatch" => pc = "dispatch"
        BY <1>1
      <3> QED BY <1>1, <2>1, <3>1 DEF PhaseInv, has_task
    <2> QED BY <2>2, <2>3, <2>4, <2>5, <2>6 DEF PhaseInv
  <1>4. DependencyInv'
    BY <1>1 DEF Inv, DependencyInv, MergedDepsAreRemembered, has_task
  <1>5. ExclusionInv'
    <2>1. \A t \in Tasks : Holds(t)' => board'[t] = board[t]
      BY <1>1
    <2>2. \A t \in Tasks : has_task(t)' /\ board'[t].status = "Pending" => board'[t].session = None
      BY <1>1 DEF Inv, ExclusionInv, has_task
    <2> QED BY <1>1, <2>1, <2>2, Released DEF Inv
  <1> QED BY <1>2, <1>3, <1>4, <1>5 DEF Inv

\* A task that is not ready becomes blocked, a prompt that fails releases its
\* task.
LEMMA GiveUpStep ==
    ASSUME Inv, DispatchFailed \/ \E t \in Tasks : DispatchBlocked(t)
    PROVE  Inv'
  <1> USE OrchestratorAssumption, NoneIsNoRecord
  <1>1. /\ UNCHANGED <<edges, completed, merged, workers, owner, clears, spawned, replaced, pc,
                       booted>>
        /\ pc = "dispatch" /\ todo' \subseteq todo /\ sending' = None
    BY DEF Inv, Types, DispatchFailed, DispatchBlocked, poolVars, graphVars, envVars
  <1>2. PICK u \in Tasks :
            \/ board' = board
            \/ has_task(u) /\ board' = [board EXCEPT ![u] = unassigned(board[u])]
            \/ has_task(u) /\ board' = [board EXCEPT ![u] = BlockedEntry(board[u])]
    <2>1. ASSUME NEW t \in Tasks, DispatchBlocked(t)
          PROVE  has_task(t) /\ board' = [board EXCEPT ![t] = BlockedEntry(board[t])]
      BY <2>1 DEF DispatchBlocked, Inv, PhaseInv
    <2>2. ASSUME DispatchFailed
          PROVE  /\ sending.task \in Tasks
                 /\ \/ board' = board
                    \/ /\ has_task(sending.task)
                       /\ board' = [board EXCEPT ![sending.task] = unassigned(board[sending.task])]
      BY <2>2 DEF DispatchFailed, UpdateEntry, Inv, Types, Prompt
    <2> QED BY <2>1, <2>2
  <1>3. has_task(u) => /\ unassigned(board[u]) \in TaskEntry /\ unassigned(board[u]).session = None
                       /\ BlockedEntry(board[u]) \in TaskEntry
                       /\ BlockedEntry(board[u]).session = board[u].session
                       /\ BlockedEntry(board[u]).status = "Blocked"
    <2>1. has_task(u) => board[u] \in TaskEntry
      BY DEF has_task, Inv, Types
    <2>2. 0 \in Workers /\ None \in Sessions \cup {None}
      BY DEF Workers
    <2> QED BY <2>1, <2>2, EntryShapes
  <1>4. \A t \in Tasks :
            \/ board'[t] = board[t]
            \/ has_task(t) /\ board'[t] \in TaskEntry /\ board'[t].session = None
            \/ /\ has_task(t) /\ board'[t] \in TaskEntry
               /\ board'[t].session = board[t].session /\ board'[t].status = "Blocked"
    <2> TAKE t \in Tasks
    <2>1. board \in [Tasks -> TaskEntry \cup {None}]
      BY DEF Inv, Types
    <2>2. CASE t = u
      BY <1>2, <1>3, <2>1, <2>2
    <2>3. CASE t # u
      BY <1>2, <2>1, <2>3
    <2> QED BY <2>2, <2>3
  <1>5. Types'
    <2>1. \A t \in Tasks : board'[t] \in TaskEntry \cup {None}
      BY <1>4 DEF Inv, Types
    <2>2. board' = [t \in Tasks |-> board'[t]]
      BY <1>2 DEF Inv, Types
    <2>3. board' \in [Tasks -> TaskEntry \cup {None}]
      BY <2>1, <2>2
    <2> QED BY <1>1, <2>3 DEF Inv, Types, Known
  <1>6. PhaseInv'
    BY <1>1, <1>4 DEF Inv, Types, PhaseInv, has_task
  <1>7. DependencyInv'
    <2>1. \A t \in Tasks : has_task(t)' /\ board'[t].session # None =>
                               has_task(t) /\ board'[t].session = board[t].session
      BY <1>4 DEF has_task
    <2> QED BY <1>1, <2>1, DependenciesKept DEF Inv, DependencyInv, MergedDepsAreRemembered
  <1>8. ExclusionInv'
    <2>1. \A t \in Tasks : Holds(t)' => board'[t] = board[t]
      BY <1>4 DEF Holds, Owned, is_worker_owned_status
    <2>2. \A t \in Tasks : has_task(t)' /\ board'[t].status = "Pending" => board'[t].session = None
      BY <1>4 DEF Inv, ExclusionInv, has_task
    <2> QED BY <1>1, <2>1, <2>2, Released DEF Inv
  <1> QED BY <1>5, <1>6, <1>7, <1>8 DEF Inv

\* An assignment goes to a worker with no task, hence with none on the board,
\* and only for a ready task.
LEMMA AssignStep ==
    ASSUME Inv, NEW t \in Tasks, NEW w \in Workers, DispatchAssign(t, w)
    PROVE  Inv'
  <1> USE OrchestratorAssumption, NoneIsNoRecord
  <1>1. /\ UNCHANGED <<board, edges, completed, merged, owner, clears, spawned, replaced, pc, booted>>
        /\ pc = "dispatch" /\ sending = None /\ is_ready(t)
        /\ todo' = todo \ {t}
        /\ workers' = [workers EXCEPT ![w] = WithTask(workers[w], t)]
        /\ sending' = [task |-> t, worker |-> w, session |-> workers[w].session]
    BY DEF DispatchAssign, boardVars, graphVars, envVars
  <1>2. Known(w) /\ workers[w].alive /\ workers[w].task = None /\ workers[w] \in WorkerInfo
    <2>1. Idle(w)
      BY DEF DispatchAssign, select_worker, get_idle_workers
    <2> QED BY <2>1 DEF Idle, Alive, Known, Inv, Types
  <1>3. /\ workers' \in [Workers -> WorkerInfo \cup {None}]
        /\ \A v \in Workers \ {w} : workers'[v] = workers[v]
        /\ workers'[w] \in WorkerInfo /\ workers'[w].session = workers[w].session
        /\ workers'[w].task = t
    <2>1. t \in Tasks \cup {None} /\ workers[w] \in WorkerInfo
      BY <1>2
    <2>2. /\ WithTask(workers[w], t) \in WorkerInfo
          /\ WithTask(workers[w], t).session = workers[w].session
          /\ WithTask(workers[w], t).task = t
      BY <2>1, InfoShapes
    <2> QED BY <1>1, <2>2 DEF Inv, Types
  <1>4. /\ sending' \in Prompt /\ sending' # None
        /\ sending'.task = t /\ sending'.worker = w /\ sending'.session = workers[w].session
    <2>1. workers[w].session \in Sessions
      BY <1>2 DEF WorkerInfo
    <2>2. sending' \in Prompt
      BY <1>1, <2>1 DEF Prompt
    <2> QED BY <1>1, <2>2
  <1>5. \A v \in Workers : Known(v)' <=> Known(v)
    BY <1>2, <1>3 DEF Known
  <1>6. Types'
    <2>1. \A v \in Workers : Known(v)' => workers'[v].session \in 1 .. spawned
      BY <1>3, <1>5, <1>2 DEF Inv, Types
    <2>2. todo' \in SUBSET Tasks
      BY <1>1 DEF Inv, Types
    <2> QED BY <1>1, <1>3, <1>4, <2>1, <2>2 DEF Inv, Types
  <1>7. PhaseInv'
    BY <1>1 DEF Inv, PhaseInv, has_task
  <1>8. DependencyInv'
    <2>1. edges[t] \subseteq merged
      BY <1>1 DEF is_ready, Inv, DependencyInv
    <2> QED BY <1>1, <1>4, <2>1 DEF Inv, DependencyInv, MergedDepsAreRemembered, has_task
  <1>9. ExclusionInv'
    <2>1. \A u \in Tasks : (has_task(u)' <=> has_task(u)) /\ (Holds(u)' <=> Holds(u))
      BY <1>1 DEF has_task, Holds, Owned
    <2>2. ASSUME ~replaced, NEW u \in Tasks, Holds(u)
          PROVE  /\ board[u].assignee # w
                 /\ WorksOn(board[u].assignee, board[u].session, u)'
      <3>1. WorksOn(board[u].assignee, board[u].session, u)
        BY <2>2 DEF Inv, ExclusionInv
      <3>2. board[u].assignee # w
        BY <1>2, <3>1 DEF WorksOn
      <3> QED BY <1>1, <1>3, <1>5, <3>1, <3>2 DEF WorksOn
    <2>3. WorksOn(sending.worker, sending.session, sending.task)'
      BY <1>2, <1>3, <1>4, <1>5 DEF WorksOn
    <2>4. ~replaced => \A v, x \in Workers : Known(v)' /\ Known(x)' /\ v # x =>
                                     workers'[v].session # workers'[x].session
      <3>1. \A v \in Workers : Known(v)' => Known(v) /\ workers'[v].session = workers[v].session
        BY <1>3, <1>5
      <3> QED BY <3>1, SessionsDiffer
    <2>5. pc' # "cleanup"
      BY <1>1
    <2> QED BY <1>1, <1>4, <2>1, <2>2, <2>3, <2>4, <2>5 DEF Inv, ExclusionInv
  <1> QED BY <1>6, <1>7, <1>8, <1>9 DEF Inv

\* The prompt was taken: the board now has what the pool had.
LEMMA SentStep ==
    ASSUME Inv, DispatchSent
    PROVE  Inv'
  <1> USE OrchestratorAssumption, NoneIsNoRecord
  <1> DEFINE t == sending.task
             w == sending.worker
             x == sending.session
             e == assigned(board[t], w, x)
  <1>1. /\ UNCHANGED <<edges, completed, merged, workers, owner, clears, spawned, replaced, pc,
                       booted, todo>>
        /\ pc = "dispatch" /\ sending # None /\ sending' = None
        /\ board' = IF has_task(t) THEN [board EXCEPT ![t] = e] ELSE board
    BY DEF DispatchSent, UpdateEntry, poolVars, graphVars, envVars
  <1>2. t \in Tasks /\ w \in Workers /\ x \in Sessions
    BY <1>1 DEF Inv, Types, Prompt
  <1>3. has_task(t) => /\ e \in TaskEntry /\ e.session = x /\ e.assignee = w
                       /\ e.status = "Assigned"
    <2>1. has_task(t) => board[t] \in TaskEntry
      BY <1>2 DEF has_task, Inv, Types
    <2> QED BY <1>2, <2>1, EntryShapes
  <1>4. edges[t] \subseteq merged
    BY <1>1 DEF Inv, DependencyInv
  <1>5. ~replaced => WorksOn(w, x, t) /\ \A u \in Tasks : Holds(u) => board[u].assignee # w
    BY <1>1 DEF Inv, ExclusionInv
  <1> HIDE DEF t, w, x, e
  <1>6. /\ board' \in [Tasks -> TaskEntry \cup {None}]
        /\ \A u \in Tasks : \/ board'[u] = board[u]
                            \/ u = t /\ has_task(t) /\ board'[u] = e
    <2>1. board \in [Tasks -> TaskEntry \cup {None}]
      BY DEF Inv, Types
    <2>2. CASE has_task(t)
      BY ONLY <1>1, <1>2, <1>3, <2>1, <2>2
    <2>3. CASE ~has_task(t)
      BY ONLY <1>1, <2>1, <2>3
    <2> QED BY <2>2, <2>3
  <1>7. Types'
    BY <1>1, <1>6 DEF Inv, Types, Known
  <1>8. PhaseInv'
    <2>1. pc' = "dispatch" /\ booted' /\ sending' = None
      BY <1>1 DEF Inv, PhaseInv
    <2>2. \A u \in Tasks : has_task(u) => has_task(u)'
      BY <1>3, <1>6 DEF has_task
    <2>3. todo' \subseteq Tasks /\ \A u \in todo' : has_task(u)
      BY <1>1 DEF Inv, PhaseInv, Types
    <2> QED BY <2>1, <2>2, <2>3 DEF PhaseInv
  <1>9. DependencyInv'
    BY <1>1, <1>4, <1>6 DEF Inv, DependencyInv, MergedDepsAreRemembered, has_task
  <1>10. ExclusionInv'
    <2>1. \A u \in Tasks : Holds(u)' =>
              \/ Holds(u) /\ board'[u] = board[u]
              \/ u = t /\ has_task(t) /\ board'[u] = e
      BY <1>6 DEF Holds, Owned, has_task
    <2>2. \A u \in Tasks : has_task(u)' /\ board'[u].status = "Pending" => board'[u].session = None
      BY <1>3, <1>6 DEF Inv, ExclusionInv, has_task
    <2>3. \A a, b, c : WorksOn(a, b, c)' <=> WorksOn(a, b, c)
      BY <1>1 DEF WorksOn, Known
    <2>4. ASSUME ~replaced, NEW u \in Tasks, Holds(u)'
          PROVE  WorksOn(board[u].assignee, board[u].session, u)'
      BY <1>3, <1>5, <2>1, <2>3, <2>4 DEF Inv, ExclusionInv
    <2>5. ASSUME ~replaced, NEW u \in Tasks, NEW v \in Tasks, Holds(u)', Holds(v)',
                 board'[u].assignee = board'[v].assignee
          PROVE  u = v
      BY <1>3, <1>5, <2>1, <2>5 DEF Inv, ExclusionInv
    <2>6. ~replaced => \A a, b \in Workers : Known(a)' /\ Known(b)' /\ a # b =>
                                     workers'[a].session # workers'[b].session
      BY <1>1 DEF Inv, ExclusionInv, Known
    <2>7. pc' # "cleanup" /\ sending' = None /\ replaced' = replaced
      BY <1>1
    <2> QED BY <2>2, <2>4, <2>5, <2>6, <2>7 DEF ExclusionInv
  <1> QED BY <1>7, <1>8, <1>9, <1>10 DEF Inv

\* Eviction drops entries, and pruning only tasks that none depends on.
LEMMA BoundsStep ==
    ASSUME Inv, GraphInv, apply_bounds
    PROVE  Inv'
  <1> USE OrchestratorAssumption, NoneIsNoRecord
  <1>1. /\ UNCHANGED <<edges, merged, workers, owner, clears, spawned, replaced, booted, todo,
                       sending>>
        /\ pc = "bounds" /\ pc' = "idle"
        /\ board' = [t \in Tasks |-> IF t \in Evicted THEN None ELSE board[t]]
    BY DEF apply_bounds, poolVars, envVars
  <1>2. \A t \in Tasks : board'[t] = board[t] \/ board'[t] = None
    BY <1>1
  <1>3. PICK gone \in SUBSET {t \in completed : get_dependents(t) = {}} :
            completed' = completed \ gone
    BY DEF apply_bounds, PruneCompleted
  <1>4. Types'
    <2>1. board' \in [Tasks -> TaskEntry \cup {None}]
      BY <1>1 DEF Inv, Types
    <2> QED BY <1>1, <1>3, <2>1 DEF Inv, Types, Known
  <1>5. PhaseInv'
    BY <1>1 DEF Inv, PhaseInv
  <1>6. DependencyInv'
    <2>1. \A t \in Tasks : has_task(t)' /\ board'[t].session # None =>
                               has_task(t) /\ board'[t].session = board[t].session
      BY <1>2 DEF has_task
    <2>2. ASSUME NEW t \in Tasks, NEW d \in edges[t], d \in merged
          PROVE  d \in completed'
      <3>1. d \in completed /\ d \in Tasks
        BY <2>2 DEF Inv, Types, DependencyInv, MergedDepsAreRemembered
      <3>2. t \in get_dependents(d)
        BY <3>1 DEF get_dependents, GraphInv
      <3> QED BY <1>3, <3>1, <3>2
    <2>3. completed' \subseteq merged
      BY <1>3 DEF Inv, DependencyInv
    <2> QED BY <1>1, <2>1, <2>2, <2>3, DependenciesKept DEF Inv
  <1>7. ExclusionInv'
    <2>1. \A t \in Tasks : Holds(t)' => board'[t] = board[t]
      BY <1>2 DEF Holds, Owned, has_task
    <2>2. \A t \in Tasks : has_task(t)' /\ board'[t].status = "Pending" => board'[t].session = None
      BY <1>2 DEF Inv, ExclusionInv, has_task
    <2> QED BY <1>1, <2>1, <2>2, Released DEF Inv
  <1> QED BY <1>4, <1>5, <1>6, <1>7 DEF Inv

-----------------------------------------------------------------------------
(* The theorems *)

\* Every step keeps the invariant.
LEMMA NextInv == Inv /\ GraphInv /\ [Next]_vars => Inv'
  <1> SUFFICES ASSUME Inv, GraphInv, [Next]_vars PROVE Inv'
    OBVIOUS
  <1>1. CASE UNCHANGED vars
    <2>1. UNCHANGED <<board, edges, completed, merged, workers, owner, sending, todo, clears,
                      spawned, replaced, pc, booted>>
      BY <1>1 DEF vars, boardVars, poolVars, loopVars, graphVars, envVars
    <2>2. Types' /\ PhaseInv'
      BY <2>1 DEF Inv, Types, PhaseInv, Known, has_task
    <2>3. DependencyInv'
      BY <2>1 DEF Inv, DependencyInv, MergedDepsAreRemembered, has_task
    <2>4. ExclusionInv'
      BY <2>1 DEF Inv, ExclusionInv, WorksOn, Holds, Owned, Known, has_task
    <2> QED BY <2>2, <2>3, <2>4 DEF Inv
  <1>2. ASSUME NEW t \in Tasks, add_task(t) \/ \E d \in Tasks : add_dependency(t, d) PROVE Inv'
    BY <1>2, AddTaskStep
  <1>3. CASE process_event
    BY <1>3, EventStep
  <1>4. CASE Loop \/ run
    BY <1>4, ReconcileStep, PoolSteps, ClearStep, QuietStep, GiveUpStep, AssignStep, SentStep,
       BoundsStep DEF Loop
  <1>5. ASSUME NEW killed \in SUBSET Sessions, shutdown(killed) PROVE Inv'
    BY <1>5, ShutdownStep
  <1>6. ASSUME NEW s \in Sessions, SessionDies(s) \/ handle_worker_death(s) PROVE Inv'
    BY <1>6, PoolSteps, QuietStep
  <1> QED BY <1>1, <1>2, <1>3, <1>4, <1>5, <1>6 DEF Next

\* The invariant holds in every behaviour.
LEMMA Invariance == Spec => []Inv
  BY InitInv, NextInv, GraphInvariance, PTL DEF Spec

\* Whatever dependencies add_task and add_dependency are given, in whatever
\* order, the graph has no cycle: no tasks wait for each other.
THEOREM GraphIsAcyclic == Spec => []~has_cycle(edges)
  <1>1. GraphInv => ~has_cycle(edges)
    BY DEF GraphInv
  <1> QED BY <1>1, GraphInvariance, PTL

\* A task that dispatch_ready_tasks gave to a worker had all its dependencies
\* merged: is_ready reads completed_tasks, which holds merged tasks only, and
\* apply_bounds takes from it no task that another depends on.
THEOREM DependenciesMergeFirst == Spec => []PrerequisitesFirst
  <1>1. Inv => PrerequisitesFirst
    BY DEF Inv, DependencyInv, PrerequisitesFirst, Owned
  <1> QED BY <1>1, Invariance, PTL

\* apply_bounds never forgets a merged task that another depends on, whatever
\* the limits and however many tasks merge.
THEOREM MergesAreRemembered == Spec => []MergedDepsAreRemembered
  <1>1. Inv => MergedDepsAreRemembered
    BY DEF Inv, DependencyInv
  <1> QED BY <1>1, Invariance, PTL

\* No session has two tasks of the board, until a spawn overwrites the record
\* of a worker: the assignment engine takes workers without a task only, and
\* reconciliation clears none that is at work.
THEOREM OneTaskPerSession == Spec => []SessionsAreExclusive
  <1>1. Inv => SessionsAreExclusive
    <2> SUFFICES ASSUME Inv, ~replaced, NEW t \in Tasks, NEW u \in Tasks, Owned(t), Owned(u),
                        t # u, board[t].session # None, board[t].session = board[u].session
                 PROVE  FALSE
      BY DEF SessionsAreExclusive, Exclusive
    <2>1. Holds(t) /\ Holds(u)
      BY DEF Holds
    <2>2. /\ WorksOn(board[t].assignee, board[t].session, t)
          /\ WorksOn(board[u].assignee, board[u].session, u)
          /\ board[t].assignee # board[u].assignee
      BY <2>1 DEF Inv, ExclusionInv
    <2>3. /\ board[t].assignee \in Workers /\ board[u].assignee \in Workers
          /\ Known(board[t].assignee) /\ Known(board[u].assignee)
          /\ workers[board[t].assignee].session = workers[board[u].assignee].session
      BY <2>2 DEF WorksOn
    <2> QED BY <2>2, <2>3, SessionsDiffer
  <1> QED BY <1>1, Invariance, PTL
=============================================================================
