# TLA+ specifications of Brehon

Brehon runs AI coding agents on one machine: it stores what happens in an event
log, hands tasks to worker sessions, reviews the results with panels of
reviewers and merges them. These modules specify the parts whose correctness
depends on interleavings, leases, failures and restarts. TLC checks them on small
instances; TLAPS proves every safety property those runs check for every
instance. `PROJECT.json` maps every definition to the lines it models and lists
the runs, the hazards and the theorems.

## 1. The system

| Part | Crate | Lines | What it does | Module |
| --- | --- | --- | --- | --- |
| Event store | `brehon-store-fjall` | 7.5k | log, idempotency keys, queue, runs, views and recovery over one LSM store | `EventLog`, `LeaseQueue`, `RunStore`, `Views` |
| Orchestrator | `brehon-orchestrator` | 7k | board, dependencies, worker pool, dispatch, reconciliation, continuation | `Orchestrator`, `RunRepair` |
| Review | `brehon-review` | 3.8k | review queue, panels, rounds, verdicts | `ReviewCoordinator` |
| Supervisor | `brehon-supervisor` | 8k | follows the log, nudges stuck agents, budgets, drain | planned |
| Git | `brehon-git` | 5.6k | worktrees, merges, recovery of interrupted merges | planned |
| MCP tools | `brehon-mcp` | 45k | tools agents call; tasks, review rounds and integration in JSON files under lock files | `FileLock`, `Verification`, `Integration` |
| Mux | `brehon-mux` | 34k | panes, message dispatch to agents | planned in part |
| TUI, CLI, terminal | `brehon-tui`, `brehon-cli`, `brehon-pty`, `brehon-recording`, `ghostty_vt*` | 86k | drawing, key handling, command line, terminal I/O | no |
| Adapters and agents | `brehon-adapter-*`, `brehon-native-agent`, `brehon-acp`, `brehon-protocol` | 41k | vendor protocols, model calls | no |
| Daemon and runtime | `brehon-daemon`, `brehon-host`, `brehon-runtime` | 5.6k | processes, sockets, signals | no |
| Types, ports, configuration and the rest | `brehon-types`, `brehon-ports`, `brehon-config`, `brehon-doctor`, ... | 35k | declarations, parsing, diagnostics | types the modules use |

How they interact: every part writes events to the log (`append`,
`append_atomic`) and follows it with a cursor (`stream`). Review requests go into
the lease queue together with their event (`append_and_enqueue`); the review
coordinator claims, reviews and acknowledges them. The orchestrator keeps its
board in memory, assigns tasks to sessions of its pool, and repairs the durable
runs, on which agents hold leased claims, in a reconciliation pass per tick.

A running installation is a run loop and one MCP server process per agent. Those
processes share JSON files: a task per file, a directory with `state.json` and
round directories per reviewed task, panel leases. Lock files serialise the
handlers, one lock per task, one per review and one for the repository; several
writers do not take the review lock. A worker hands its task over, the
supervisor or the sweep of the run loop requests a review, reviewers submit, and
the supervisor integrates the approved commits into the branch of the epic.

## 2. The modules

    AppendOnlyLog <---refined by--- EventLog        Views
    LeaseQueue <---extends--- ReviewCoordinator
    RunStore   <---extends--- RunRepair             Orchestrator
    FileLock       Integration       Verification <---extends--- VerificationRounds
    RunStoreProofs, ReviewCoordinatorProofs, EventLogProofs, ViewsProofs,
    OrchestratorProofs, FileLockProofs, IntegrationProofs,
    VerificationProofs                                              (theorems)
    MCRunStore, MCOrchestrator, MCRunRepair, MCReviewCoordinator,
    MCFileLock, MCIntegration, MCVerification                       (instances)

Operators and actions carry the name of the function they model. A definition
that begins with "Mutant" in its comment is a wrong variant of the definition
after it; no specification uses it, and each is known to violate the property
`PROJECT.json` pairs it with.

**RunStore** (`run_store.rs`, `run.rs`). State: the run records, the marker of a
(task, role) lane and the index of active runs. One action per mutating call:
`create_run` (fresh or already running), `claim_run`, `renew_claim`,
`record_continuation`, `release_claim`, `complete_run`, `fail_run`,
`queue_retry`, `start_retry_attempt`. `mutation_lock` and one synced batch make
each call a single step; a call that returns an error changes nothing. The
caller's claim generation is arbitrary, so late and confused callers are
included. `promised` and `retryOf` are history: when the last claim of a lane
would end, and which run an attempt was started from.

**LeaseQueue** (`queue.rs`, the claims part of `recovery.rs`). State: rows,
`lease:` and `claimed:` keys and the lease clock, which restarts at zero with a
new epoch in every process. `claim_lock` makes queue operations atomic; recovery
runs before the store is shared and removes marker and lease in two writes, with
a crash possible between them. A lease may be unreadable from the start.

**EventLog** (`store.rs`). State: the hot and the archived log, the stored and the
in-memory sequence number, keys, rows. An append reserves ids, then commits or
rolls the counter back; readers, key expiry and crashes come in between.
`stream()` is a step that fixes its range and one step per key it reads. The
reader's cursor moves as `Orchestrator::tick` moves it. **AppendOnlyLog** is
what the port promises: a sequence that only grows at its end. `EventLog` refines
it with `events <- AllEvents`, the archived and hot events in order.

**Views** (`views.rs`, the rest of `recovery.rs`, opening in `store.rs`). State: task and
review views, the watermark, and how far an opening store has come. A function
per event kind gives the new view. Opening rebuilds when watermark and log differ,
then the recovery scan resets orphaned tasks and undecided merges, write by write.

**Orchestrator** (`orchestrator.rs`, `task_board.rs`, `dependency_graph.rs`,
`worker_pool.rs`, `assignment.rs`, `reconciler.rs`). State: the board, the
dependency graph in both directions, completed ids, worker records, sessions, assignment history, and the phase of
the tick. The phases are actions; between them, at each spawn and each prompt,
sessions die and death notices arrive. The run store is left out here.
Simplifications: a worker's death and the spawn of its replacement are one step
(the pool is borrowed mutably throughout); an event is drawn when it is read;
tasks and dependencies are added before the loop starts, as `add_task` and
`add_dependency` borrow the orchestrator that `run` holds. The depth-first search of
`has_cycle` is abstracted to what it answers, and `add_task`, which adds its
dependencies one by one, to the set of those that are not refused.

**RunRepair** (`orchestrator_reconciliation.rs`, `retry.rs`, `reconciler.rs`,
`continuation.rs`, `orchestrator_continuation.rs`). `RunStore` together with the
passes of a tick: snapshot, plan, one store call per step, and an error that is
not a stale claim gives up the plan and the tick. Then the continuation pass
prompts and records. Agents are an environment: the repository has no other
production caller of `claim_run`, so claiming, working and dying agents are
marked external. Board and pool change between passes only, since the
orchestrator owns them.

**ReviewCoordinator** (`brehon-review`). `LeaseQueue` together with its consumer:
a tick judges complete rounds (from `ThresholdEvaluator::evaluate`), finishes
reviews from the last index, acknowledges and announces approvals, polls the
lanes and starts one review. Each await is a step, each `?` an exit that forgets
the rest of the tick. What the code really does is kept: leases are never
renewed, so a request may be under review twice; a new round keeps the panel's
submissions of the round before; negative verdicts never acknowledge. The panel
is a nonempty constant: with no default reviewers configured `start_review` only
reports an error.

**FileLock** (`task_actions/locking.rs`, the lock of `verification/state.rs`).
State: each lock's file with its creator and the age of its mtime, who holds which
guard, who waits how long, and the heartbeats. Looking at the age and removing the
file are two steps, as in `clear_stale_lock`; a guard removes the file by path,
whoever created it. Task and repository locks are touched by a heartbeat, review
locks are not. A handler may wait for a lock while it holds another (`Nests`).

**Integration** (`action_integrate.rs`, `integration_state.rs`,
`action_abort_integration.rs`, `epic.rs`). State: per subtask the status, the
recorded version, its review requests and the persisted phase and base of the
attempt; per epic the branch, the pick in progress and the index of the one shared
worktree. `integrate` is a call with its own copy of the state: `next_state`
decides, every git command and every write of the task is a step, and the process
may die between them. The supervisor's git commands are external actions. git
itself is abstracted to what the handlers ask of it: a pick applies, conflicts or
comes out empty, and `Covers` says which commits make another one empty.

**Verification** (`verification/actions.rs`, `state.rs`, `tool.rs`,
`review_bridge.rs` and the task handlers that meet a review). State: the files of
one task, the handler that holds the review lock with the list of writes it has
still to make (`op.todo`), a request that waits for the lock, the cleanup
integration does without it, and the sweep with the status it read. Taking the
lock decides the plan; each write is a step, and the handler may end before any
of them. A submission whose conclusion is refused is taken back. The round a
verdict is about is evaluated from the submissions on disk. Simplifications: other
tasks appear as one Boolean (the implicit panel is leased elsewhere); a low score
counts as a verdict to revise; reviewers submit only after the request is written;
one request waits at a time; a write that fails ends the handler, also where the
code only logs it; where an orphaned `in_review` task returns to depends on
feedback text and is a free choice; deleting `state.json` and the status write of
`execute_progress` are one step. **VerificationRounds** adds the count of rounds the
sweep has started in a row.

## 3. What TLC checks

| Run | Properties | Instance |
| --- | --- | --- |
| `run_store` | `OneActiveRunPerLane`, `RetryConsumedOnce`, `ClaimsNeverOverlap`, `TerminalIsFinal` | 3 runs, 2 lanes, generations to 2, time to 2, with symmetry |
| `lease_queue` | `SingleWinner`, `RowsLeaveByLiveAck`, `LiveClaimsKept` | 2 items, 3 rows (duplicates), 3 claims, 2 restarts |
| `event_log` | `RequestsAreQueued`, `KeysAppendOnce`, `RefinesAppendOnlyLog`, `StreamSkipsNoSingles`, `EventsReachReaders` | 3 events, batches of 2, 1 key, 1 crash, 1 expiry |
| `views` | `OpenedViewsFollowLog`, `OpenedStoreIsClean` | every sequence of 3 events of 12 kinds, 1 staged update, 2 crashes |
| `orchestrator` | `SessionsAreExclusive`, `PrerequisitesFirst`, `MergedDepsAreRemembered` | 2 tasks that depend on each other (one of the two edges is refused), 2 workers, 3 sessions, 2 events, 1 death, 1 notice |
| `orchestrator_live` | `StaleAssignmentsAreCleared`, `ReadyTasksAreDispatched` | 2 tasks added without dependencies, 1 death, 1 failed prompt |
| `run_repair` | `WorkIsNotTaken`, `OrphansAreRepaired`, `MergedTasksHaveNoRuns`, `QueuedRetriesEnd` | 1 lane, 2 runs (one retry), 2 agents |
| `review` | `ApprovedOnce`, `ApprovalIsLast`, `RequestsStayQueued`, `PanelsAreTornDown` | 2 requests on 2 lanes, 2 claims, 2 reviewers, 3 opinions, 2 rounds, 1 failure, 1 crash |
| `file_lock` | `HoldersAreExclusive`, `LiveLocksStayFresh`, `AttemptsEnd`, `OrphansAreReclaimed` | 2 processes, 2 task locks that nest both ways, 1 review lock, 1 crash |
| `integration` | `ClosedIsApplied`, `NoCommitTwice`, `IntegratedWasApproved`, `StagedWorkIsKept`, `ApprovedIsClosed` | 2 subtasks, 3 commits, one of which makes another empty, 1 crash, 2 aborts |
| `verification` | `ApprovalsAreUnanimous`, `ReviewsEnd`, `ReadyTasksAreReviewed`, `ClosedReviewsAreCleared` | 2 reviewers, 2 rounds, cycles of 1 round, 2 troubles (interventions, early ends, turnover) |
| `review_rounds` (violation) | `RoundsAreCapped` | 2 reviewers, limit of 2 rounds, 3 rounds, no trouble |

The type invariants of `RunStore`, `RunRepair`, `LeaseQueue`, `Views`, `FileLock` and
`Integration` are part of the inductive invariant of their proofs. The other
proofs need less; the type invariants of those modules hold on the instances above
and are not repeated as properties of the runs.

`review_rounds` shows a disagreement between the code and the user guide, which
says that `max_review_rounds` caps the rounds of a task before it escalates to a
human. A worker that reports progress on rework deletes `state.json`
(`clear_obsolete_review_state_for_resumed_work`), the next request finds no state
and starts a new epoch, and so the sweep seats a third round under a limit of two
with no supervisor involved. The finding in `PROJECT.json` quotes the lines.

Four more disagreements show in the models; the hazards list them, and no
property says the opposite:

- `stream()` reads up to the in-memory counter while a batch commits: the reader
  may get its second event and never the first (`EventLog`).
- `AgentDied` unassigns every task of the worker's history, also a merged one,
  which is dispatched again; nothing clears `Blocked` when a dependency merges
  (`Orchestrator`).
- The continuation prompt is sent before the turn is recorded, so a failed record
  is not counted (`RunRepair`).
- A round with all its submissions that no verdict can close (too few approvals,
  or the submission of a replaced member) is judged `collecting` at every timeout;
  the task alternates between two statuses for ever (`Verification`).

**Why the bounds are enough.** Each instance is the smallest in which the hazard it
is about occurs. Two lanes and three runs let a retry race a fresh run while
another lane is disturbed. Two rows of one item and three claims give a late
holder, its successor and a third claim after a restart in mid-recovery. A batch
of two is the shortest that can be seen in part, and with the first event left by
an older version three events fill the log. Two workers are the fewest for
which a replacement (always index 0) can take another worker's record. One retry
is enough for a pass to find a queued, a started and a failed attempt on one lane.
Two claims are what it takes to review one request twice or two at once, and
the three opinions give the three outcomes of a round. Two processes are the
fewest that can wait for each other's task locks, or remove one stale file twice;
the stale age of three exceeds heartbeat and timeout as in the code, and a timeout
of two lets a file get stale during a wait. Two subtasks
are what it takes to meet a foreign pick in the worktree, two versions to make an
approval stale. Two reviewers with one live at the start let a panel be smaller
than the pool and a member be replaced; cycles of one round and epochs of two make
both limits bite in the second round; with two troubles a handler can die and the
supervisor or another death meet what it left. Generations, attempts
and turns saturate far above anything reachable, so their bounds only cut off
behaviours. A violation that needs more of any of these is out of TLC's sight,
and ruled out by the proofs where section 4 says so.

**Deadlock** is checked for the orchestrator, the repairs, the review coordinator,
the locks and the verification rounds, whose loops, clock or sweep never stop by
themselves. The stores have no loop, and integration ends when every subtask is
closed: with bounded time, ids and aborts they may run out of steps, so their
configurations switch it off.

**Fairness.** Weak fairness of what the code schedules by itself, with one
exception that is a condition on the supervisor.
`Orchestrator`: `run` repeats the tick until shutdown (`Loop`). `RunRepair`: the
same loop repeats its passes (`Pass`); agents are never assumed to act.
`EventLog`: a reader polls in a loop, and a batch handed to the disk is answered,
with success or failure. `FileLock`: the retry loop of a waiter and the heartbeat
task go on and time passes; nobody is assumed to ask for a lock or to release one.
`Integration`: a handler that has begun goes on unless its process dies, and
(strong fairness) the supervisor resolves conflicts that keep coming; that they
call `integrate` again is a premise of `ApprovedIsClosed`. `Verification`: a handler
with the lock goes on, a waiting request gets the lock (its wait is bounded, and
the sweep asks again), the run loop sweeps every minute (`run/mod.rs`) and the
timeout of a round passes; workers, reviewers and the supervisor may never act.
Safety runs assume none.

**Conditions in the properties.** `SessionsAreExclusive` is stated until a
replacement overwrites a live worker's record: after that the code gives one
worker two tasks. `KeysAppendOnce` is stated until a key expires: `store.rs:831`
deletes keys by age, where `event_store.rs:31` promises no limit.
`OpenedViewsFollowLog` is stated while nothing is archived and no update is
staged: a rebuild replays the hot log only, and task views of archived events
disappear. `StreamSkipsNoSingles` and `EventsReachReaders` are stated until a batch
of several events is begun. `RequestsStayQueued` excepts approvals whose append
failed after the ack. `PanelsAreTornDown` excepts sessions whose kill failed.
`HoldersAreExclusive` excepts locks a holder of which has crashed, where two
waiters may both remove the old file, and locks held beyond the stale age, which
only review locks can be. `IntegratedWasApproved` excepts tasks whose status
changed during an attempt, which `integrate` does not look at again.
`StagedWorkIsKept` excepts a forced call for another subtask. `ApprovedIsClosed`
excepts stale reviews and changes that reached the branch by another commit, whose
verification fails for ever. `ReviewsEnd` excepts tasks the supervisor blocked and
the inconclusive rounds above. `ReadyTasksAreReviewed` speaks of tasks for which
reviewers are live and the panel is free.

## 4. What is proved

Assumptions: the named `ASSUME`s of `RunStore`, `RunRepair`, `LeaseQueue`,
`ReviewCoordinator`, `EventLog`, `Views`, `Orchestrator`, `FileLock`, `Integration`
and `Verification` (the bounds are natural numbers, `None` is not a value, the
heartbeat is shorter than the stale age), which TLC evaluates in every run of a
module that extends them.

`RunStoreProofs`, on `RunStore` and `RunRepair`, for any sets of runs, lanes, owners
and sessions and any bounds:

- `TypeCorrect`, `LanesAreExclusive` (`OneActiveRunPerLane` and
  `IndexesMatchRecords`), `RetriesConsumedOnce`, `TerminalRecordsAreFinal`,
  `LeasesNeverOverlap`.
- Inductive invariant `Inv == TypeOK /\ IndexInv /\ PromiseInv /\ RetryInv`.
  `OneActiveRunPerLane` is not inductive: `create_run` looks at the marker only,
  so the markers must be known to be exact (`IndexInv`). `ClaimsNeverOverlap`
  needs that a lane without a claimed run promises nothing beyond now and that a
  claimed run's lease is what is promised (`PromiseInv`). `RetryConsumedOnce`
  needs that both ends of a chain are stored (`RetryInv`).
- Argument: all operations but one go through `commit_record`. Lemmas about one
  such write (`WriteIndexes`, `WritePromise`, `WriteRetry`) are proved once, and
  each operation is shown to be such a write (`Writes`); `start_retry_attempt`,
  which writes two records, and the clock are proved apart.
- With the reconciliation passes: `RepairsKeepTheStore` (every step of `RepairSpec`
  is a step of the store or leaves it alone, so its properties stay), and
  `AgentsKeepTheirWork` (`WorkIsNotTaken`).
- Inductive invariant `Inv /\ PassInv`. A pass acts on a snapshot, so what its plan
  rests on has to survive what agents do in between: under an unchanged generation
  a claimed run was claimed by the same owner before, so the claim a planned repair
  may still end is the one it saw, of a session that is gone or of a task that is
  over (`SoundPlan`), or one the reconciler took itself (`SoundRepair`). Lemmas show
  that a plan is sound when made, stays so through every call on the store, and that
  each call a pass makes under it is harmless.

`ReviewCoordinatorProofs`, first on `LeaseQueue`, for any lanes, items, claims and
bounds:

- `TypeCorrect`, `ClaimsHaveOneWinner` (`SingleWinner`), `RowsAreNotLost`
  (`RowsLeaveByLiveAck`), `LiveClaimsAreKept` (`LiveClaimsKept`).
- Inductive invariant `Inv == TypeOK /\ LeasesAreMarked /\ EpochInv`. In an open
  store every readable lease is the one its marker names, so two leases of an item
  are one; while recovery runs every lease has an older epoch, so none is live.
- `LiveClaimsKept` also needs that an ack of a live claim is one that counts: in an
  open store a lease is on an item that still has a row (`WorkInv`), and the ack
  finds a first such row because a nonempty set of ids has a least one
  (`LeastNumber`).

Then on `ReviewCoordinator`, for any requests, reviewers, opinions, policy, failures
and crashes:

- `RequestsApprovedOnce` (`ApprovedOnce`), `NothingAfterApproval`
  (`ApprovalIsLast`), `RequestsAreNotLost` (`RequestsStayQueued`),
  `SessionsEndWithReviews` (`PanelsAreTornDown`).
- Inductive invariant `Inv /\ ReviewInv`. A request has exactly one row until it is
  acknowledged and none afterwards, and a lease only while it has a row
  (`RequestInv`). Leases are not renewed, so a request may be under review twice;
  that this is harmless is `ActiveInv`: of several reviews of a request only the
  last has a live lease and only the first has opinions, and no review goes on
  after the acknowledgement. `PhaseInv`, `VerdictInv` and `PanelInv` tie the step
  of the tick, the announced verdicts and the sessions to the active reviews.

`EventLogProofs`, for any payloads, keys, readers, batch sizes and bounds:

- `ImplementsPort` (`RefinesAppendOnlyLog`), `QueuedRequests`, `KeysOnce`
  (`KeysAppendOnce`), `SinglesAreStreamed` (`StreamSkipsNoSingles`).
- Inductive invariant `Inv == LogInv /\ KeyInv /\ QueueInv /\ ReaderInv`. The stored
  ids, hot and archived, are exactly those up to the stored sequence number, and the
  counter is ahead of it by the events of the append under way (`LogInv`). From this
  a commit appends its batch at the end of `AllEvents`, and archiving, roll-back and
  reopening leave `AllEvents` as it is: the refinement. A key that has not expired
  names its one event, and the key of an append under way is new (`KeyInv`). A stream
  has read all ids from the cursor up to its next one, except perhaps the very last
  of its range, which was not committed when it looked (`ReaderInv`); the cursor then
  stops before it.

`ViewsProofs`, for any tasks, reviews, agents, event kinds and bounds:

- `OpenedStoresFollowTheLog` (`OpenedViewsFollowLog`), `OpenedStoresAreClean`
  (`OpenedStoreIsClean`).
- Inductive invariant `Inv == TypeOK /\ CleanInv /\ FollowInv`. Whenever
  the watermark is at the end of the log, and from the rebuild until the next event,
  the views are those of a replay, whichever orphans are reset already
  (`FollowInv`); so an opening that finds the watermark there need not rebuild. What
  the scan listed covers all that is left to clean (`CleanInv`).
- `Replay` is a recursive function over the log. That it exists, has well-typed
  values and grows with the log event by event is shown by a minimal counterexample
  (`LeastNumber` again).

`OrchestratorProofs`, for any tasks, dependencies, workers, limits and bounds:

- `GraphIsAcyclic`, `DependenciesMergeFirst` (`PrerequisitesFirst`),
  `MergesAreRemembered` (`MergedDepsAreRemembered`), `OneTaskPerSession`
  (`SessionsAreExclusive`).
- `GraphInv` is inductive by itself: the two directions of the graph agree and there
  is no cycle. Dependencies that close no cycle one by one close none together
  (`NoCycle`), so adding them in a sequence is adding the set `Accepted`.
- Inductive invariant `Inv == Types /\ PhaseInv /\ DependencyInv /\ ExclusionInv`.
  `PrerequisitesFirst` needs that the completed tasks have merged, and the same for
  the prompt under way (`DependencyInv`). `SessionsAreExclusive` is about the board,
  and the assignment engine looks at the pool: a task in a session must be the one its
  worker has in the pool, unless the worker is dead; no worker has two; the plan of a
  reconciliation clears no live worker that is at work; and the worker of a prompt
  under way has nothing on the board yet (`ExclusionInv`). Every change of the pool is
  an instance of one kind of step (`PoolStep`), which is shown to keep the invariant.

`FileLockProofs`, for any processes, locks, nesting and times:

- `Exclusion` (`HoldersAreExclusive`), `HeartbeatSuffices` (`LiveLocksStayFresh`).
- Inductive invariant `LockInv == TypeOK /\ Sound /\ Beaten /\ LiveLocksStayFresh`.
  Exclusion alone is not inductive: of an untouched lock one must know that its
  holder is the creator of the file, that the file is fresh and that nobody is
  about to remove it (`Sound`); freshness needs that a file is no older than the
  last beat of its creator (`Beaten`).

`IntegrationProofs`, for any subtasks, versions, commits, crashes and aborts:

- `ClosedStaysApplied` (`ClosedIsApplied`), `PickedOnce` (`NoCommitTwice`),
  `ApprovedVersionsOnly` (`IntegratedWasApproved`), `StagedWorkStays`
  (`StagedWorkIsKept`).
- Inductive invariant `Inv`: the pick in progress is not on the branch (`PickInv`),
  a running call works for an open task on the commits of its latest version
  (`CallInv`), the phase tells whether a task is closed (`PhaseInv`), and a task
  that did not stray is approved as long as its attempt is open (`ApprovalInv`).
- `StagedWorkIsKept` also needs that the look without probes that follows a forced
  reset is at the null phase only (`SkipInv`): a reset in `cherry_picking` has then
  looked at `CHERRY_PICK_HEAD` and found a foreign pick.

`VerificationProofs`, for any reviewers, policy and bounds:

- `UnanimousApprovals` (`ApprovalsAreUnanimous`), an action property.
- Inductive invariant `ApprovalInv`. The verdict is computed when the handler takes
  the lock, three writes before the task is approved; the invariant says that while
  an approval is among the writes left, the whole panel has approved in the newest
  round, counting the submission that is about to be written, and that no new round
  is among them. One lemma per kind of plan shows that it begins justified, one
  (`NextWrite`) that a write keeps it so.

Only model-checked: the liveness properties, which are beyond the prover
(`EventsReachReaders`, `StaleAssignmentsAreCleared`, `ReadyTasksAreDispatched`,
`OrphansAreRepaired`, `MergedTasksHaveNoRuns`, `QueuedRetriesEnd`, `AttemptsEnd`,
`OrphansAreReclaimed`, `ApprovedIsClosed`, `ReviewsEnd`, `ReadyTasksAreReviewed`,
`ClosedReviewsAreCleared`), and the violation of `RoundsAreCapped`.

## 5. What is not modelled

- Reads (`queries.rs`), migrations, the owner lock, prompts, feedback text,
  chunking, calibration, drawing, terminal and protocol adapters: I/O or
  functions of text without shared state.
- The events a repair pass appends, escalations, priorities, timestamps: no
  modelled decision reads them.
- Dead code: `PriorityQueue::renew`, `ReviewOutcome::Escalate` (never produced),
  `TaskBoard::rebuild_from_events`, `DependencyGraph::remove_task`,
  `remove_dependency` and `topological_order` (tests only).
- The owner, session and task indexes of the run store, which only answer queries.
- Of the MCP tools: configured panels, reviewers shared between panels and the
  leases of several tasks at once; creation, dependencies and reconciliation of
  task files; merging a container branch into its parent; proof bundles, research
  jobs, notifications and messages.

`PROJECT.json` lists each part with its reason, and notes on the hazards no
property covers.

## 6. Plan

1. `TaskFiles`: dependency reconciliation over several task files, with its writes
   of stale copies; `PanelLeases`: two tasks that lease and replace reviewers.
2. `MergeRecovery`: squash and lineage merges of container branches, and prepared
   merges of `brehon-git` across crashes.
3. `Supervisor` over `EventLog`: the cursor that a nudge moves, the drain that
   never polls, a failed nudge that ends the tick.
4. `MuxDispatch`: message queues and pane lifecycle of `brehon-mux`.
