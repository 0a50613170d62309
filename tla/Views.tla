------------------------------- MODULE Views -------------------------------
(***************************************************************************)
(* The materialized task and review views of the Fjall store: how they are *)
(* staged, rebuilt from the hot log when the store is opened, and cleaned  *)
(* by the recovery scan, with a crash between any two writes.              *)
(*                                                                         *)
(* append() and append_and_enqueue() never touch the views; only           *)
(* append_atomic stages updates, and then moves the views watermark to its *)
(* last event.  Opening rebuilds when the watermark differs from the last  *)
(* hot event or a view is newer than it.                                   *)
(***************************************************************************)
EXTENDS Integers, Sequences

CONSTANTS
    Task, Review, Agent, None,
    Kind,          \* the event kinds a run lets writers append
    MaxEvents,     \* bound: events appended
    MaxStaged,     \* bound: append_atomic calls with view updates
    MaxArchived,   \* bound: events archived
    MaxCrashes     \* bound: crashes

VARIABLES
    events,     \* the stored events, archived ones first
    archived,   \* how many of them are in the archive partition
    task,       \* view:task:  Task -> view or None
    review,     \* view:review:  Review -> view or None
    watermark,  \* KEY_META_VIEWS_LAST_EVENT_ID
    mode,       \* "up", or the step of FjallEventStore::new under way
    orphans,    \* tasks clean_orphaned_tasks has still to reset
    prepared,   \* tasks clean_prepared_merges has still to clear
    fresh,      \* history: nothing was written since the store was opened
    staged, crashes

stored == <<events, archived, task, review, watermark>>
vars == <<stored, mode, orphans, prepared, fresh, staged, crashes>>

-----------------------------------------------------------------------------
Event == [kind : Kind, task : Task, review : Review, agent : Agent]

TaskStatus == {"Pending", "Assigned", "InProgress", "InReview", "Approved",
               "ChangesRequested", "Merged"}

TaskView == [status : TaskStatus, assignee : Agent \cup {None},
             session : Agent \cup {None}, branch : BOOLEAN, last : Nat]

ReviewView == [task : Task \cup {None}, status : {"Pending", "InProgress", "Completed"},
               round : Nat, scores : Nat, last : Nat]

ASSUME ViewsAssumption ==
    /\ MaxEvents \in Nat /\ MaxStaged \in Nat
    /\ MaxArchived \in Nat /\ MaxCrashes \in Nat
    /\ None \notin Task \cup Review \cup Agent
    /\ None \notin TaskView /\ None \notin ReviewView

default_task_view == [status |-> "Pending", assignee |-> None, session |-> None,
                      branch |-> FALSE, last |-> 0]

default_review_view == [task |-> None, status |-> "Pending", round |-> 0,
                        scores |-> 0, last |-> 0]

OrDefault(view, default) == IF view = None THEN default ELSE view

\* The status an event gives its task; other kinds leave it alone.
TaskStatusOf ==
    [TaskAssigned |-> "Assigned", TaskCompleted |-> "InReview",
     MergeAborted |-> "InProgress", MergeCommitted |-> "Merged",
     ReviewRequested |-> "InReview", ReviewApproved |-> "Approved",
     ReviewRejected |-> "ChangesRequested",
     ReviewChangesRequested |-> "ChangesRequested"]

Verdicts == {"ReviewApproved", "ReviewRejected", "ReviewChangesRequested"}
ReviewKinds == Verdicts \cup {"ReviewRequested", "ReviewScoreReceived"}

\* The review view after event e with id n.
ReviewAfter(view, e, n) ==
    LET v == [OrDefault(view, default_review_view) EXCEPT !.last = n] IN
    IF e.kind = "ReviewRequested"
    THEN [v EXCEPT !.task = e.task, !.status = "Pending", !.round = @ + 1, !.scores = 0]
    ELSE IF e.kind = "ReviewScoreReceived"
    THEN [v EXCEPT !.status = "InProgress", !.scores = @ + 1]
    ELSE [v EXCEPT !.status = "Completed"]

\* The task view after event e with id n.
TaskAfter(view, e, n) ==
    LET v == [OrDefault(view, default_task_view) EXCEPT !.last = n] IN
    IF e.kind = "TaskCreated" THEN (IF view = None THEN v ELSE view)
    ELSE [v EXCEPT !.status = IF e.kind \in DOMAIN TaskStatusOf
                              THEN TaskStatusOf[e.kind] ELSE @,
                   !.assignee = IF e.kind \in {"TaskAssigned", "WorkerReassigned"}
                                THEN e.agent ELSE @,
                   !.branch = @ \/ e.kind = "MergePrepared"]

\* The task an event is about: a verdict finds it through the review's view.
TaskOf(reviews, e) ==
    IF e.kind = "ReviewScoreReceived" THEN None
    ELSE IF e.kind \in Verdicts
    THEN (IF reviews[e.review] = None THEN None ELSE reviews[e.review].task)
    ELSE e.task

apply_event_to_views(views, e, n) ==
    LET reviews == IF e.kind \in ReviewKinds
                   THEN [views.review EXCEPT ![e.review] = ReviewAfter(@, e, n)]
                   ELSE views.review
        t == TaskOf(reviews, e)
    IN  [review |-> reviews,
         task |-> IF t = None THEN views.task
                  ELSE [views.task EXCEPT ![t] = TaskAfter(@, e, n)]]

NoViews == [task |-> [t \in Task |-> None], review |-> [r \in Review |-> None]]

\* What the events of a log after the first skipped ones make of some views.
Replay(log, skipped, views) ==
    LET after[n \in skipped .. Len(log)] ==
            IF n = skipped THEN views ELSE apply_event_to_views(after[n - 1], log[n], n)
    IN  after[Len(log)]

\* The views those events give.
ViewsAfter(log, skipped) == Replay(log, skipped, NoViews)

\* The last id of the hot log, 0 when it is empty.
high_water_mark == IF archived = Len(events) THEN 0 ELSE Len(events)

validate_views ==
    /\ \A t \in Task : task[t] # None => task[t].last <= high_water_mark
    /\ \A r \in Review : review[r] # None => review[r].last <= high_water_mark

Orphaned(view) == view # None /\ view.status = "InProgress" /\ view.session = None

find_orphaned_tasks == {t \in Task : Orphaned(task[t])}

\* Tasks with a MergePrepared event after the first skipped ones of a log,
\* neither committed nor aborted by another.
UndecidedMerges(log, skipped) ==
    LET hot == {log[n] : n \in skipped + 1 .. Len(log)}
        tasks(kind) == {e.task : e \in {x \in hot : x.kind = kind}}
    IN  tasks("MergePrepared") \ (tasks("MergeCommitted") \cup tasks("MergeAborted"))

\* Those of the hot log whose view still has a branch.
find_prepared_merges ==
    {t \in UndecidedMerges(events, archived) : task[t] # None /\ task[t].branch}

-----------------------------------------------------------------------------
\* append and append_and_enqueue.
append(e) ==
    /\ mode = "up" /\ Len(events) < MaxEvents
    /\ events' = Append(events, e)
    /\ fresh' = FALSE
    /\ UNCHANGED <<archived, task, review, watermark, mode, orphans, prepared,
                   staged, crashes>>

\* apply_task_operation sets a status and the session that works on the task.
TaskOperation(view, status, session) ==
    [OrDefault(view, default_task_view) EXCEPT !.status = status, !.session = session]

\* append_atomic with a view update for the event's task.
append_atomic(e, status, session) ==
    /\ mode = "up" /\ Len(events) < MaxEvents /\ staged < MaxStaged
    /\ events' = Append(events, e)
    /\ task' = [task EXCEPT ![e.task] = TaskOperation(@, status, session)]
    /\ watermark' = Len(events) + 1
    /\ fresh' = FALSE
    /\ staged' = staged + 1
    /\ UNCHANGED <<archived, review, mode, orphans, prepared, crashes>>

archive_events_before(cutoff) ==
    /\ mode = "up"
    /\ archived < cutoff /\ cutoff <= MaxArchived
    /\ archived' = cutoff
    /\ fresh' = FALSE
    /\ UNCHANGED <<events, task, review, watermark, mode, orphans, prepared,
                   staged, crashes>>

Crash ==
    /\ crashes < MaxCrashes
    /\ crashes' = crashes + 1
    /\ mode' = "opening"
    /\ orphans' = {} /\ prepared' = {}
    /\ UNCHANGED <<stored, fresh, staged>>

\* Mutant: views that are already there are kept and only replayed upon.
RebuildOnTop ==
    LET views == Replay(events, archived, [task |-> task, review |-> review])
    IN  /\ mode = "opening"
        /\ watermark # high_water_mark \/ ~validate_views
        /\ task' = views.task /\ review' = views.review
        /\ mode' = "rebuilt"
        /\ UNCHANGED <<events, archived, watermark, orphans, prepared, fresh, staged, crashes>>

\* FjallEventStore::new: one batch replaces every view ...
Rebuild ==
    LET views == ViewsAfter(events, archived) IN
    /\ mode = "opening"
    /\ watermark # high_water_mark \/ ~validate_views
    /\ task' = views.task /\ review' = views.review
    /\ mode' = "rebuilt"
    /\ UNCHANGED <<events, archived, watermark, orphans, prepared, fresh, staged, crashes>>

\* ... and a second write moves the watermark.
save_views_watermark ==
    /\ mode = "rebuilt"
    /\ watermark' = high_water_mark
    /\ mode' = "scanning"
    /\ UNCHANGED <<events, archived, task, review, orphans, prepared, fresh, staged, crashes>>

ViewsAreCurrent ==
    /\ mode = "opening"
    /\ watermark = high_water_mark /\ validate_views
    /\ mode' = "scanning"
    /\ UNCHANGED <<stored, orphans, prepared, fresh, staged, crashes>>

\* Mutant: prepared merges are listed for the report and never cleaned.
ScanOrphansOnly ==
    /\ mode = "scanning"
    /\ orphans' = find_orphaned_tasks
    /\ prepared' = {}
    /\ mode' = "cleaning"
    /\ UNCHANGED <<stored, fresh, staged, crashes>>

\* RecoveryScanner::scan lists everything before it cleans anything.
Scan ==
    /\ mode = "scanning"
    /\ orphans' = find_orphaned_tasks
    /\ prepared' = find_prepared_merges
    /\ mode' = "cleaning"
    /\ UNCHANGED <<stored, fresh, staged, crashes>>

\* clean_orphaned_tasks, first write of a task: its status ...
ResetStatus(t) ==
    /\ mode = "cleaning" /\ t \in orphans
    /\ task[t].status # "Pending"
    /\ task' = [task EXCEPT ![t].status = "Pending"]
    /\ UNCHANGED <<events, archived, review, watermark, mode, orphans, prepared,
                   fresh, staged, crashes>>

\* ... second write: its assignee.
RemoveAssignee(t) ==
    /\ mode = "cleaning" /\ t \in orphans
    /\ task[t].status = "Pending"
    /\ task' = [task EXCEPT ![t].assignee = None]
    /\ orphans' = orphans \ {t}
    /\ UNCHANGED <<events, archived, review, watermark, mode, prepared, fresh,
                   staged, crashes>>

clean_prepared_merges(t) ==
    /\ mode = "cleaning" /\ orphans = {} /\ t \in prepared
    /\ task' = [task EXCEPT ![t].branch = FALSE]
    /\ prepared' = prepared \ {t}
    /\ UNCHANGED <<events, archived, review, watermark, mode, orphans, fresh,
                   staged, crashes>>

Opened ==
    /\ mode = "cleaning" /\ orphans = {} /\ prepared = {}
    /\ mode' = "up"
    /\ fresh' = TRUE
    /\ UNCHANGED <<stored, orphans, prepared, staged, crashes>>

-----------------------------------------------------------------------------
Init ==
    /\ events = <<>> /\ archived = 0
    /\ task = NoViews.task /\ review = NoViews.review
    /\ watermark = 0
    /\ mode = "up" /\ orphans = {} /\ prepared = {}
    /\ fresh = TRUE /\ staged = 0 /\ crashes = 0

Next ==
    \/ \E e \in Event : append(e)
    \/ \E e \in Event, s \in {"InProgress", "Assigned"}, a \in Agent :
            append_atomic(e, s, a)
    \/ \E c \in 1 .. Len(events) : archive_events_before(c)
    \/ Crash
    \/ Rebuild
    \/ save_views_watermark
    \/ ViewsAreCurrent
    \/ Scan
    \/ \E t \in Task : ResetStatus(t) \/ RemoveAssignee(t) \/ clean_prepared_merges(t)
    \/ Opened

Spec == Init /\ [][Next]_vars

-----------------------------------------------------------------------------
\* The views and the bookkeeping of an opening store have their types.
TypeOK ==
    /\ events \in Seq(Event)
    /\ archived \in 0 .. Len(events)
    /\ task \in [Task -> TaskView \cup {None}]
    /\ review \in [Review -> ReviewView \cup {None}]
    /\ watermark \in 0 .. Len(events)
    /\ mode \in {"up", "opening", "rebuilt", "scanning", "cleaning"} /\ fresh \in BOOLEAN
    /\ orphans \subseteq Task /\ prepared \subseteq Task
    /\ staged \in 0 .. MaxStaged /\ crashes \in 0 .. MaxCrashes

\* A store that was just opened and has nothing archived or staged, so that the
\* hot log alone says what its views should be.
JustReplayed == mode = "up" /\ fresh /\ staged = 0 /\ archived = 0

\* The status of a view once recovery has reset orphans.
RecoveredStatus(view) ==
    IF view = None THEN None ELSE IF Orphaned(view) THEN "Pending" ELSE view.status

\* The views of a store that was just opened agree, for every review and for
\* the status of every task, with a replay of the log followed by recovery,
\* however often opening was cut off between its writes.
OpenedViewsFollowLog ==
    JustReplayed =>
        LET views == ViewsAfter(events, 0) IN
        /\ review = views.review
        /\ \A t \in Task :
            (IF task[t] = None THEN None ELSE task[t].status)
                = RecoveredStatus(views.task[t])

\* Recovery leaves no task that looks worked on without a session, and no
\* branch of a merge that was prepared and never decided.
OpenedStoreIsClean ==
    (mode = "up" /\ fresh) => find_orphaned_tasks = {} /\ find_prepared_merges = {}
=============================================================================
