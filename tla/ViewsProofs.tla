---------------------------- MODULE ViewsProofs ----------------------------
(***************************************************************************)
(* A store that was just opened has the views its log gives and nothing    *)
(* half done in them: for any tasks, reviews, agents, kinds of events, any *)
(* length of the log and any number of crashes while it was opened.        *)
(***************************************************************************)
EXTENDS Views, WellFoundedInduction, TLAPS

\* Both kinds of views together.
AllViews == [task : [Task -> TaskView \cup {None}],
             review : [Review -> ReviewView \cup {None}]]

\* An opened store is clean; while it is being cleaned, what is left to clean
\* is among what the scan listed.
CleanInv ==
    /\ mode = "up" /\ fresh => find_orphaned_tasks = {} /\ find_prepared_merges = {}
    /\ mode = "cleaning" =>
        /\ find_orphaned_tasks \subseteq orphans
        /\ \A t \in orphans : /\ task[t] # None /\ task[t].session = None
                              /\ task[t].status \in {"InProgress", "Pending"}
        /\ find_prepared_merges \subseteq prepared
        /\ \A t \in prepared : task[t] # None

\* The views are those of the log, before, during or after recovery.
Follows ==
    LET views == ViewsAfter(events, 0) IN
    /\ review = views.review
    /\ \A t \in Task : RecoveredStatus(task[t]) = RecoveredStatus(views.task[t])

\* They are from the rebuild until the next event, and whenever the watermark
\* is at the end of the log.
FollowInv ==
    (/\ staged = 0 /\ archived = 0
     /\ \/ mode = "up" /\ fresh
        \/ mode \in {"rebuilt", "scanning", "cleaning"}
        \/ watermark = Len(events)) => Follows

Inv == TypeOK /\ CleanInv /\ FollowInv

-----------------------------------------------------------------------------
(* Replaying a log *)

\* Every nonempty set of natural numbers has a least element.
LEMMA LeastNumber ==
    ASSUME NEW T \in SUBSET Nat, T # {}
    PROVE  \E n \in T : \A m \in T : n <= m
  <1> DEFINE R == OpToRel(<, Nat)
  <1>1. IsWellFoundedOn(R, Nat)
    BY NatLessThanWellFounded
  <1>2. \A m, n \in Nat : <<m, n>> \in R <=> m < n
    BY DEF OpToRel
  <1> HIDE DEF R
  <1>3. PICK n \in T : \A m \in T : <<m, n>> \notin R
    BY <1>1, WFMin
  <1>4. \A m \in T : n <= m
    <2> TAKE m \in T
    <2>1. m \in Nat /\ n \in Nat
      OBVIOUS
    <2>2. ~(m < n)
      BY <1>2, <1>3, <2>1
    <2> QED BY ONLY <2>1, <2>2
  <1> QED BY <1>4, Zenon

\* The function f gives the views after each event.
IsReplay(f, log, k, views) ==
    f = [n \in k .. Len(log) |->
            IF n = k THEN views ELSE apply_event_to_views(f[n - 1], log[n], n)]

\* The recursive function of Replay exists: it can be extended event by event.
LEMMA ReplayExists ==
    ASSUME NEW log \in Seq(Event), NEW k \in 0 .. Len(log), NEW views
    PROVE  \E f : IsReplay(f, log, k, views)
  <1> DEFINE Good(m) == \E f : f = [n \in k .. m |->
                         IF n = k THEN views ELSE apply_event_to_views(f[n - 1], log[n], n)]
             T == {m \in k .. Len(log) : ~Good(m)}
  <1>1. Len(log) \in Nat /\ k \in Nat /\ k <= Len(log)
    OBVIOUS
  <1>2. Good(k)
    <2> DEFINE f == [n \in k .. k |-> views]
    <2>1. f = [n \in k .. k |->
                 IF n = k THEN views ELSE apply_event_to_views(f[n - 1], log[n], n)]
      BY <1>1
    <2> HIDE DEF f
    <2> QED BY <2>1
  <1>3. ASSUME NEW m \in k .. Len(log), m # k, Good(m - 1)
        PROVE  Good(m)
    <2>1. PICK f : f = [n \in k .. m - 1 |->
                 IF n = k THEN views ELSE apply_event_to_views(f[n - 1], log[n], n)]
      BY <1>3
    <2> DEFINE g == [n \in k .. m |-> IF n = m THEN apply_event_to_views(f[m - 1], log[m], m)
                                      ELSE f[n]]
    <2>2. \A n \in k .. m :
             g[n] = IF n = k THEN views ELSE apply_event_to_views(g[n - 1], log[n], n)
      <3> TAKE n \in k .. m
      <3>0. m \in Nat /\ n \in Nat /\ k < m /\ k <= n /\ n <= m
        BY <1>1, <1>3
      <3>1. CASE n = m
        BY <3>0, <3>1
      <3>2. CASE n = k
        BY <2>1, <3>0, <3>2
      <3>3. CASE n # m /\ n # k
        <4>1. n \in k .. m - 1 /\ n - 1 \in k .. m /\ n - 1 # m
          BY <3>0, <3>3
        <4>2. g[n] = f[n] /\ g[n - 1] = f[n - 1]
          BY <4>1, <3>3
        <4>3. f[n] = apply_event_to_views(f[n - 1], log[n], n)
          BY <2>1, <3>3, <4>1
        <4> HIDE DEF g
        <4> QED BY <3>3, <4>2, <4>3
      <3> QED BY <3>1, <3>2, <3>3
    <2>3. g = [n \in k .. m |-> g[n]]
      OBVIOUS
    <2> HIDE DEF g
    <2>4. g = [n \in k .. m |->
                 IF n = k THEN views ELSE apply_event_to_views(g[n - 1], log[n], n)]
      BY <2>2, <2>3
    <2> QED BY <2>4
  <1> HIDE DEF Good
  <1>4. T = {}
    <2> SUFFICES ASSUME T # {} PROVE FALSE
      OBVIOUS
    <2>1. T \in SUBSET Nat
      BY <1>1
    <2>2. PICK m \in T : \A j \in T : m <= j
      BY <2>1, LeastNumber
    <2>3. m \in k .. Len(log) /\ ~Good(m)
      OBVIOUS
    <2>4. m # k
      BY <1>2, <2>3
    <2>5. m - 1 \in k .. Len(log) /\ ~(m <= m - 1)
      BY <1>1, <2>3, <2>4
    <2>6. Good(m - 1)
      BY <2>2, <2>5
    <2> QED BY <1>3, <2>3, <2>4, <2>6
  <1>5. Good(Len(log))
    BY <1>1, <1>4
  <1> QED BY <1>5 DEF Good, IsReplay

\* With f, Replay applies one event after the other.
StepByStep(f, log, k, views) ==
    /\ f[k] = views
    /\ \A n \in k + 1 .. Len(log) : f[n] = apply_event_to_views(f[n - 1], log[n], n)
    /\ Replay(log, k, views) = f[Len(log)]

\* Such a function exists for every log.
LEMMA ReplaySteps ==
    ASSUME NEW log \in Seq(Event), NEW k \in 0 .. Len(log), NEW views
    PROVE  \E f : StepByStep(f, log, k, views)
  <1> DEFINE f == CHOOSE g : IsReplay(g, log, k, views)
  <1>1. IsReplay(f, log, k, views)
    <2>1. \E g : IsReplay(g, log, k, views)
      BY ReplayExists
    <2> QED BY <2>1, Zenon
  <1>2. Replay(log, k, views) = f[Len(log)]
    BY DEF Replay, IsReplay
  <1> HIDE DEF f
  <1>3. f[k] = views
    BY <1>1 DEF IsReplay
  <1>4. \A n \in k + 1 .. Len(log) : f[n] = apply_event_to_views(f[n - 1], log[n], n)
    <2> TAKE n \in k + 1 .. Len(log)
    <2>1. n \in k .. Len(log) /\ n # k
      OBVIOUS
    <2> QED BY <1>1, <2>1 DEF IsReplay
  <1> QED BY <1>2, <1>3, <1>4 DEF StepByStep

\* An event turns a task's view into a view.
LEMMA TaskAfterType ==
    ASSUME NEW v \in TaskView \cup {None}, NEW e \in Event, NEW n \in Nat
    PROVE  TaskAfter(v, e, n) \in TaskView \cup {None}
  <1> DEFINE o == [OrDefault(v, default_task_view) EXCEPT !.last = n]
             status == IF e.kind \in DOMAIN TaskStatusOf THEN TaskStatusOf[e.kind] ELSE o.status
             assignee == IF e.kind \in {"TaskAssigned", "WorkerReassigned"} THEN e.agent
                         ELSE o.assignee
             branch == o.branch \/ e.kind = "MergePrepared"
  <1>1. OrDefault(v, default_task_view) \in TaskView
    BY DEF OrDefault, default_task_view, TaskView, TaskStatus
  <1>2. o \in TaskView
    BY <1>1 DEF TaskView
  <1>3. status \in TaskStatus
    <2>1. \A k \in DOMAIN TaskStatusOf : TaskStatusOf[k] \in TaskStatus
      BY DEF TaskStatusOf, TaskStatus
    <2> QED BY <1>2, <2>1 DEF TaskView
  <1>4. assignee \in Agent \cup {None} /\ branch \in BOOLEAN
    BY <1>2 DEF TaskView, Event
  <1>5. TaskAfter(v, e, n) = IF e.kind = "TaskCreated" THEN (IF v = None THEN o ELSE v)
            ELSE [o EXCEPT !.status = status, !.assignee = assignee, !.branch = branch]
    BY DEF TaskAfter
  <1> HIDE DEF o, status, assignee, branch
  <1>6. [o EXCEPT !.status = status, !.assignee = assignee, !.branch = branch] \in TaskView
    BY <1>2, <1>3, <1>4 DEF TaskView
  <1> QED BY <1>2, <1>5, <1>6

\* The same for reviews.
LEMMA ReviewAfterType ==
    ASSUME NEW v \in ReviewView \cup {None}, NEW e \in Event, NEW n \in Nat
    PROVE  ReviewAfter(v, e, n) \in ReviewView
  <1> DEFINE o == [OrDefault(v, default_review_view) EXCEPT !.last = n]
  <1>1. OrDefault(v, default_review_view) \in ReviewView
    BY DEF OrDefault, default_review_view, ReviewView
  <1>2. o \in ReviewView
    BY <1>1 DEF ReviewView
  <1> DEFINE round == o.round + 1
             scores == o.scores + 1
  <1>3. ReviewAfter(v, e, n) =
            IF e.kind = "ReviewRequested"
            THEN [o EXCEPT !.task = e.task, !.status = "Pending", !.round = round, !.scores = 0]
            ELSE IF e.kind = "ReviewScoreReceived"
            THEN [o EXCEPT !.status = "InProgress", !.scores = scores]
            ELSE [o EXCEPT !.status = "Completed"]
    BY DEF ReviewAfter
  <1>0. round \in Nat /\ scores \in Nat
    BY <1>2 DEF ReviewView
  <1> HIDE DEF o, round, scores
  <1>4. [o EXCEPT !.task = e.task, !.status = "Pending", !.round = round, !.scores = 0]
            \in ReviewView
    BY <1>0, <1>2 DEF ReviewView, Event
  <1>5. [o EXCEPT !.status = "InProgress", !.scores = scores] \in ReviewView
    BY <1>0, <1>2 DEF ReviewView
  <1>6. [o EXCEPT !.status = "Completed"] \in ReviewView
    BY <1>2 DEF ReviewView
  <1> QED BY <1>3, <1>4, <1>5, <1>6

\* apply_event_to_views keeps the shape of the views.
LEMMA ApplyType ==
    ASSUME NEW views \in AllViews, NEW e \in Event, NEW n \in Nat
    PROVE  apply_event_to_views(views, e, n) \in AllViews
  <1> DEFINE reviews == IF e.kind \in ReviewKinds
                        THEN [views.review EXCEPT ![e.review] = ReviewAfter(@, e, n)]
                        ELSE views.review
             t == TaskOf(reviews, e)
             tasks == IF t = None THEN views.task
                      ELSE [views.task EXCEPT ![t] = TaskAfter(@, e, n)]
  <1>1. /\ views.review \in [Review -> ReviewView \cup {None}]
        /\ views.task \in [Task -> TaskView \cup {None}]
        /\ e.review \in Review /\ e.task \in Task
    BY DEF AllViews, Event
  <1>2. reviews \in [Review -> ReviewView \cup {None}]
    <2>1. ReviewAfter(views.review[e.review], e, n) \in ReviewView
      BY <1>1, ReviewAfterType
    <2> QED BY <1>1, <2>1
  <1> HIDE DEF reviews
  <1>3. t \in Task \cup {None}
    BY <1>1, <1>2 DEF TaskOf, ReviewView
  <1> HIDE DEF t
  <1>4. tasks \in [Task -> TaskView \cup {None}]
    <2>1. t \in Task => TaskAfter(views.task[t], e, n) \in TaskView \cup {None}
      BY <1>1, TaskAfterType
    <2> QED BY <1>1, <1>3, <2>1
  <1>5. apply_event_to_views(views, e, n) = [review |-> reviews, task |-> tasks]
    BY DEF apply_event_to_views, reviews, t
  <1> HIDE DEF tasks
  <1> QED BY <1>2, <1>4, <1>5 DEF AllViews

\* A replay gives views.
LEMMA ReplayType ==
    ASSUME NEW log \in Seq(Event), NEW k \in 0 .. Len(log)
    PROVE  ViewsAfter(log, k) \in AllViews
  <1>0. PICK f : StepByStep(f, log, k, NoViews)
    BY ReplaySteps
  <1>1. /\ f[k] = NoViews
        /\ \A n \in k + 1 .. Len(log) : f[n] = apply_event_to_views(f[n - 1], log[n], n)
        /\ Replay(log, k, NoViews) = f[Len(log)]
    BY <1>0 DEF StepByStep
  <1> DEFINE T == {n \in k .. Len(log) : f[n] \notin AllViews}
  <1>2. NoViews \in AllViews
    BY DEF NoViews, AllViews
  <1>3. T = {}
    <2> SUFFICES ASSUME T # {} PROVE FALSE
      OBVIOUS
    <2>1. T \in SUBSET Nat
      OBVIOUS
    <2>2. PICK n \in T : \A m \in T : n <= m
      BY <2>1, LeastNumber
    <2>3. n \in k .. Len(log) /\ n # k
      BY <1>1, <1>2
    <2>4. n \in k + 1 .. Len(log) /\ n - 1 \in k .. Len(log) /\ ~(n <= n - 1)
      BY <2>3
    <2>5. f[n - 1] \in AllViews
      BY <2>2, <2>4
    <2>6. n \in Nat /\ log[n] \in Event
      BY <2>4
    <2>7. f[n] \in AllViews
      BY <1>1, <2>4, <2>5, <2>6, ApplyType
    <2> QED BY <2>7
  <1>4. f[Len(log)] \in AllViews
    BY <1>3
  <1> QED BY <1>1, <1>4 DEF ViewsAfter

\* Nothing replayed gives no views.
LEMMA ReplayNothing == ViewsAfter(<<>>, 0) = NoViews
  <1> DEFINE log == <<>>
  <1>1. log \in Seq(Event) /\ Len(log) = 0 /\ 0 \in 0 .. Len(log)
    OBVIOUS
  <1> HIDE DEF log
  <1>2. PICK f : StepByStep(f, log, 0, NoViews)
    BY <1>1, ReplaySteps
  <1>3. ViewsAfter(log, 0) = NoViews
    BY <1>1, <1>2 DEF StepByStep, ViewsAfter
  <1> QED BY <1>3 DEF log

-----------------------------------------------------------------------------
(* The invariant *)

\* Only tasks are found in the log.
LEMMA MergesAreTasks ==
    ASSUME NEW log \in Seq(Event), NEW k \in Nat
    PROVE  UndecidedMerges(log, k) \subseteq Task
  <1>1. \A n \in k + 1 .. Len(log) : log[n].task \in Task
    <2> TAKE n \in k + 1 .. Len(log)
    <2>1. log[n] \in Event
      OBVIOUS
    <2> QED BY <2>1 DEF Event
  <1> QED BY <1>1 DEF UndecidedMerges

\* A new store has no views and no events.
LEMMA InvInit == Init => Inv
  <1> SUFFICES ASSUME Init PROVE Inv
    OBVIOUS
  <1>1. task = [t \in Task |-> None] /\ review = [r \in Review |-> None]
    BY DEF Init, NoViews
  <1>2. events \in Seq(Event) /\ Len(events) = 0 /\ events = <<>>
    BY DEF Init
  <1>3. TypeOK
    BY <1>1, <1>2, ViewsAssumption DEF Init, TypeOK
  <1>4. CleanInv
    <2>1. find_orphaned_tasks = {}
      BY <1>1 DEF find_orphaned_tasks, Orphaned
    <2>2. find_prepared_merges = {}
      BY <1>1, <1>2, MergesAreTasks DEF find_prepared_merges, Init
    <2> QED BY <2>1, <2>2 DEF CleanInv, Init
  <1>5. FollowInv
    BY <1>1, <1>2, ReplayNothing DEF FollowInv, Follows, NoViews
  <1> QED BY <1>3, <1>4, <1>5 DEF Inv

\* New events and archiving leave views behind that are not fresh.
LEMMA WritesStep ==
    ASSUME Inv,
           \/ \E e \in Event : append(e)
           \/ \E e \in Event, s \in {"InProgress", "Assigned"}, a \in Agent :
                  append_atomic(e, s, a)
           \/ \E c \in 1 .. Len(events) : archive_events_before(c)
    PROVE  Inv'
  <1> USE ViewsAssumption
  <1>1. /\ mode = "up" /\ mode' = "up" /\ fresh' = FALSE
        /\ UNCHANGED <<review, orphans, prepared, crashes>>
    BY DEF append, append_atomic, archive_events_before
  <1>2. CleanInv' /\ fresh' \in BOOLEAN
    <2>1. fresh' \in BOOLEAN
      BY <1>1, Zenon
    <2> QED BY <1>1, <2>1 DEF CleanInv
  <1>3. ASSUME NEW e \in Event, append(e)
        PROVE  Inv'
    <2>1. events' \in Seq(Event) /\ Len(events') = Len(events) + 1 /\ Len(events) \in Nat
      BY <1>3 DEF append, Inv, TypeOK
    <2>2. UNCHANGED <<archived, task, watermark, staged>>
      BY <1>3 DEF append
    <2>3. TypeOK'
      BY <1>1, <1>2, <2>1, <2>2 DEF Inv, TypeOK
    <2>4. watermark' # Len(events')
      BY <2>1, <2>2 DEF Inv, TypeOK
    <2>5. FollowInv'
      BY <1>1, <2>4 DEF FollowInv
    <2> QED BY <1>2, <2>3, <2>5 DEF Inv
  <1>4. ASSUME NEW e \in Event, NEW s \in {"InProgress", "Assigned"}, NEW a \in Agent,
               append_atomic(e, s, a)
        PROVE  Inv'
    <2>1. events' \in Seq(Event) /\ Len(events') = Len(events) + 1 /\ Len(events) \in Nat
      BY <1>4 DEF append_atomic, Inv, TypeOK
    <2>2. /\ task' = [task EXCEPT ![e.task] = TaskOperation(task[e.task], s, a)]
          /\ watermark' = Len(events) + 1 /\ staged < MaxStaged /\ staged' = staged + 1
          /\ archived' = archived
      BY <1>4 DEF append_atomic
    <2>3. e.task \in Task /\ task[e.task] \in TaskView \cup {None}
      BY DEF Event, Inv, TypeOK
    <2>4. OrDefault(task[e.task], default_task_view) \in TaskView
      BY <2>3 DEF OrDefault, default_task_view, TaskView, TaskStatus
    <2>5. TaskOperation(task[e.task], s, a) \in TaskView
      BY <2>4 DEF TaskOperation, TaskView, TaskStatus
    <2>6. task' \in [Task -> TaskView \cup {None}]
      BY <2>2, <2>5 DEF Inv, TypeOK
    <2>7. staged' \in 0 .. MaxStaged /\ staged' # 0
      BY <2>2 DEF Inv, TypeOK
    <2>8. TypeOK'
      BY <1>1, <1>2, <2>1, <2>2, <2>6, <2>7 DEF Inv, TypeOK
    <2>9. FollowInv'
      BY <2>7 DEF FollowInv
    <2> QED BY <1>2, <2>8, <2>9 DEF Inv
  <1>5. ASSUME NEW c \in 1 .. Len(events), archive_events_before(c)
        PROVE  Inv'
    <2>1. archived' = c /\ UNCHANGED <<events, task, watermark, staged>>
      BY <1>5 DEF archive_events_before
    <2>2. TypeOK'
      BY <1>1, <1>2, <2>1 DEF Inv, TypeOK
    <2>3. FollowInv'
      BY <2>1 DEF FollowInv
    <2> QED BY <1>2, <2>2, <2>3 DEF Inv
  <1> QED BY <1>3, <1>4, <1>5

\* Opening up to the scan: the views are replaced by those of the hot log, or
\* they are those of the log already.
LEMMA OpeningStep ==
    ASSUME Inv, Crash \/ Rebuild \/ save_views_watermark \/ ViewsAreCurrent
    PROVE  Inv'
  <1> USE ViewsAssumption
  <1>1. /\ mode' \in {"opening", "rebuilt", "scanning"}
        /\ UNCHANGED <<events, archived, fresh, staged>>
    BY DEF Crash, Rebuild, save_views_watermark, ViewsAreCurrent, stored
  <1>2. CleanInv'
    BY <1>1 DEF CleanInv
  <1>3. high_water_mark \in 0 .. Len(events) /\ (archived = 0 => high_water_mark = Len(events))
    BY DEF high_water_mark, Inv, TypeOK
  <1>4. CASE Crash
    <2>1. /\ mode' = "opening" /\ UNCHANGED <<task, review, watermark>>
          /\ orphans' = {} /\ prepared' = {} /\ crashes' = crashes + 1 /\ crashes < MaxCrashes
      BY <1>4 DEF Crash, stored
    <2>2. TypeOK'
      BY <1>1, <2>1 DEF Inv, TypeOK
    <2>3. FollowInv'
      BY <1>1, <2>1 DEF Inv, FollowInv, Follows
    <2> QED BY <1>2, <2>2, <2>3 DEF Inv
  <1>5. CASE Rebuild
    <2>1. /\ mode' = "rebuilt" /\ UNCHANGED <<watermark, orphans, prepared, crashes>>
          /\ task' = ViewsAfter(events, archived).task
          /\ review' = ViewsAfter(events, archived).review
      BY <1>5 DEF Rebuild
    <2>2. ViewsAfter(events, archived) \in AllViews
      BY ReplayType DEF Inv, TypeOK
    <2>3. /\ task' \in [Task -> TaskView \cup {None}]
          /\ review' \in [Review -> ReviewView \cup {None}]
      BY <2>1, <2>2 DEF AllViews
    <2>4. TypeOK'
      BY <1>1, <2>1, <2>3 DEF Inv, TypeOK
    <2>5. FollowInv'
      BY <1>1, <2>1 DEF FollowInv, Follows
    <2> QED BY <1>2, <2>4, <2>5 DEF Inv
  <1>6. CASE save_views_watermark
    <2>1. /\ mode = "rebuilt" /\ mode' = "scanning" /\ watermark' = high_water_mark
          /\ UNCHANGED <<task, review, orphans, prepared, crashes>>
      BY <1>6 DEF save_views_watermark
    <2>2. TypeOK'
      BY <1>1, <1>3, <2>1 DEF Inv, TypeOK
    <2>3. FollowInv'
      BY <1>1, <2>1 DEF Inv, FollowInv, Follows
    <2> QED BY <1>2, <2>2, <2>3 DEF Inv
  <1>7. CASE ViewsAreCurrent
    <2>1. /\ mode' = "scanning" /\ watermark = high_water_mark
          /\ UNCHANGED <<task, review, watermark, orphans, prepared, crashes>>
      BY <1>7 DEF ViewsAreCurrent, stored
    <2>2. TypeOK'
      BY <1>1, <2>1 DEF Inv, TypeOK
    <2>3. FollowInv'
      BY <1>1, <1>3, <2>1 DEF Inv, FollowInv, Follows
    <2> QED BY <1>2, <2>2, <2>3 DEF Inv
  <1> QED BY <1>4, <1>5, <1>6, <1>7

\* The scan lists all there is to clean, and the store is opened when nothing
\* of it is left.
LEMMA ScanStep ==
    ASSUME Inv, Scan \/ Opened
    PROVE  Inv'
  <1>1. UNCHANGED <<events, archived, task, review, watermark, staged, crashes>>
    BY DEF Scan, Opened, stored
  <1>2. /\ find_orphaned_tasks' = find_orphaned_tasks
        /\ find_prepared_merges' = find_prepared_merges
    BY <1>1 DEF find_orphaned_tasks, find_prepared_merges
  <1>3. mode \in {"scanning", "cleaning"} /\ (Follows' <=> Follows)
    BY <1>1 DEF Scan, Opened, Follows
  <1>4. FollowInv'
    BY <1>1, <1>3 DEF Inv, FollowInv
  <1>5. CASE Scan
    <2>1. /\ orphans' = find_orphaned_tasks /\ prepared' = find_prepared_merges
          /\ mode' = "cleaning" /\ fresh' = fresh
      BY <1>5 DEF Scan
    <2>2. find_orphaned_tasks \subseteq Task /\ find_prepared_merges \subseteq Task
      BY MergesAreTasks DEF find_orphaned_tasks, find_prepared_merges, Inv, TypeOK
    <2>3. TypeOK'
      BY <1>1, <2>1, <2>2 DEF Inv, TypeOK
    <2>4. /\ \A t \in find_orphaned_tasks : /\ task[t] # None /\ task[t].session = None
                                            /\ task[t].status = "InProgress"
          /\ \A t \in find_prepared_merges : task[t] # None
      BY DEF find_orphaned_tasks, Orphaned, find_prepared_merges
    <2>5. CleanInv'
      BY <1>1, <1>2, <2>1, <2>4 DEF CleanInv
    <2> QED BY <1>4, <2>3, <2>5 DEF Inv
  <1>6. CASE Opened
    <2>1. /\ mode = "cleaning" /\ orphans = {} /\ prepared = {} /\ mode' = "up"
          /\ fresh' = TRUE /\ UNCHANGED <<orphans, prepared>>
      BY <1>6 DEF Opened
    <2>2. TypeOK'
      <3>1. fresh' \in BOOLEAN
        BY <2>1, Zenon
      <3> QED BY <1>1, <2>1, <3>1 DEF Inv, TypeOK
    <2>3. CleanInv'
      BY <1>2, <2>1 DEF Inv, CleanInv
    <2> QED BY <1>4, <2>2, <2>3 DEF Inv
  <1> QED BY <1>5, <1>6

\* One write of the cleaning: a view that keeps its session, looks the same to
\* recovery and is taken off a list only when there is nothing to clean in it.
LEMMA CleaningStep ==
    ASSUME Inv, NEW t \in Task, NEW v \in TaskView,
           mode = "cleaning", task[t] # None,
           task' = [task EXCEPT ![t] = v],
           UNCHANGED <<events, archived, review, watermark, mode, fresh, staged, crashes>>,
           v.session = task[t].session, v.status \in {task[t].status, "Pending"},
           RecoveredStatus(v) = RecoveredStatus(task[t]),
           v.branch => task[t].branch,
           orphans' = orphans \/ (orphans' = orphans \ {t} /\ ~Orphaned(v)),
           prepared' = prepared \/ (prepared' = prepared \ {t} /\ ~v.branch)
    PROVE  Inv'
  <1> USE ViewsAssumption
  <1>1. /\ task' \in [Task -> TaskView \cup {None}] /\ task'[t] = v /\ v # None
        /\ \A u \in Task \ {t} : task'[u] = task[u]
    BY DEF Inv, TypeOK
  <1>2. TypeOK'
    BY <1>1 DEF Inv, TypeOK
  <1>3. CleanInv'
    <2>1. find_orphaned_tasks' \subseteq orphans'
      <3>1. Orphaned(v) => Orphaned(task[t])
        BY <1>1 DEF Orphaned
      <3>2. find_orphaned_tasks \subseteq orphans
        BY DEF Inv, CleanInv
      <3> QED BY <1>1, <3>1, <3>2 DEF find_orphaned_tasks
    <2>2. \A u \in orphans' : /\ task'[u] # None /\ task'[u].session = None
                              /\ task'[u].status \in {"InProgress", "Pending"}
      BY <1>1 DEF Inv, CleanInv, TypeOK
    <2>3. find_prepared_merges' \subseteq prepared'
      <3>1. find_prepared_merges \subseteq prepared
        BY DEF Inv, CleanInv
      <3>2. UndecidedMerges(events, archived) \subseteq Task
        BY MergesAreTasks DEF Inv, TypeOK
      <3>3. UndecidedMerges(events', archived') = UndecidedMerges(events, archived)
        OBVIOUS
      <3> SUFFICES ASSUME NEW u \in UndecidedMerges(events, archived),
                          task'[u] # None, task'[u].branch
                   PROVE  u \in prepared'
        BY <3>3 DEF find_prepared_merges
      <3>4. CASE u = t
        <4>1. v.branch /\ task[t].branch
          BY <1>1, <3>4
        <4>2. t \in prepared
          BY <3>1, <3>4, <4>1 DEF find_prepared_merges
        <4> QED BY <3>4, <4>1, <4>2
      <3>5. CASE u # t
        <4>1. u \in prepared
          BY <1>1, <3>1, <3>2, <3>5 DEF find_prepared_merges
        <4> QED BY <3>5, <4>1
      <3> QED BY <3>4, <3>5
    <2>4. \A u \in prepared' : task'[u] # None
      BY <1>1 DEF Inv, CleanInv, TypeOK
    <2> QED BY <2>1, <2>2, <2>3, <2>4 DEF CleanInv
  <1>4. FollowInv'
    <2>1. \A u \in Task : RecoveredStatus(task'[u]) = RecoveredStatus(task[u])
      BY <1>1
    <2>2. Follows => Follows'
      BY <2>1 DEF Follows
    <2> QED BY <2>2 DEF Inv, FollowInv
  <1> QED BY <1>2, <1>3, <1>4 DEF Inv

\* Recovery writes such views.
LEMMA RecoveryStep ==
    ASSUME Inv, NEW t \in Task,
           ResetStatus(t) \/ RemoveAssignee(t) \/ clean_prepared_merges(t)
    PROVE  Inv'
  <1> USE ViewsAssumption
  <1>1. mode = "cleaning" /\ task \in [Task -> TaskView \cup {None}] /\ CleanInv
    BY DEF ResetStatus, RemoveAssignee, clean_prepared_merges, Inv, TypeOK
  <1>2. ASSUME task[t] # None
        PROVE  task[t] \in TaskView
    BY <1>1, <1>2
  <1>3. CASE ResetStatus(t)
    <2> DEFINE v == [task[t] EXCEPT !.status = "Pending"]
    <2>1. /\ task[t] \in TaskView /\ task[t] # None /\ task[t].session = None
          /\ task[t].status = "InProgress"
      BY <1>1, <1>3 DEF ResetStatus, CleanInv
    <2>2. /\ v \in TaskView /\ v.session = task[t].session /\ v.status = "Pending"
          /\ v.branch = task[t].branch
      BY <2>1 DEF TaskView, TaskStatus
    <2>3. task' = [task EXCEPT ![t] = v]
      BY <1>3 DEF ResetStatus
    <2> HIDE DEF v
    <2>4. RecoveredStatus(v) = RecoveredStatus(task[t])
      BY <2>1, <2>2 DEF RecoveredStatus, Orphaned
    <2>5. UNCHANGED <<events, archived, review, watermark, mode, fresh, staged, crashes,
                      orphans, prepared>>
      BY <1>3 DEF ResetStatus
    <2> QED BY <1>1, <2>1, <2>2, <2>3, <2>4, <2>5, CleaningStep
  <1>4. CASE RemoveAssignee(t)
    <2> DEFINE v == [task[t] EXCEPT !.assignee = None]
    <2>1. task[t] \in TaskView /\ task[t] # None /\ task[t].status = "Pending"
      BY <1>1, <1>4 DEF RemoveAssignee, CleanInv
    <2>2. /\ v \in TaskView /\ v.session = task[t].session /\ v.status = task[t].status
          /\ v.branch = task[t].branch
      BY <2>1 DEF TaskView
    <2>3. task' = [task EXCEPT ![t] = v]
      BY <1>4 DEF RemoveAssignee
    <2> HIDE DEF v
    <2>4. RecoveredStatus(v) = RecoveredStatus(task[t]) /\ ~Orphaned(v)
      BY <2>1, <2>2 DEF RecoveredStatus, Orphaned
    <2>5. /\ orphans' = orphans \ {t}
          /\ UNCHANGED <<events, archived, review, watermark, mode, fresh, staged, crashes,
                         prepared>>
      BY <1>4 DEF RemoveAssignee
    <2> QED BY <1>1, <2>1, <2>2, <2>3, <2>4, <2>5, CleaningStep
  <1>5. CASE clean_prepared_merges(t)
    <2> DEFINE v == [task[t] EXCEPT !.branch = FALSE]
    <2>1. task[t] \in TaskView /\ task[t] # None
      BY <1>1, <1>5 DEF clean_prepared_merges, CleanInv
    <2>2. /\ v \in TaskView /\ v.session = task[t].session /\ v.status = task[t].status
          /\ ~v.branch
      BY <2>1 DEF TaskView
    <2>3. task' = [task EXCEPT ![t] = v]
      BY <1>5 DEF clean_prepared_merges
    <2> HIDE DEF v
    <2>4. RecoveredStatus(v) = RecoveredStatus(task[t])
      BY <2>1, <2>2 DEF RecoveredStatus, Orphaned
    <2>5. /\ prepared' = prepared \ {t}
          /\ UNCHANGED <<events, archived, review, watermark, mode, fresh, staged, crashes,
                         orphans>>
      BY <1>5 DEF clean_prepared_merges
    <2> QED BY <1>1, <2>1, <2>2, <2>3, <2>4, <2>5, CleaningStep
  <1> QED BY <1>3, <1>4, <1>5

\* Every step of the store keeps the invariant.
LEMMA Invariance == Spec => []Inv
  <1>1. Inv /\ [Next]_vars => Inv'
    <2> SUFFICES ASSUME Inv, [Next]_vars PROVE Inv'
      OBVIOUS
    <2>1. CASE UNCHANGED vars
      BY <2>1 DEF vars, stored, Inv, TypeOK, CleanInv, FollowInv, Follows,
                  find_orphaned_tasks, find_prepared_merges
    <2>2. CASE Next
      BY <2>2, WritesStep, OpeningStep, ScanStep, RecoveryStep DEF Next
    <2> QED BY <2>1, <2>2
  <1> QED BY <1>1, InvInit, PTL DEF Spec

-----------------------------------------------------------------------------
(* The theorems *)

\* However often FjallEventStore::new is cut off between its writes, the views
\* of a store that it opened agree with a replay of the log and recovery.
THEOREM OpenedStoresFollowTheLog == Spec => []OpenedViewsFollowLog
  <1>1. Inv => OpenedViewsFollowLog
    <2> SUFFICES ASSUME Inv, JustReplayed PROVE OpenedViewsFollowLog
      BY DEF OpenedViewsFollowLog
    <2>1. Follows /\ find_orphaned_tasks = {}
      BY DEF JustReplayed, Inv, FollowInv, CleanInv
    <2>2. \A t \in Task :
             (IF task[t] = None THEN None ELSE task[t].status) = RecoveredStatus(task[t])
      BY <2>1 DEF find_orphaned_tasks, RecoveredStatus
    <2> QED BY <2>1, <2>2 DEF OpenedViewsFollowLog, Follows
  <1> QED BY <1>1, Invariance, PTL

\* RecoveryScanner cleans all it should before the store is handed out.
THEOREM OpenedStoresAreClean == Spec => []OpenedStoreIsClean
  <1>1. Inv => OpenedStoreIsClean
    BY DEF Inv, CleanInv, OpenedStoreIsClean
  <1> QED BY <1>1, Invariance, PTL
=============================================================================
