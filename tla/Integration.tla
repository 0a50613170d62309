----------------------------- MODULE Integration -----------------------------
(***************************************************************************)
(* Integration of approved subtasks into the branch of their epic          *)
(* (task_actions: action_integrate.rs, integration_state.rs,               *)
(* action_abort_integration.rs, epic.rs).  The subtasks of an epic share   *)
(* one integration worktree, with one CHERRY_PICK_HEAD and one index; each *)
(* subtask records the phase of its own attempt.  The supervisor resolves  *)
(* conflicts by hand, reviews and checkpoints go on meanwhile, and the     *)
(* process that runs the handler may die between a git command and the     *)
(* write of the task.                                                      *)
(***************************************************************************)
EXTENDS Integers, Sequences, Functions

CONSTANTS
    Task,          \* merge-mode subtasks of one epic
    Commit,        \* commits of their workers
    Versions,      \* task -> number of commits its worker may record
    Delta,         \* task, version -> the commits between merge base and it
    Covers,        \* <<d, c>>: once d is on the branch the pick of c comes out empty
    Settled,       \* bound: tasks that enter approved and are not reviewed again
    None,
    MaxCrashes,    \* bound: deaths of a process in the middle of integrate
    MaxAborts      \* bound: abort-integration calls and cherry-picks cleared by hand

Status == {"review_ready", "in_review", "changes_requested", "approved", "closed"}
IntegrationPhase == {"null", "cherry_picking", "resolved", "complete", "aborted"}

\* a running integrate call: its arguments, its copy of the state, where it is
Call == [task : Task, force : BOOLEAN, phase : IntegrationPhase, base : Nat \cup {None},
         commits : Seq(Commit), skip : BOOLEAN, loops : Nat,
         step : {"loop", "picks", "conflict"}, left : Seq(Commit)]

ASSUME IntegrationAssumption ==
    /\ Versions \in [Task -> Nat \ {0}]
    /\ \A t \in Task : Delta[t] \in [1..Versions[t] -> Seq(Commit)]
    /\ Settled \subseteq Task
    /\ None \notin Commit \cup Nat \cup Call
    /\ MaxCrashes \in Nat /\ MaxAborts \in Nat

VARIABLES
    status,    \* task -> its status
    latest,    \* task -> version of its latest_commit
    round,     \* task -> version its open review round is about, 0: none
    request,   \* task -> version of the newest request.json, 0: none
    phase,     \* task -> integration.phase as persisted
    base,      \* task -> integration.cherry_pick_base_head (branch length) or None
    branch,    \* commits picked onto the epic branch, oldest first
    pick,      \* CHERRY_PICK_HEAD of the worktree, or None
    tree,      \* index of the worktree: clean, unmerged or staged
    op,        \* the integrate call that holds the repository lock, or None
    crashes,
    aborts,
    approvals, \* history: task -> versions a review approved
    strayed,   \* history: tasks whose status was not approved during an attempt
    closedAt   \* history: task -> version it was closed with, 0: not closed

taskVars == <<status, latest, round, request>>
gitVars == <<branch, pick, tree>>
stateVars == <<phase, base>>
boundVars == <<crashes, aborts>>
historyVars == <<approvals, strayed, closedAt>>
vars == <<taskVars, gitVars, stateVars, op, boundVars, historyVars>>

TypeOK ==
    /\ status \in [Task -> Status]
    /\ latest \in [Task -> Nat] /\ \A t \in Task : latest[t] \in 1..Versions[t]
    /\ round \in [Task -> Nat] /\ request \in [Task -> Nat] /\ closedAt \in [Task -> Nat]
    /\ approvals \in [Task -> SUBSET Nat]
    /\ phase \in [Task -> IntegrationPhase]
    /\ base \in [Task -> Nat \cup {None}]
    /\ branch \in Seq(Commit)
    /\ pick \in Commit \cup {None}
    /\ tree \in {"clean", "unmerged", "staged"}
    /\ tree # "clean" => pick # None
    /\ op \in Call \cup {None}
    /\ crashes \in 0..MaxCrashes /\ aborts \in 0..MaxAborts
    /\ strayed \subseteq Task

Init ==
    /\ status = [t \in Task |-> IF t \in Settled THEN "approved" ELSE "review_ready"]
    /\ latest = [t \in Task |-> 1]
    /\ round = [t \in Task |-> 0]
    /\ request = [t \in Task |-> IF t \in Settled THEN 1 ELSE 0]
    /\ phase = [t \in Task |-> "null"]
    /\ base = [t \in Task |-> None]
    /\ branch = <<>> /\ pick = None /\ tree = "clean"
    /\ op = None
    /\ crashes = 0 /\ aborts = 0
    /\ approvals = [t \in Task |-> IF t \in Settled THEN {1} ELSE {}]
    /\ strayed = {}
    /\ closedAt = [t \in Task |-> 0]

\* the task's lock file is free
Unlocked(t) == op # None => op.task # t
-----------------------------------------------------------------------------
(* Reviews and work on the task, as far as integration sees them *)

\* the rows of update_task_status_atomic between the statuses kept here
ReviewTransition ==
    {<<"in_review", "changes_requested">>, <<"in_review", "approved">>,
     <<"review_ready", "in_review">>, <<"review_ready", "changes_requested">>,
     <<"changes_requested", "in_review">>, <<"changes_requested", "review_ready">>,
     <<"changes_requested", "approved">>,
     <<"approved", "changes_requested">>}

\* A round starts with status in_review and is about the latest commit.  It is
\* over with its verdict; a supervisor's changes_requested leaves it open.
update_task_status_atomic(t, new) ==
    /\ Unlocked(t)
    /\ t \notin Settled
    /\ <<status[t], new>> \in ReviewTransition
    /\ new = "approved" => round[t] # 0 /\ request[t] = round[t]
    /\ status' = [status EXCEPT ![t] = new]
    /\ \E r \in CASE new = "in_review" -> {latest[t]}
                  [] new = "approved" -> {0}
                  [] OTHER -> {0, round[t]} : round' = [round EXCEPT ![t] = r]
    /\ approvals' = [approvals EXCEPT ![t] = IF new = "approved" THEN @ \cup {round[t]} ELSE @]
    /\ strayed' = IF phase[t] # "null" THEN strayed \cup {t} ELSE strayed
    /\ UNCHANGED <<latest, request, gitVars, stateVars, op, boundVars, closedAt>>

\* the last step of handle_request_review; no task lock
write_round_request(t) ==
    /\ status[t] = "in_review"
    /\ round[t] # 0
    /\ request[t] # round[t]
    /\ request' = [request EXCEPT ![t] = round[t]]
    /\ UNCHANGED <<status, latest, round, gitVars, stateVars, op, boundVars, historyVars>>

\* execute_checkpoint: in any status that is not terminal
checkpoint(t) ==
    /\ Unlocked(t)
    /\ status[t] # "closed"
    /\ latest[t] < Versions[t]
    /\ latest' = [latest EXCEPT ![t] = @ + 1]
    /\ UNCHANGED <<status, round, request, gitVars, stateVars, op, boundVars, historyVars>>
-----------------------------------------------------------------------------
(* The supervisor in the worktree, between calls of the tool *)

resolve_conflict ==
    /\ op = None
    /\ tree = "unmerged"
    /\ tree' = "staged"
    /\ UNCHANGED <<taskVars, branch, pick, stateVars, op, boundVars, historyVars>>

\* resolved in favour of the branch: nothing is left to commit
resolve_to_nothing ==
    /\ op = None
    /\ tree = "unmerged"
    /\ aborts < MaxAborts
    /\ aborts' = aborts + 1
    /\ tree' = "clean"
    /\ UNCHANGED <<taskVars, branch, pick, stateVars, op, crashes, historyVars>>

\* git cherry-pick --continue by hand
commit_resolution ==
    /\ op = None
    /\ tree = "staged"
    /\ branch' = Append(branch, pick)
    /\ pick' = None /\ tree' = "clean"
    /\ UNCHANGED <<taskVars, stateVars, op, boundVars, historyVars>>

\* git cherry-pick --abort by hand
clear_pick ==
    /\ op = None
    /\ pick # None
    /\ aborts < MaxAborts
    /\ aborts' = aborts + 1
    /\ pick' = None /\ tree' = "clean"
    /\ UNCHANGED <<taskVars, branch, stateVars, op, crashes, historyVars>>
-----------------------------------------------------------------------------
(* integration_state.rs *)

\* applied stands for the four proofs: ancestry, patch equivalence, trailer, tree.
\* Mutant: the task's status is not looked at
null_transitions_any_status(st, probes) ==
    IF probes.applied THEN "Verify" ELSE "StartCherryPick"

null_transitions(st, probes) ==
    IF st # "approved" THEN "Reject"
    ELSE IF probes.applied THEN "Verify" ELSE "StartCherryPick"

cherry_picking_integrate_transitions(probes, commits) ==
    CASE probes.sha # None /\ probes.sha \notin Range(commits) -> "Reject"
      [] probes.sha \in Range(commits) ->
            IF probes.unmerged THEN "StillUnresolved" ELSE "ContinueCherryPick"
      [] probes.sha = None /\ probes.applied -> "Verify"
      [] probes.sha = None /\ ~probes.applied ->
            IF probes.advanced /\ ~probes.unmerged THEN "StartCherryPick" ELSE "Reject"

\* Mutant: force always starts over
cherry_picking_force_reset_always(probes, commits) == TRUE

\* Mutant: a cleared pick is not started over
cherry_picking_force_reset_foreign(probes, commits) ==
    probes.sha # None /\ probes.sha \notin Range(commits)

cherry_picking_force_reset(probes, commits) ==
    IF probes.sha # None THEN probes.sha \notin Range(commits)
    ELSE ~probes.applied /\ ~probes.advanced

\* Mutant: the branch is not looked at again
resolved_transitions_trusting(probes) == "Finalize"

resolved_transitions(probes) == IF probes.applied THEN "Finalize" ELSE "Reject"

aborted_transitions(probes, force) ==
    IF force THEN "ForceReset" ELSE IF probes.applied THEN "Finalize" ELSE "Reject"

next_state(ph, st, probes, commits, force) ==
    CASE ph = "null" -> null_transitions(st, probes)
      [] ph = "cherry_picking" ->
            IF force /\ cherry_picking_force_reset(probes, commits) THEN "ForceReset"
            ELSE cherry_picking_integrate_transitions(probes, commits)
      [] ph = "resolved" -> resolved_transitions(probes)
      [] ph = "aborted" -> aborted_transitions(probes, force)
-----------------------------------------------------------------------------
(* action_integrate.rs *)

Clean == pick = None /\ tree = "clean"

Represented(c) == c \in Range(branch)

\* the change is on the branch, but none of the proofs can see it
Superseded(c) == ~Represented(c) /\ \E d \in Range(branch) : <<d, c>> \in Covers

run_git_probes(o) ==
    [sha |-> pick,
     unmerged |-> tree = "unmerged",
     advanced |-> o.base # None /\ Len(branch) > o.base,
     applied |-> /\ ~(o.phase = "cherry_picking" /\ pick # None)
                 /\ \A c \in Range(o.commits) : Represented(c)]

\* what the iteration after a force reset uses in place of the probes
default_probes == [sha |-> None, unmerged |-> FALSE, advanced |-> FALSE, applied |-> FALSE]

\* Under the task lock and the repository lock, up to the loop.  A closed task
\* gets the cached answer; one whose latest commit is not the commit of the
\* newest review request goes back to review_ready.
integrate(t, force) ==
    /\ op = None
    /\ status[t] # "closed"
    /\ request[t] # 0
    /\ IF latest[t] # request[t]
       THEN /\ status' = [status EXCEPT ![t] = "review_ready"]
            /\ strayed' = IF phase[t] # "null" THEN strayed \cup {t} ELSE strayed
            /\ UNCHANGED op
       ELSE /\ force \/ Clean
            /\ op' = [task |-> t, force |-> force, phase |-> phase[t], base |-> base[t],
                      commits |-> Delta[t][request[t]], skip |-> FALSE, loops |-> 0,
                      step |-> "loop", left |-> <<>>]
            /\ UNCHANGED <<status, strayed>>
    /\ UNCHANGED <<latest, round, request, gitVars, stateVars, boundVars, approvals, closedAt>>

Decision ==
    next_state(op.phase, status[op.task],
               IF op.skip THEN default_probes ELSE run_git_probes(op),
               op.commits, op.force)

\* one iteration of the main loop that ends in action a
Iterates(a) ==
    /\ op # None
    /\ op.step = "loop"
    /\ op.loops < 5
    /\ Decision = a

Reject ==
    /\ Iterates("Reject")
    /\ op' = None
    /\ UNCHANGED <<taskVars, gitVars, stateVars, boundVars, historyVars>>

StillUnresolved ==
    /\ Iterates("StillUnresolved")
    /\ op' = [op EXCEPT !.step = "conflict"]
    /\ UNCHANGED <<taskVars, gitVars, stateVars, boundVars, historyVars>>

\* reset_state_for_force_retry; destructive only from cherry_picking
ForceReset ==
    /\ Iterates("ForceReset")
    /\ IF op.phase = "cherry_picking"
       THEN pick' = None /\ tree' = "clean"
       ELSE UNCHANGED <<pick, tree>>
    /\ op' = [op EXCEPT !.phase = "null", !.base = Len(branch), !.skip = TRUE, !.loops = @ + 1]
    /\ UNCHANGED <<taskVars, branch, stateVars, boundVars, historyVars>>

Verify ==
    /\ Iterates("Verify")
    /\ op' = [op EXCEPT !.phase = "resolved", !.skip = FALSE, !.loops = @ + 1]
    /\ UNCHANGED <<taskVars, gitVars, stateVars, boundVars, historyVars>>

StartCherryPick ==
    /\ Iterates("StartCherryPick")
    /\ op' = [op EXCEPT !.base = IF @ = None THEN Len(branch) ELSE @, !.skip = FALSE,
                        !.loops = @ + 1, !.step = "picks", !.left = op.commits]
    /\ UNCHANGED <<taskVars, gitVars, stateVars, boundVars, historyVars>>

\* continue_cherry_pick: what is staged is committed, an empty pick is skipped
ContinueCherryPick ==
    /\ Iterates("ContinueCherryPick")
    /\ branch' = IF tree = "staged" THEN Append(branch, pick) ELSE branch
    /\ pick' = None /\ tree' = "clean"
    /\ op' = [op EXCEPT !.loops = @ + 1, !.step = "picks", !.left = op.commits]
    /\ UNCHANGED <<taskVars, stateVars, boundVars, historyVars>>

\* Mutant: only trailers since the attempt's base count
already_represented_since_base(c) == c \in Range(SubSeq(branch, op.base + 1, Len(branch)))

commit_already_represented(c) == Represented(c)

\* execute_cherry_picks, one commit: skipped when the branch has it, refused by
\* git when the index is not clean, and otherwise picked, with or without a
\* conflict; an empty pick leaves nothing
execute_cherry_pick ==
    /\ op # None
    /\ op.step = "picks"
    /\ op.left # <<>>
    /\ LET c == Head(op.left)
           rest == [op EXCEPT !.left = Tail(@)]
       IN  \/ /\ commit_already_represented(c)
              /\ op' = rest
              /\ UNCHANGED gitVars
           \/ /\ ~commit_already_represented(c) /\ tree # "clean"
              /\ op' = [op EXCEPT !.step = "conflict"]
              /\ UNCHANGED gitVars
           \/ /\ ~commit_already_represented(c) /\ tree = "clean"
              /\ IF Superseded(c)
                 THEN pick' = None /\ op' = rest /\ UNCHANGED <<branch, tree>>
                 ELSE \/ /\ branch' = Append(branch, c)
                         /\ pick' = None /\ op' = rest /\ UNCHANGED tree
                      \/ /\ pick' = c /\ tree' = "unmerged"
                         /\ op' = [op EXCEPT !.step = "conflict"]
                         /\ UNCHANGED branch
    /\ UNCHANGED <<taskVars, stateVars, boundVars, historyVars>>

picks_done ==
    /\ op # None
    /\ op.step = "picks"
    /\ op.left = <<>>
    /\ op' = [op EXCEPT !.step = "loop", !.phase = "resolved"]
    /\ UNCHANGED <<taskVars, gitVars, stateVars, boundVars, historyVars>>

persist_conflict_and_cleanup ==
    /\ op # None
    /\ op.step = "conflict"
    /\ phase' = [phase EXCEPT ![op.task] = "cherry_picking"]
    /\ base' = [base EXCEPT ![op.task] = op.base]
    /\ op' = None
    /\ UNCHANGED <<taskVars, gitVars, boundVars, historyVars>>

finalize_integration ==
    /\ Iterates("Finalize")
    /\ status' = [status EXCEPT ![op.task] = "closed"]
    /\ phase' = [phase EXCEPT ![op.task] = "complete"]
    /\ base' = [base EXCEPT ![op.task] = op.base]
    /\ closedAt' = [closedAt EXCEPT ![op.task] = latest[op.task]]
    /\ op' = None
    /\ UNCHANGED <<latest, round, request, gitVars, boundVars, approvals, strayed>>

\* The process dies; git keeps what it has done, the task keeps what was written
Crash ==
    /\ op # None
    /\ crashes < MaxCrashes
    /\ crashes' = crashes + 1
    /\ op' = None
    /\ UNCHANGED <<taskVars, gitVars, stateVars, aborts, historyVars>>
-----------------------------------------------------------------------------
(* action_abort_integration.rs *)

abort_integration(t) ==
    /\ op = None
    /\ phase[t] \in {"null", "cherry_picking", "resolved"}
    /\ aborts < MaxAborts
    /\ aborts' = aborts + 1
    /\ pick' = None /\ tree' = "clean"
    /\ IF phase[t] = "null"
       THEN UNCHANGED <<status, phase, strayed>>
       ELSE /\ status' = [status EXCEPT ![t] = "approved"]
            /\ phase' = [phase EXCEPT ![t] = "aborted"]
            /\ strayed' = IF status[t] # "approved" THEN strayed \cup {t} ELSE strayed
    /\ UNCHANGED <<latest, round, request, branch, base, op, crashes, approvals, closedAt>>
-----------------------------------------------------------------------------
Handler ==
    \/ Reject \/ StillUnresolved \/ ForceReset \/ Verify \/ StartCherryPick
    \/ ContinueCherryPick \/ execute_cherry_pick \/ picks_done
    \/ persist_conflict_and_cleanup \/ finalize_integration

Next ==
    \/ \E t \in Task : \/ \E new \in Status : update_task_status_atomic(t, new)
                       \/ write_round_request(t)
                       \/ checkpoint(t)
                       \/ \E force \in BOOLEAN : integrate(t, force)
                       \/ abort_integration(t)
    \/ resolve_conflict \/ resolve_to_nothing \/ commit_resolution \/ clear_pick
    \/ Handler
    \/ Crash

Spec == Init /\ [][Next]_vars

\* The handler runs to its end, and the supervisor does not leave conflicts
\* unresolved for ever.
FairSpec ==
    /\ Spec
    /\ WF_vars(Handler)
    /\ SF_vars(resolve_conflict)
-----------------------------------------------------------------------------
(* Properties *)

\* A task that integrate has closed is on the branch: every commit of the
\* version it was closed with, through conflicts, forced resets by the other
\* subtasks, aborts and a crash between the picks and the write of the task.
ClosedIsApplied ==
    \A t \in Task : status[t] = "closed" =>
        \A c \in Range(Delta[t][closedAt[t]]) : Represented(c)

\* No commit is picked twice, however often integrate is repeated, forced or
\* cut short, and whoever commits a resolution.
NoCommitTwice == IsInjective(branch)

\* What the supervisor has staged for a commit is never thrown away by a call
\* of integrate for that commit's task, nor by any call without force: it stays
\* in the index or gets committed.
StagedWorkIsKept ==
    [][op # None /\ tree = "staged" /\ (pick \in Range(op.commits) \/ ~op.force) =>
          \/ pick' = pick /\ tree' = "staged"
          \/ pick \in Range(branch')]_vars

\* A task whose status stayed approved during its attempt is closed with a
\* version that a review has approved, also when checkpoints and new rounds
\* came before the attempt.
IntegratedWasApproved ==
    \A t \in Task \ strayed : status[t] = "closed" => closedAt[t] \in approvals[t]

\* the supervisor works on t alone, and nothing outside integrate is in its way
Undisturbed(t) ==
    /\ op # None => op.task = t
    /\ latest[t] = request[t]
    /\ \A c \in Range(Delta[t][latest[t]]) : ~Superseded(c)

\* An approved task does not stay approved for ever when integrate is called
\* with force again and again, the other subtasks are left alone, its review is
\* not stale and its change did not reach the branch by another commit: the
\* task gets closed from whatever a crash, an abort or the attempt of another
\* subtask has left in the worktree.
ApprovedIsClosed ==
    \A t \in Task : []<><<integrate(t, TRUE)>>_vars =>
        ~<>[](status[t] = "approved" /\ Undisturbed(t))
=============================================================================
