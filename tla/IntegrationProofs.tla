-------------------------- MODULE IntegrationProofs --------------------------
(***************************************************************************)
(* What integrate promises, for any number of subtasks, versions, commits, *)
(* crashes and aborts.                                                     *)
(***************************************************************************)
EXTENDS Integration, TLAPS

\* A pick in progress is not on the branch yet.
PickInv == pick # None => pick \notin Range(branch)

\* A running call works for an open task, on the commits of its latest version.
CallInv ==
    op # None =>
        /\ status[op.task] # "closed"
        /\ op.commits = Delta[op.task][latest[op.task]]
        /\ op.phase # "complete"

\* The phase tells whether the task is closed.
PhaseInv == \A t \in Task : status[t] = "closed" <=> phase[t] = "complete"

\* Where the status did not stray: an approved task's newest request was
\* approved, an attempt is open only while the task is approved, and a call
\* past the first look at the status has found it approved.
ApprovalInv ==
    /\ \A t \in Task \ strayed :
           /\ status[t] = "approved" => request[t] \in approvals[t]
           /\ phase[t] \notin {"null", "complete"} => status[t] = "approved"
    /\ op # None /\ op.task \notin strayed =>
           /\ op.step # "loop" \/ op.phase # "null" => status[op.task] = "approved"
           /\ status[op.task] = "approved" => latest[op.task] \in approvals[op.task]

Inv ==
    /\ TypeOK /\ PickInv /\ NoCommitTwice /\ CallInv /\ PhaseInv
    /\ ClosedIsApplied /\ ApprovalInv /\ IntegratedWasApproved

\* A commit that the branch lacks can be appended: nothing is there twice.
LEMMA AppendCommit ==
  ASSUME NEW s \in Seq(Commit), NEW c \in Commit
  PROVE  /\ Append(s, c) \in Seq(Commit)
         /\ Range(Append(s, c)) = Range(s) \cup {c}
         /\ IsInjective(s) /\ c \notin Range(s) => IsInjective(Append(s, c))
  <1>1. /\ Append(s, c) \in Seq(Commit)
        /\ DOMAIN Append(s, c) = 1..(Len(s) + 1)
        /\ DOMAIN s = 1..Len(s) /\ Len(s) \in Nat
        /\ \A i \in 1..Len(s) : Append(s, c)[i] = s[i]
        /\ Append(s, c)[Len(s) + 1] = c
    OBVIOUS
  <1>2. Range(Append(s, c)) = Range(s) \cup {c}
    BY <1>1 DEF Range
  <1>3. ASSUME IsInjective(s), c \notin Range(s) PROVE IsInjective(Append(s, c))
    BY <1>1, <1>3 DEF IsInjective, Range
  <1> QED BY <1>1, <1>2, <1>3

LEMMA InitInv == Init => Inv
  <1> SUFFICES ASSUME Init PROVE Inv
    OBVIOUS
  <1> USE IntegrationAssumption
  <1>1. TypeOK
    BY DEF Init, TypeOK, Status, IntegrationPhase
  <1>2. Range(branch) = {} /\ IsInjective(branch)
    BY DEF Init, Range, IsInjective
  <1> QED BY <1>1, <1>2
          DEF Init, Inv, PickInv, NoCommitTwice, CallInv, PhaseInv, ClosedIsApplied,
              ApprovalInv, IntegratedWasApproved

\* Whatever grows the branch keeps the closed tasks applied.
LEMMA GrowthKeepsClosed ==
  ASSUME Inv, Range(branch) \subseteq Range(branch'),
         \A t \in Task : status'[t] = "closed" => status[t] = "closed",
         closedAt' = closedAt
  PROVE  ClosedIsApplied'
  BY DEF Inv, ClosedIsApplied, Represented
-----------------------------------------------------------------------------
(* reviews and the worker *)

LEMMA UpdateKeeps ==
  ASSUME Inv, NEW t \in Task, NEW new \in Status, update_task_status_atomic(t, new)
  PROVE  Inv'
  <1> USE IntegrationAssumption
  <1>0. PICK r \in {0, round[t], latest[t]} : round' = [round EXCEPT ![t] = r]
    BY DEF update_task_status_atomic
  <1>1. TypeOK'
    BY <1>0, SMTT(30) DEF Inv, TypeOK, update_task_status_atomic, gitVars, stateVars, boundVars
  <1>2. /\ status[t] # "closed" /\ new # "closed"
        /\ \A u \in Task : status'[u] = IF u = t THEN new ELSE status[u]
        /\ \A u \in Task : u # t => approvals'[u] = approvals[u]
        /\ approvals[t] \subseteq approvals'[t]
        /\ new = "approved" => request[t] \in approvals'[t]
        /\ UNCHANGED <<latest, request, branch, pick, tree, phase, base, op, closedAt>>
        /\ strayed \subseteq strayed' /\ (phase[t] # "null" => t \in strayed')
    BY DEF Inv, TypeOK, update_task_status_atomic, ReviewTransition, gitVars, stateVars
  <1>3. op # None => op.task # t
    BY DEF update_task_status_atomic, Unlocked
  <1>4. op # None => op.task \in Task
    BY DEF Inv, TypeOK, Call
  <1>5. PickInv' /\ NoCommitTwice'
    BY <1>2 DEF Inv, PickInv, NoCommitTwice
  <1>6. CallInv' /\ PhaseInv'
    BY <1>2, <1>3, <1>4 DEF Inv, CallInv, PhaseInv
  <1>7. ClosedIsApplied'
    BY <1>2, GrowthKeepsClosed
  <1>8. ApprovalInv'
    BY <1>2, <1>3, <1>4 DEF Inv, ApprovalInv
  <1>9. IntegratedWasApproved'
    BY <1>2 DEF Inv, IntegratedWasApproved
  <1> QED BY <1>1, <1>5, <1>6, <1>7, <1>8, <1>9 DEF Inv

LEMMA RequestKeeps ==
  ASSUME Inv, NEW t \in Task, write_round_request(t)
  PROVE  Inv'
  <1>1. TypeOK'
    BY DEF Inv, TypeOK, write_round_request, gitVars, stateVars, boundVars, historyVars
  <1>2. /\ status[t] = "in_review"
        /\ \A u \in Task : u # t => request'[u] = request[u]
        /\ UNCHANGED <<status, latest, branch, pick, tree, phase, base, op, closedAt,
                       approvals, strayed>>
    BY DEF Inv, TypeOK, write_round_request, gitVars, stateVars, historyVars
  <1>3. ApprovalInv'
    BY <1>2 DEF Inv, ApprovalInv
  <1>4. ClosedIsApplied'
    BY <1>2, GrowthKeepsClosed
  <1> QED BY <1>1, <1>2, <1>3, <1>4
          DEF Inv, PickInv, NoCommitTwice, CallInv, PhaseInv, IntegratedWasApproved

LEMMA CheckpointKeeps ==
  ASSUME Inv, NEW t \in Task, checkpoint(t)
  PROVE  Inv'
  <1>0. latest' \in [Task -> Nat] /\ \A u \in Task : latest'[u] \in 1..Versions[u]
    <2>1. latest' = [latest EXCEPT ![t] = latest[t] + 1] /\ latest[t] < Versions[t]
      BY DEF checkpoint
    <2>2. Versions[t] \in Nat /\ latest[t] \in Nat
      BY IntegrationAssumption DEF Inv, TypeOK
    <2> QED BY <2>1, <2>2, SMTT(30) DEF Inv, TypeOK
  <1>1. TypeOK'
    BY <1>0 DEF Inv, TypeOK, checkpoint, gitVars, stateVars, boundVars, historyVars
  <1>2. /\ \A u \in Task : u # t => latest'[u] = latest[u]
        /\ UNCHANGED <<status, request, branch, pick, tree, phase, base, op, closedAt,
                       approvals, strayed>>
    BY DEF Inv, TypeOK, checkpoint, gitVars, stateVars, historyVars
  <1>3. op # None => op.task # t /\ op.task \in Task
    BY DEF Inv, TypeOK, Call, checkpoint, Unlocked
  <1>4. CallInv' /\ ApprovalInv'
    BY <1>2, <1>3 DEF Inv, CallInv, ApprovalInv
  <1>5. ClosedIsApplied'
    BY <1>2, GrowthKeepsClosed
  <1> QED BY <1>1, <1>2, <1>4, <1>5
          DEF Inv, PickInv, NoCommitTwice, PhaseInv, IntegratedWasApproved
-----------------------------------------------------------------------------
(* the supervisor's hands *)

\* A step that leaves the tasks and the calls alone and adds at most the pick
\* in progress to the branch.
LEMMA GitStepKeeps ==
  ASSUME Inv, TypeOK', UNCHANGED <<taskVars, stateVars, historyVars>>,
         op' = None \/ op' = op,
         \/ branch' = branch /\ pick' \in {pick, None}
         \/ pick # None /\ branch' = Append(branch, pick) /\ pick' = None
  PROVE  Inv'
  <1>1. /\ Range(branch) \subseteq Range(branch')
        /\ PickInv' /\ NoCommitTwice'
    <2>1. CASE branch' = branch /\ pick' \in {pick, None}
      BY <2>1 DEF Inv, PickInv, NoCommitTwice
    <2>2. CASE pick # None /\ branch' = Append(branch, pick) /\ pick' = None
      BY <2>2, AppendCommit DEF Inv, TypeOK, PickInv, NoCommitTwice
    <2> QED BY <2>1, <2>2
  <1>2. ClosedIsApplied'
    BY <1>1, GrowthKeepsClosed DEF taskVars, historyVars
  <1> QED BY <1>1, <1>2
          DEF Inv, CallInv, PhaseInv, ApprovalInv, IntegratedWasApproved,
              taskVars, stateVars, historyVars

LEMMA HandsKeep ==
  ASSUME Inv, resolve_conflict \/ resolve_to_nothing \/ commit_resolution \/ clear_pick
  PROVE  Inv'
  <1> USE IntegrationAssumption
  <1>1. CASE resolve_conflict
    <2>1. TypeOK'
      BY <1>1 DEF Inv, TypeOK, resolve_conflict, taskVars, stateVars, boundVars, historyVars
    <2> QED BY <1>1, <2>1, GitStepKeeps DEF resolve_conflict
  <1>2. CASE resolve_to_nothing
    <2>1. TypeOK'
      BY <1>2 DEF Inv, TypeOK, resolve_to_nothing, taskVars, stateVars, historyVars
    <2> QED BY <1>2, <2>1, GitStepKeeps DEF resolve_to_nothing
  <1>3. CASE commit_resolution
    <2>0. pick \in Commit /\ Append(branch, pick) \in Seq(Commit)
      BY <1>3, AppendCommit DEF Inv, TypeOK, commit_resolution
    <2>1. TypeOK'
      BY <1>3, <2>0
      DEF Inv, TypeOK, commit_resolution, taskVars, stateVars, boundVars, historyVars
    <2> QED BY <1>3, <2>0, <2>1, GitStepKeeps DEF commit_resolution
  <1>4. CASE clear_pick
    <2>1. TypeOK'
      BY <1>4 DEF Inv, TypeOK, clear_pick, taskVars, stateVars, historyVars
    <2> QED BY <1>4, <2>1, GitStepKeeps DEF clear_pick
  <1> QED BY <1>1, <1>2, <1>3, <1>4
-----------------------------------------------------------------------------
(* the handler *)

\* A call begins on the newest request, which is the latest commit.
LEMMA IntegrateKeeps ==
  ASSUME Inv, NEW t \in Task, NEW force \in BOOLEAN, integrate(t, force)
  PROVE  Inv'
  <1>0. /\ op = None /\ status[t] # "closed"
        /\ UNCHANGED <<latest, round, request, branch, pick, tree, phase, base, crashes,
                       aborts, approvals, closedAt>>
    BY DEF integrate, gitVars, stateVars, boundVars
  <1>1. CASE latest[t] # request[t]
    <2>1. /\ status' = [status EXCEPT ![t] = "review_ready"] /\ op' = op
          /\ strayed' \in SUBSET Task
          /\ strayed \subseteq strayed' /\ (phase[t] # "null" => t \in strayed')
      BY <1>1 DEF integrate, Inv, TypeOK
    <2>2. TypeOK'
      BY <1>0, <2>1 DEF Inv, TypeOK, Status
    <2>3. ClosedIsApplied'
      BY <1>0, <2>1, GrowthKeepsClosed DEF Inv, TypeOK
    <2>4. \A u \in Task : status'[u] = IF u = t THEN "review_ready" ELSE status[u]
      BY <2>1 DEF Inv, TypeOK
    <2>5. PickInv' /\ NoCommitTwice' /\ CallInv'
      BY <1>0, <2>1 DEF Inv, PickInv, NoCommitTwice, CallInv
    <2>6. PhaseInv'
      BY <1>0, <2>4 DEF Inv, PhaseInv
    <2>7. ApprovalInv'
      BY <1>0, <2>1, <2>4 DEF Inv, ApprovalInv
    <2>8. IntegratedWasApproved'
      BY <1>0, <2>1, <2>4 DEF Inv, IntegratedWasApproved
    <2> QED BY <2>2, <2>3, <2>5, <2>6, <2>7, <2>8 DEF Inv
  <1>2. CASE latest[t] = request[t]
    <2> DEFINE call == [task |-> t, force |-> force, phase |-> phase[t], base |-> base[t],
                        commits |-> Delta[t][request[t]], skip |-> FALSE, loops |-> 0,
                        step |-> "loop", left |-> <<>>]
    <2>1. op' = call /\ status' = status /\ strayed' = strayed
      BY <1>2 DEF integrate
    <2>2. Delta[t][request[t]] \in Seq(Commit)
      BY <1>2, IntegrationAssumption DEF Inv, TypeOK
    <2>3. call \in Call /\ call # None
      <3>1. /\ phase[t] \in IntegrationPhase /\ base[t] \in Nat \cup {None}
            /\ <<>> \in Seq(Commit)
        BY DEF Inv, TypeOK
      <3>2. call \in Call
        BY <2>2, <3>1 DEF Call
      <3> QED BY <3>2, IntegrationAssumption
    <2>4. TypeOK'
      BY <1>0, <2>1, <2>3 DEF Inv, TypeOK
    <2>5. ClosedIsApplied'
      BY <1>0, <2>1, GrowthKeepsClosed
    <2>6. CallInv'
      BY <1>0, <1>2, <2>1 DEF CallInv, Inv, PhaseInv
    <2>7. ApprovalInv'
      BY <1>0, <1>2, <2>1 DEF Inv, ApprovalInv, PhaseInv
    <2> QED BY <1>0, <2>1, <2>4, <2>5, <2>6, <2>7
            DEF Inv, PickInv, NoCommitTwice, PhaseInv, IntegratedWasApproved
  <1> QED BY <1>1, <1>2

\* A step inside a call: it keeps task and commits, and it leaves the first
\* look only if the task is approved or the attempt was open.
LEMMA CallStepKeeps ==
  ASSUME Inv, op # None, UNCHANGED <<taskVars, stateVars, boundVars, historyVars>>,
         op' \in Call, op'.task = op.task, op'.commits = op.commits,
         op'.phase # "complete",
         \/ op'.step = "loop" /\ op'.phase = "null"
         \/ op.step # "loop" \/ op.phase # "null"
         \/ status[op.task] = "approved",
         branch' \in Seq(Commit), pick' \in Commit \cup {None},
         tree' \in {"clean", "unmerged", "staged"}, tree' # "clean" => pick' # None,
         Range(branch) \subseteq Range(branch'), PickInv', NoCommitTwice'
  PROVE  Inv'
  <1>0. op' # None
    BY IntegrationAssumption
  <1>1. TypeOK'
    BY DEF Inv, TypeOK, taskVars, stateVars, boundVars, historyVars
  <1>2. ClosedIsApplied'
    BY GrowthKeepsClosed DEF taskVars, historyVars
  <1>3. CallInv' /\ ApprovalInv'
    BY <1>0 DEF Inv, CallInv, ApprovalInv, taskVars, stateVars, historyVars
  <1> QED BY <1>1, <1>2, <1>3
          DEF Inv, PhaseInv, IntegratedWasApproved, taskVars, stateVars, historyVars

\* Only Reject is decided on a task that is not approved and has no attempt open.
LEMMA DecisionApproved ==
  ASSUME op # None, NEW a, Decision = a, a # "Reject", op.phase = "null"
  PROVE  status[op.task] = "approved" /\ a \in {"Verify", "StartCherryPick"}
  BY DEF Decision, next_state, null_transitions

LEMMA LoopStepsKeep ==
  ASSUME Inv, Reject \/ StillUnresolved \/ ForceReset \/ Verify \/ StartCherryPick
  PROVE  Inv'
  <1>0. op # None /\ op \in Call /\ op.loops + 1 \in Nat /\ op.phase # "complete"
        /\ Len(branch) \in Nat
    BY DEF Inv, TypeOK, CallInv, Call, Reject, StillUnresolved, ForceReset, Verify,
           StartCherryPick, Iterates
  <1>1. CASE Reject
    <2>1. TypeOK'
      BY <1>1 DEF Inv, TypeOK, Reject, taskVars, gitVars, stateVars, boundVars, historyVars
    <2> QED BY <1>1, <2>1, GitStepKeeps DEF Reject, gitVars
  <1>2. CASE StillUnresolved
    <2>1. op' = [op EXCEPT !.step = "conflict"]
      BY <1>2 DEF StillUnresolved
    <2>2. op' \in Call /\ op'.task = op.task /\ op'.commits = op.commits
          /\ op'.phase = op.phase
      BY <1>0, <2>1 DEF Call
    <2>3. op.phase # "null" \/ status[op.task] = "approved"
      BY <1>2, DecisionApproved DEF StillUnresolved, Iterates
    <2> QED BY <1>0, <1>2, <2>2, <2>3, CallStepKeeps
            DEF StillUnresolved, Inv, TypeOK, PickInv, NoCommitTwice, gitVars
  <1>3. CASE ForceReset
    <2>1. op' = [op EXCEPT !.phase = "null", !.base = Len(branch), !.skip = TRUE,
                           !.loops = @ + 1]
      BY <1>3 DEF ForceReset
    <2>2. op' \in Call /\ op'.task = op.task /\ op'.commits = op.commits
          /\ op'.phase = "null" /\ op'.step = "loop"
      <3>1. op.step = "loop"
        BY <1>3 DEF ForceReset, Iterates
      <3> QED BY <1>0, <2>1, <3>1 DEF Call, IntegrationPhase
    <2>3. UNCHANGED branch /\ (UNCHANGED <<pick, tree>> \/ (pick' = None /\ tree' = "clean"))
      BY <1>3 DEF ForceReset
    <2> QED BY <1>0, <1>3, <2>2, <2>3, CallStepKeeps
            DEF ForceReset, Inv, TypeOK, PickInv, NoCommitTwice
  <1>4. CASE Verify
    <2>1. op' = [op EXCEPT !.phase = "resolved", !.skip = FALSE, !.loops = @ + 1]
      BY <1>4 DEF Verify
    <2>2. op' \in Call /\ op'.task = op.task /\ op'.commits = op.commits
          /\ op'.phase = "resolved"
      BY <1>0, <2>1 DEF Call, IntegrationPhase
    <2>3. op.phase # "null" \/ status[op.task] = "approved"
      BY <1>4, DecisionApproved DEF Verify, Iterates
    <2> QED BY <1>0, <1>4, <2>2, <2>3, CallStepKeeps
            DEF Verify, Inv, TypeOK, PickInv, NoCommitTwice, gitVars
  <1>5. CASE StartCherryPick
    <2>1. op' = [op EXCEPT !.base = IF @ = None THEN Len(branch) ELSE @, !.skip = FALSE,
                           !.loops = @ + 1, !.step = "picks", !.left = op.commits]
      BY <1>5 DEF StartCherryPick
    <2>2. op' \in Call /\ op'.task = op.task /\ op'.commits = op.commits
          /\ op'.phase = op.phase
      BY <1>0, <2>1 DEF Call
    <2>3. op.phase # "null" \/ status[op.task] = "approved"
      BY <1>5, DecisionApproved DEF StartCherryPick, Iterates
    <2> QED BY <1>0, <1>5, <2>2, <2>3, CallStepKeeps
            DEF StartCherryPick, Inv, TypeOK, PickInv, NoCommitTwice, gitVars
  <1> QED BY <1>1, <1>2, <1>3, <1>4, <1>5

LEMMA ContinueKeeps ==
  ASSUME Inv, ContinueCherryPick
  PROVE  Inv'
  <1>0. op # None /\ op \in Call /\ op.loops + 1 \in Nat /\ op.phase # "complete"
    BY DEF Inv, TypeOK, CallInv, Call, ContinueCherryPick, Iterates
  <1>1. op' = [op EXCEPT !.loops = @ + 1, !.step = "picks", !.left = op.commits]
    BY DEF ContinueCherryPick
  <1>2. op' \in Call /\ op'.task = op.task /\ op'.commits = op.commits /\ op'.phase = op.phase
    BY <1>0, <1>1 DEF Call
  <1>3. op.phase # "null" \/ status[op.task] = "approved"
    BY DecisionApproved DEF ContinueCherryPick, Iterates
  <1>4. /\ branch' \in Seq(Commit) /\ Range(branch) \subseteq Range(branch')
        /\ pick' = None /\ tree' = "clean" /\ NoCommitTwice'
    BY AppendCommit DEF ContinueCherryPick, Inv, TypeOK, PickInv, NoCommitTwice
  <1> QED BY <1>0, <1>2, <1>3, <1>4, CallStepKeeps DEF ContinueCherryPick, PickInv

LEMMA PickKeeps ==
  ASSUME Inv, execute_cherry_pick
  PROVE  Inv'
  <1> DEFINE c == Head(op.left)
             rest == [op EXCEPT !.left = Tail(@)]
             stopped == [op EXCEPT !.step = "conflict"]
  <1>0. /\ op # None /\ op \in Call /\ op.phase # "complete" /\ op.step = "picks"
        /\ c \in Commit /\ Tail(op.left) \in Seq(Commit)
    BY DEF Inv, TypeOK, CallInv, Call, execute_cherry_pick
  <1>1. op' \in {rest, stopped}
    BY DEF execute_cherry_pick
  <1>2. op' \in Call /\ op'.task = op.task /\ op'.commits = op.commits /\ op'.phase = op.phase
    BY <1>0, <1>1 DEF Call
  <1>3. \/ UNCHANGED gitVars
        \/ c \notin Range(branch) /\ tree = "clean" /\ pick' = None /\ UNCHANGED <<branch, tree>>
        \/ /\ c \notin Range(branch) /\ tree = "clean"
           /\ branch' = Append(branch, c) /\ pick' = None /\ UNCHANGED tree
        \/ c \notin Range(branch) /\ pick' = c /\ tree' = "unmerged" /\ UNCHANGED branch
    BY DEF execute_cherry_pick, commit_already_represented, Represented
  <1>4. /\ branch' \in Seq(Commit) /\ pick' \in Commit \cup {None}
        /\ tree' \in {"clean", "unmerged", "staged"} /\ (tree' # "clean" => pick' # None)
        /\ Range(branch) \subseteq Range(branch') /\ PickInv' /\ NoCommitTwice'
    <2> HIDE DEF c
    <2>1. CASE UNCHANGED gitVars
      BY <2>1 DEF Inv, TypeOK, PickInv, NoCommitTwice, gitVars
    <2>2. CASE tree = "clean" /\ pick' = None /\ UNCHANGED <<branch, tree>>
      BY <2>2 DEF Inv, TypeOK, PickInv, NoCommitTwice
    <2>3. CASE /\ c \notin Range(branch) /\ tree = "clean"
               /\ branch' = Append(branch, c) /\ pick' = None /\ UNCHANGED tree
      BY <1>0, <2>3, AppendCommit DEF Inv, TypeOK, PickInv, NoCommitTwice
    <2>4. CASE c \notin Range(branch) /\ pick' = c /\ tree' = "unmerged" /\ UNCHANGED branch
      BY <1>0, <2>4, IntegrationAssumption DEF Inv, TypeOK, PickInv, NoCommitTwice
    <2> QED BY <1>3, <2>1, <2>2, <2>3, <2>4
  <1> QED BY <1>0, <1>2, <1>4, CallStepKeeps DEF execute_cherry_pick

LEMMA PicksDoneKeeps ==
  ASSUME Inv, picks_done
  PROVE  Inv'
  <1>0. op # None /\ op \in Call /\ op.step = "picks"
    BY DEF Inv, TypeOK, picks_done
  <1>1. op' = [op EXCEPT !.step = "loop", !.phase = "resolved"]
    BY DEF picks_done
  <1>2. op' \in Call /\ op'.task = op.task /\ op'.commits = op.commits
        /\ op'.phase = "resolved"
    BY <1>0, <1>1 DEF Call, IntegrationPhase
  <1> QED BY <1>0, <1>2, CallStepKeeps
          DEF picks_done, Inv, TypeOK, PickInv, NoCommitTwice, gitVars

LEMMA PersistKeeps ==
  ASSUME Inv, persist_conflict_and_cleanup
  PROVE  Inv'
  <1>0. op # None /\ op \in Call /\ op.task \in Task /\ op.base \in Nat \cup {None}
        /\ op.step # "loop" /\ op' = None
    BY DEF Inv, TypeOK, Call, persist_conflict_and_cleanup
  <1>1. TypeOK'
    BY <1>0 DEF Inv, TypeOK, IntegrationPhase, persist_conflict_and_cleanup, taskVars,
                gitVars, boundVars, historyVars
  <1>2. /\ \A u \in Task : phase'[u] = IF u = op.task THEN "cherry_picking" ELSE phase[u]
        /\ UNCHANGED <<status, latest, request, branch, pick, tree, approvals, strayed,
                       closedAt>>
    BY DEF Inv, TypeOK, persist_conflict_and_cleanup, taskVars, gitVars, historyVars
  <1>3. ClosedIsApplied'
    BY <1>2, GrowthKeepsClosed
  <1>4. CallInv' /\ PhaseInv' /\ ApprovalInv'
    BY <1>0, <1>2 DEF Inv, CallInv, PhaseInv, ApprovalInv
  <1> QED BY <1>1, <1>2, <1>3, <1>4
          DEF Inv, PickInv, NoCommitTwice, IntegratedWasApproved

\* Finalize is decided only with every commit of the call on the branch.
LEMMA FinalizeApplied ==
  ASSUME Inv, Iterates("Finalize")
  PROVE  /\ op.phase # "null"
         /\ \A c \in Range(op.commits) : Represented(c)
  <1> DEFINE probes == IF op.skip THEN default_probes ELSE run_git_probes(op)
  <1>1. op.phase \in {"null", "cherry_picking", "resolved", "aborted"}
    BY DEF Inv, TypeOK, CallInv, Call, IntegrationPhase, Iterates
  <1>2. op.phase \notin {"null", "cherry_picking"}
    BY DEF Iterates, Decision, next_state, null_transitions,
           cherry_picking_integrate_transitions
  <1>3. probes.applied
    BY <1>1, <1>2 DEF Iterates, Decision, next_state, resolved_transitions,
                      aborted_transitions
  <1>4. ~op.skip
    BY <1>3 DEF default_probes
  <1> QED BY <1>2, <1>3, <1>4 DEF run_git_probes

LEMMA FinalizeKeeps ==
  ASSUME Inv, finalize_integration
  PROVE  Inv'
  <1>0. op # None /\ op \in Call /\ op.task \in Task /\ op.base \in Nat \cup {None}
        /\ op' = None
    BY DEF Inv, TypeOK, Call, finalize_integration, Iterates
  <1>1. op.phase # "null" /\ \A c \in Range(op.commits) : Represented(c)
    BY FinalizeApplied DEF finalize_integration
  <1>2. TypeOK'
    BY <1>0 DEF Inv, TypeOK, Status, IntegrationPhase, finalize_integration, gitVars,
                boundVars
  <1>3. /\ \A u \in Task : status'[u] = IF u = op.task THEN "closed" ELSE status[u]
        /\ \A u \in Task : phase'[u] = IF u = op.task THEN "complete" ELSE phase[u]
        /\ \A u \in Task : closedAt'[u] = IF u = op.task THEN latest[u] ELSE closedAt[u]
        /\ UNCHANGED <<latest, request, branch, pick, tree, approvals, strayed>>
    BY <1>0 DEF Inv, TypeOK, finalize_integration, gitVars
  <1>4. ClosedIsApplied'
    <2> SUFFICES ASSUME NEW u \in Task, status'[u] = "closed",
                        NEW c \in Range(Delta[u][closedAt'[u]])
                 PROVE  c \in Range(branch)
      BY <1>3 DEF ClosedIsApplied, Represented
    <2>1. CASE u = op.task
      BY <1>0, <1>1, <1>3, <2>1 DEF Inv, CallInv, Represented
    <2>2. CASE u # op.task
      BY <1>3, <2>2 DEF Inv, ClosedIsApplied, Represented
    <2> QED BY <2>1, <2>2
  <1>5. CallInv' /\ PhaseInv' /\ ApprovalInv'
    <2>1. CallInv'
      BY <1>0 DEF CallInv
    <2>2. PhaseInv'
      BY <1>3 DEF Inv, PhaseInv
    <2>3. ApprovalInv'
      <3> SUFFICES ASSUME NEW u \in Task, u \notin strayed
                   PROVE  /\ status'[u] = "approved" => request[u] \in approvals[u]
                          /\ phase'[u] \notin {"null", "complete"} => status'[u] = "approved"
        BY <1>0, <1>3 DEF ApprovalInv
      <3>1. /\ status[u] = "approved" => request[u] \in approvals[u]
            /\ phase[u] \notin {"null", "complete"} => status[u] = "approved"
        BY DEF Inv, ApprovalInv
      <3> QED BY <1>3, <3>1
    <2> QED BY <2>1, <2>2, <2>3
  <1>6. IntegratedWasApproved'
    <2> SUFFICES ASSUME NEW u \in Task \ strayed, status'[u] = "closed"
                 PROVE  closedAt'[u] \in approvals[u]
      BY <1>3 DEF IntegratedWasApproved
    <2>1. CASE u = op.task
      <3>1. latest[u] \in approvals[u]
        BY <1>0, <1>1, <2>1 DEF Inv, ApprovalInv
      <3> QED BY <1>3, <2>1, <3>1
    <2>2. CASE u # op.task
      <3>1. status[u] = "closed" /\ closedAt'[u] = closedAt[u]
        BY <1>3, <2>2
      <3> QED BY <3>1 DEF Inv, IntegratedWasApproved
    <2> QED BY <2>1, <2>2
  <1> QED BY <1>2, <1>3, <1>4, <1>5, <1>6 DEF Inv, PickInv, NoCommitTwice

LEMMA CrashKeeps ==
  ASSUME Inv, Crash
  PROVE  Inv'
  <1>1. TypeOK'
    <2>1. /\ crashes < MaxCrashes /\ crashes' = crashes + 1 /\ op' = None
          /\ UNCHANGED <<status, latest, round, request, branch, pick, tree, phase, base,
                         aborts, approvals, strayed, closedAt>>
      BY DEF Crash, taskVars, gitVars, stateVars, historyVars
    <2>2. crashes \in 0..MaxCrashes
      BY DEF Inv, TypeOK
    <2>3. crashes' \in 0..MaxCrashes
      BY <2>1, <2>2, IntegrationAssumption
    <2> QED BY <2>1, <2>3 DEF Inv, TypeOK
  <1> QED BY <1>1, GitStepKeeps DEF Crash, gitVars

LEMMA AbortKeeps ==
  ASSUME Inv, NEW t \in Task, abort_integration(t)
  PROVE  Inv'
  <1>0. op = None /\ phase[t] # "complete" /\ pick' = None /\ tree' = "clean"
        /\ UNCHANGED <<latest, round, request, branch, base, op, crashes, approvals, closedAt>>
    BY DEF abort_integration
  <1>1. TypeOK'
    <2>1. status' \in [Task -> Status] /\ phase' \in [Task -> IntegrationPhase]
          /\ strayed' \subseteq Task
      <3>1. "approved" \in Status /\ "aborted" \in IntegrationPhase
        BY DEF Status, IntegrationPhase
      <3>2. CASE phase[t] = "null"
        <4>1. UNCHANGED <<status, phase, strayed>>
          BY <3>2 DEF abort_integration
        <4> QED BY <4>1 DEF Inv, TypeOK
      <3>3. CASE phase[t] # "null"
        <4>1. /\ status' = [status EXCEPT ![t] = "approved"]
              /\ phase' = [phase EXCEPT ![t] = "aborted"]
              /\ strayed' \in {strayed, strayed \cup {t}}
          BY <3>3 DEF abort_integration
        <4> QED BY <3>1, <4>1 DEF Inv, TypeOK
      <3> QED BY <3>2, <3>3
    <2>2. aborts' \in 0..MaxAborts
      <3>1. aborts \in 0..MaxAborts
        BY DEF Inv, TypeOK
      <3>2. aborts < MaxAborts /\ aborts' = aborts + 1
        BY DEF abort_integration
      <3> QED BY <3>1, <3>2, IntegrationAssumption
    <2> QED BY <1>0, <2>1, <2>2 DEF Inv, TypeOK
  <1>2. /\ \A u \in Task : u # t => status'[u] = status[u] /\ phase'[u] = phase[u]
        /\ strayed \subseteq strayed'
        /\ \/ status'[t] = status[t] /\ phase'[t] = phase[t]
           \/ /\ status'[t] = "approved" /\ phase'[t] = "aborted"
              /\ status[t] # "approved" => t \in strayed'
    <2>1. status \in [Task -> Status] /\ phase \in [Task -> IntegrationPhase]
      BY DEF Inv, TypeOK
    <2>2. CASE phase[t] = "null"
      BY <2>2 DEF abort_integration
    <2>3. CASE phase[t] # "null"
      BY <2>1, <2>3 DEF abort_integration
    <2> QED BY <2>2, <2>3
  <1>3. status[t] # "closed"
    BY <1>0 DEF Inv, PhaseInv
  <1>4. ClosedIsApplied'
    BY <1>0, <1>2, <1>3, GrowthKeepsClosed
  <1>5. PhaseInv'
    BY <1>0, <1>2, <1>3 DEF Inv, PhaseInv
  <1>6. ApprovalInv'
    <2> SUFFICES ASSUME NEW u \in Task, u \notin strayed'
                 PROVE  /\ status'[u] = "approved" => request[u] \in approvals[u]
                        /\ phase'[u] \notin {"null", "complete"} => status'[u] = "approved"
      BY <1>0 DEF ApprovalInv
    <2>1. u \notin strayed
      BY <1>2
    <2>2. /\ status[u] = "approved" => request[u] \in approvals[u]
          /\ phase[u] \notin {"null", "complete"} => status[u] = "approved"
      BY <2>1 DEF Inv, ApprovalInv
    <2> QED BY <1>2, <2>2
  <1>7. IntegratedWasApproved'
    BY <1>0, <1>2, <1>3 DEF Inv, IntegratedWasApproved
  <1> QED BY <1>0, <1>1, <1>4, <1>5, <1>6, <1>7 DEF Inv, PickInv, NoCommitTwice, CallInv
-----------------------------------------------------------------------------
LEMMA Invariance == Spec => []Inv
  <1>1. Inv /\ [Next]_vars => Inv'
    <2> SUFFICES ASSUME Inv, [Next]_vars PROVE Inv'
      OBVIOUS
    <2>1. CASE \E t \in Task : \E new \in Status : update_task_status_atomic(t, new)
      BY <2>1, UpdateKeeps
    <2>2. CASE \E t \in Task : write_round_request(t) \/ checkpoint(t)
      BY <2>2, RequestKeeps, CheckpointKeeps
    <2>3. CASE \E t \in Task : \E force \in BOOLEAN : integrate(t, force)
      BY <2>3, IntegrateKeeps
    <2>4. CASE \E t \in Task : abort_integration(t)
      BY <2>4, AbortKeeps
    <2>5. CASE resolve_conflict \/ resolve_to_nothing \/ commit_resolution \/ clear_pick
      BY <2>5, HandsKeep
    <2>6. CASE Handler
      BY <2>6, LoopStepsKeep, ContinueKeeps, PickKeeps, PicksDoneKeeps, PersistKeeps,
         FinalizeKeeps DEF Handler
    <2>7. CASE Crash
      BY <2>7, CrashKeeps
    <2>8. CASE UNCHANGED vars
      BY <2>8 DEF Inv, TypeOK, PickInv, NoCommitTwice, CallInv, PhaseInv, ClosedIsApplied,
                  Represented, ApprovalInv, IntegratedWasApproved, vars, taskVars, gitVars,
                  stateVars, boundVars, historyVars
    <2> QED BY <2>1, <2>2, <2>3, <2>4, <2>5, <2>6, <2>7, <2>8 DEF Next
  <1> QED BY <1>1, InitInv, PTL DEF Spec

\* A subtask that finalize_integration has closed has every commit of its
\* latest version on the epic branch, whatever the supervisor, the other
\* subtasks, forced retries, aborts and crashes did before and do afterwards.
THEOREM ClosedStaysApplied == Spec => []ClosedIsApplied
  <1>1. Inv => ClosedIsApplied
    BY DEF Inv
  <1> QED BY <1>1, Invariance, PTL

\* The epic branch never carries a commit twice: execute_cherry_picks and
\* continue_cherry_pick between them apply each at most once.
THEOREM PickedOnce == Spec => []NoCommitTwice
  <1>1. Inv => NoCommitTwice
    BY DEF Inv
  <1> QED BY <1>1, Invariance, PTL

\* A subtask whose status stayed approved during its attempt is closed with a
\* version that a review approved.
THEOREM ApprovedVersionsOnly == Spec => []IntegratedWasApproved
  <1>1. Inv => IntegratedWasApproved
    BY DEF Inv
  <1> QED BY <1>1, Invariance, PTL

\* After a forced reset the probes are passed over for one look at the null
\* phase, and for no other.
SkipInv == op # None /\ op.skip => op.phase = "null" /\ op.step = "loop"

\* Every step keeps that.
LEMMA SkipStep == Inv /\ SkipInv /\ [Next]_vars => SkipInv'
  <1> SUFFICES ASSUME Inv, SkipInv, [Next]_vars, op' # None PROVE SkipInv'
    BY DEF SkipInv
  <1>1. op # None => op \in Call
    BY DEF Inv, TypeOK
  <1>2. CASE op' = op
    BY <1>2 DEF SkipInv
  <1>3. ASSUME NEW t \in Task, NEW force \in BOOLEAN, integrate(t, force) PROVE SkipInv'
    <2>1. CASE latest[t] # request[t]
      BY <1>2, <1>3, <2>1 DEF integrate
    <2>2. CASE latest[t] = request[t]
      <3>1. op' = [task |-> t, force |-> force, phase |-> phase[t], base |-> base[t],
                   commits |-> Delta[t][request[t]], skip |-> FALSE, loops |-> 0,
                   step |-> "loop", left |-> <<>>]
        BY <1>3, <2>2 DEF integrate
      <3> QED BY <3>1 DEF SkipInv
    <2> QED BY <2>1, <2>2
  <1>4. CASE ForceReset
    <2>1. op'.phase = "null" /\ op'.step = op.step /\ op.step = "loop"
      BY <1>1, <1>4 DEF ForceReset, Iterates, Call
    <2> QED BY <2>1 DEF SkipInv
  <1>5. CASE Verify \/ StartCherryPick
    <2>1. op'.skip = FALSE
      BY <1>1, <1>5 DEF Verify, StartCherryPick, Iterates, Call
    <2> QED BY <2>1 DEF SkipInv
  <1>6. CASE ContinueCherryPick \/ StillUnresolved
    <2>1. op # None /\ op'.skip = op.skip
      BY <1>1, <1>6 DEF ContinueCherryPick, StillUnresolved, Iterates, Call
    <2>2. op.phase # "null"
      <3>1. Decision \in {"ContinueCherryPick", "StillUnresolved"}
        BY <1>6 DEF ContinueCherryPick, StillUnresolved, Iterates
      <3> QED BY <3>1 DEF Decision, next_state, null_transitions
    <2> QED BY <2>1, <2>2 DEF SkipInv
  <1>7. CASE execute_cherry_pick \/ picks_done
    <2>1. op # None /\ op.step = "picks" /\ op'.skip = op.skip
      BY <1>1, <1>7 DEF execute_cherry_pick, picks_done, Call
    <2> QED BY <2>1 DEF SkipInv
  <1>8. CASE Reject \/ persist_conflict_and_cleanup \/ finalize_integration \/ Crash
    BY <1>8 DEF Reject, persist_conflict_and_cleanup, finalize_integration, Crash
  <1>9. ASSUME NEW t \in Task, NEW new \in Status,
               \/ update_task_status_atomic(t, new) \/ write_round_request(t)
               \/ checkpoint(t) \/ abort_integration(t)
        PROVE  op' = op
    BY <1>9 DEF update_task_status_atomic, write_round_request, checkpoint,
                abort_integration
  <1>10. CASE resolve_conflict \/ resolve_to_nothing \/ commit_resolution \/ clear_pick
    BY <1>2, <1>10
    DEF resolve_conflict, resolve_to_nothing, commit_resolution, clear_pick
  <1>11. CASE UNCHANGED vars
    BY <1>2, <1>11 DEF vars
  <1>12. Status # {}
    BY DEF Status
  <1> QED
    BY <1>2, <1>3, <1>4, <1>5, <1>6, <1>7, <1>8, <1>9, <1>10, <1>11, <1>12
    DEF Next, Handler

\* A forced reset finds another task's pick in the worktree.
LEMMA ResetsForeignPick ==
    ASSUME Inv, SkipInv, ForceReset, op.phase = "cherry_picking", pick # None
    PROVE  op.force /\ pick \notin Range(op.commits)
  <1>1. op # None /\ ~op.skip /\ Decision = "ForceReset"
    <2>1. op # None /\ op \in Call /\ Decision = "ForceReset"
      BY DEF ForceReset, Iterates, Inv, TypeOK
    <2> QED BY <2>1 DEF SkipInv
  <1> DEFINE probes == run_git_probes(op)
  <1>2. next_state(op.phase, status[op.task], probes, op.commits, op.force) = "ForceReset"
    BY <1>1 DEF Decision
  <1>3. op.force /\ cherry_picking_force_reset(probes, op.commits)
    BY <1>2 DEF next_state, cherry_picking_integrate_transitions
  <1>4. probes.sha = pick
    BY DEF run_git_probes
  <1> QED BY <1>3, <1>4 DEF cherry_picking_force_reset

\* What the supervisor staged is committed or left alone by integrate, unless
\* it is forced and the pick is another task's: reset_state_for_force_retry is
\* the only place that discards, and it looks at CHERRY_PICK_HEAD first.
THEOREM StagedWorkStays == Spec => StagedWorkIsKept
  <1> DEFINE Kept == op # None /\ tree = "staged" /\ (pick \in Range(op.commits) \/ ~op.force) =>
                        \/ pick' = pick /\ tree' = "staged"
                        \/ pick \in Range(branch')
  <1>1. ASSUME Inv, SkipInv, Next PROVE Kept
    <2> SUFFICES ASSUME op # None, tree = "staged",
                        pick \in Range(op.commits) \/ ~op.force
                 PROVE  \/ pick' = pick /\ tree' = "staged"
                        \/ pick \in Range(branch')
      BY DEF Kept
    <2>1. pick # None /\ pick \in Commit /\ branch \in Seq(Commit)
      BY <1>1 DEF Inv, TypeOK
    <2>2. CASE UNCHANGED <<pick, tree>>
      BY <2>2
    <2>3. CASE ForceReset
      <3>1. op.phase # "cherry_picking"
        BY <1>1, <2>1, <2>3, ResetsForeignPick
      <3> QED BY <2>2, <2>3, <3>1 DEF ForceReset
    <2>4. CASE ContinueCherryPick
      <3>1. branch' = Append(branch, pick)
        BY <2>4 DEF ContinueCherryPick
      <3> QED BY <2>1, <3>1, AppendCommit
    <2>5. CASE execute_cherry_pick
      BY <2>2, <2>5 DEF execute_cherry_pick, gitVars
    <2>6. CASE \/ Reject \/ StillUnresolved \/ Verify \/ StartCherryPick \/ picks_done
               \/ persist_conflict_and_cleanup \/ finalize_integration \/ Crash
      BY <2>2, <2>6 DEF Reject, StillUnresolved, Verify, StartCherryPick, picks_done,
                        persist_conflict_and_cleanup, finalize_integration, Crash, gitVars
    <2>7. ASSUME NEW t \in Task, NEW new \in Status, NEW force \in BOOLEAN,
                 \/ update_task_status_atomic(t, new) \/ write_round_request(t)
                 \/ checkpoint(t) \/ integrate(t, force) \/ abort_integration(t)
          PROVE  UNCHANGED <<pick, tree>>
      BY <2>7 DEF update_task_status_atomic, write_round_request, checkpoint, integrate,
                  abort_integration, gitVars
    <2>8. ~(resolve_conflict \/ resolve_to_nothing \/ commit_resolution \/ clear_pick)
      BY DEF resolve_conflict, resolve_to_nothing, commit_resolution, clear_pick
    <2>9. Status # {} /\ BOOLEAN # {}
      BY DEF Status
    <2> QED
      BY <1>1, <2>2, <2>3, <2>4, <2>5, <2>6, <2>7, <2>8, <2>9 DEF Next, Handler
  <1>2. Init => SkipInv
    BY DEF Init, SkipInv
  <1>3. Spec => []SkipInv
    BY <1>2, SkipStep, Invariance, PTL DEF Spec
  <1> QED BY <1>1, <1>3, Invariance, PTL DEF Spec, StagedWorkIsKept
=============================================================================
