----------------------------- MODULE Publishing -----------------------------
(***************************************************************************)
(* How a finished task of a batch is published: validation evidence        *)
(* (validation), draft pull request, independent review, bounded           *)
(* correction (review-runner) and merge (publishing-policy, github).       *)
(*                                                                         *)
(* Each operation is a sequence of steps with awaits between them; callers *)
(* run them at once, any step may throw, a process may die.  Evidence      *)
(* lives in the memory of its process.  What ends an operation without     *)
(* changing anything is Throw: a check that fails, a wait that times out,  *)
(* an answer that is lost, and what is checked after the last change.      *)
(*                                                                         *)
(* The commits of a task are numbered; only its correction workers commit  *)
(* and they build on what they find.  All tasks were planned on one base,  *)
(* and the evidence names the paths changed, not their contents.           *)
(***************************************************************************)
EXTENDS Integers, Sequences, FiniteSets

CONSTANTS Tasks, NoTask,
          Callers,
          MaxCycles, \* MVP_CONFIG.max_correction_cycles
          MaxHeads,  \* bound: commits of a task
          MaxRoles   \* bound: role batches

ASSUME PublishingAssumption ==
    /\ NoTask \notin Tasks
    /\ MaxCycles \in Nat /\ MaxHeads \in Nat \ {0} /\ MaxRoles \in Nat

VARIABLES
    batch,     \* the source batch: whether it is over, correction cycles reserved
    moved,     \* origin/main is no longer the base of the plans
    head,      \* HEAD of each task's worktree
    remote,    \* head of its pushed branch, 0 while there is none
    pr,        \* its pull request
    merged,    \* head of it that was merged, or 0
    validated, \* heads on which the validation commands have passed
    roles,     \* the review and correction batches, and the turn of each
    evidence,  \* each caller's evidence: the task, and the batch it was given for
    work       \* each caller's operation

gitHub == <<remote, pr, merged>>
vars   == <<batch, moved, head, gitHub, validated, roles, evidence, work>>

NoEvidence == [task |-> NoTask, batch |-> [over |-> FALSE, cycles |-> 0]]
NoWork     == [op |-> "none", pc |-> "idle", head |-> 0, ref |-> 0, role |-> 0]

Init ==
    /\ batch = [over |-> FALSE, cycles |-> 0]
    /\ moved = FALSE
    /\ head = [t \in Tasks |-> 1]
    /\ remote = [t \in Tasks |-> 0]
    /\ pr = [t \in Tasks |-> "none"]
    /\ merged = [t \in Tasks |-> 0]
    /\ validated = {}
    /\ roles = <<>>
    /\ evidence = [c \in Callers |-> NoEvidence]
    /\ work = [c \in Callers |-> NoWork]

TaskOf(c)   == evidence[c].task
Goto(c, pc) == work' = [work EXCEPT ![c].pc = pc]
End(c)      == work' = [work EXCEPT ![c] = NoWork]
At(c, pc)   == work[c].pc = pc

IsOpen(t) == pr[t] \in {"draft", "ready"}

-----------------------------------------------------------------------------
(* Validation and evidence. *)

\* validateTaskPlanExecution: the worker's turn has succeeded, the commands pass.
Validate(c, t) ==
    /\ work[c].pc = "idle"
    /\ ~moved
    /\ evidence[c] # [task |-> t, batch |-> batch]
    /\ evidence' = [evidence EXCEPT ![c] = [task |-> t, batch |-> batch]]
    /\ UNCHANGED <<batch, moved, head, gitHub, validated, roles, work>>

\* assertPublishable: the batch is as it was and main is still the base.
Publishable(c) == TaskOf(c) # NoTask /\ evidence[c].batch = batch /\ ~moved

\* assertTaskHeadCurrent.
Current(c) == Publishable(c) /\ head[TaskOf(c)] = work[c].head

\* What every operation begins with: capturePublishableTaskHead.
Capture(c, op, pc, ref) ==
    /\ At(c, "idle")
    /\ Publishable(c)
    /\ validated' = validated \cup {<<TaskOf(c), head[TaskOf(c)]>>}
    /\ work' = [work EXCEPT ![c] = [op |-> op, pc |-> pc, head |-> head[TaskOf(c)],
                                    ref |-> ref, role |-> 0]]
    /\ UNCHANGED <<batch, moved, head, gitHub, roles, evidence>>

Throw(c) ==
    /\ work[c].pc # "idle"
    /\ End(c)
    /\ UNCHANGED <<batch, moved, head, gitHub, validated, roles, evidence>>

\* A process dies; in one that is idle only evidence is lost, which Validate renews.
Crash(c) ==
    /\ work[c].pc # "idle"
    /\ End(c)
    /\ evidence' = [evidence EXCEPT ![c] = NoEvidence]
    /\ UNCHANGED <<batch, moved, head, gitHub, validated, roles>>

-----------------------------------------------------------------------------
(* createDraftPullRequest and updateDraftPullRequest. *)

Draft(c)  == Capture(c, "draft", "push", 0)
Update(c) == Capture(c, "update", "look", 0)

\* The pull request to update is an open draft.
Look(c) ==
    /\ At(c, "look")
    /\ pr[TaskOf(c)] = "draft"
    /\ Goto(c, "push")
    /\ UNCHANGED <<batch, moved, head, gitHub, validated, roles, evidence>>

\* Mutant: what is pushed is the HEAD of the worktree.
PushHead(c) ==
    /\ At(c, "push")
    /\ remote' = [remote EXCEPT ![TaskOf(c)] = head[TaskOf(c)]]
    /\ IF work[c].op = "draft" THEN Goto(c, "list") ELSE End(c)
    /\ UNCHANGED <<batch, moved, head, pr, merged, validated, roles, evidence>>

\* pushTaskBranch, which only creates the branch or moves it forward.
Push(c) ==
    /\ At(c, "push")
    /\ head[TaskOf(c)] = work[c].head
    /\ remote[TaskOf(c)] <= work[c].head
    /\ remote' = [remote EXCEPT ![TaskOf(c)] = work[c].head]
    /\ IF work[c].op = "draft" THEN Goto(c, "list") ELSE End(c)
    /\ UNCHANGED <<batch, moved, head, pr, merged, validated, roles, evidence>>

List(c) ==
    /\ At(c, "list")
    /\ Current(c)
    /\ ~IsOpen(TaskOf(c))
    /\ Goto(c, "create")
    /\ UNCHANGED <<batch, moved, head, gitHub, validated, roles, evidence>>

Create(c) ==
    /\ At(c, "create")
    /\ ~IsOpen(TaskOf(c))
    /\ pr' = [pr EXCEPT ![TaskOf(c)] = "draft"]
    /\ End(c)
    /\ UNCHANGED <<batch, moved, head, remote, merged, validated, roles, evidence>>

-----------------------------------------------------------------------------
(* Role batches: runIndependentReview and runBoundedCorrection. *)

Review(c)       == Capture(c, "review", "enqueue", 0)
Correct(c, ref) == Capture(c, "correct", "verify", ref)

\* verifyIndependentReview: the review referred to is recorded, of this task,
\* and of the head the worktree has now.
Verified(c) ==
    LET r == roles[work[c].ref] IN
    /\ Publishable(c)
    /\ r.kind = "review" /\ r.state = "COMPLETED" /\ r.task = TaskOf(c)
    /\ r.head = head[TaskOf(c)]

VerifyFindings(c) ==
    /\ At(c, "verify") /\ work[c].op = "correct"
    /\ Verified(c)
    /\ roles[work[c].ref].verdict = "CHANGES_REQUESTED"
    /\ Goto(c, "reserve")
    /\ UNCHANGED <<batch, moved, head, gitHub, validated, roles, evidence>>

\* Mutant: the count is the one read with the evidence.
ReserveSeen(c) ==
    /\ At(c, "reserve")
    /\ evidence[c].batch.cycles < MaxCycles
    /\ batch' = [batch EXCEPT !.cycles = evidence[c].batch.cycles + 1]
    /\ Goto(c, "enqueue")
    /\ UNCHANGED <<moved, head, gitHub, validated, roles, evidence>>

\* The cycle is reserved in the store, before its worker is started.
Reserve(c) ==
    /\ At(c, "reserve")
    /\ batch.cycles < MaxCycles
    /\ batch' = [batch EXCEPT !.cycles = @ + 1]
    /\ Goto(c, "enqueue")
    /\ UNCHANGED <<moved, head, gitHub, validated, roles, evidence>>

\* newRoleBatch, of the captured head.
Enqueue(c) ==
    /\ At(c, "enqueue")
    /\ Len(roles) < MaxRoles
    /\ roles' = Append(roles, [kind |-> IF work[c].op = "review" THEN "review" ELSE "correction",
                               task |-> TaskOf(c), head |-> work[c].head,
                               state |-> "QUEUED", turn |-> "none", verdict |-> "none"])
    /\ work' = [work EXCEPT ![c].pc = "start", ![c].role = Len(roles) + 1]
    /\ UNCHANGED <<batch, moved, head, gitHub, validated, evidence>>

\* startReview, startImplementation: batches that are over get no worker.
Start(c) ==
    /\ At(c, "start")
    /\ roles[work[c].role].state \in {"QUEUED", "TAKEN"}
    /\ roles' = [roles EXCEPT ![work[c].role].turn = "running"]
    /\ Goto(c, "wait")
    /\ UNCHANGED <<batch, moved, head, gitHub, validated, evidence>>

\* waitForReviewTurn finds that the turn has succeeded.
Wait(c) ==
    /\ At(c, "wait")
    /\ roles[work[c].role].turn = "done"
    /\ Goto(c, "record")
    /\ UNCHANGED <<batch, moved, head, gitHub, validated, roles, evidence>>

\* markBatchComplete, which the store refuses for a batch the service has claimed.
\* A review is of the head it began with, a correction has changed it.
Record(c) ==
    /\ At(c, "record")
    /\ IF work[c].op = "review" THEN Current(c) ELSE ~moved /\ head[TaskOf(c)] # work[c].head
    /\ roles[work[c].role].state # "TAKEN"
    /\ roles' = [roles EXCEPT ![work[c].role].state = "COMPLETED"]
    /\ End(c)
    /\ UNCHANGED <<batch, moved, head, gitHub, validated, evidence>>

-----------------------------------------------------------------------------
(* mergeApprovedPullRequest. *)

Merge(c, ref) == Capture(c, "merge", "verify", ref)

\* The review approves the captured head.
Approved(c) ==
    /\ Verified(c)
    /\ roles[work[c].ref].verdict = "APPROVED"
    /\ roles[work[c].ref].head = work[c].head

VerifyApproval(c) ==
    /\ At(c, "verify") /\ work[c].op = "merge"
    /\ Approved(c)
    /\ Goto(c, "gate")
    /\ UNCHANGED <<batch, moved, head, gitHub, validated, roles, evidence>>

\* verifyMergeGateInputs: open, at the captured head, and up to date.
Gate(c) == IsOpen(TaskOf(c)) /\ remote[TaskOf(c)] = work[c].head /\ ~moved

FirstGate(c) ==
    /\ At(c, "gate")
    /\ Gate(c)
    /\ Goto(c, "ready")
    /\ UNCHANGED <<batch, moved, head, gitHub, validated, roles, evidence>>

\* markPullRequestReady, if it is a draft.
MarkReady(c) ==
    /\ At(c, "ready")
    /\ Current(c)
    /\ IsOpen(TaskOf(c))
    /\ pr' = [pr EXCEPT ![TaskOf(c)] = "ready"]
    /\ Goto(c, "regate")
    /\ UNCHANGED <<batch, moved, head, remote, merged, validated, roles, evidence>>

SecondGate(c) ==
    /\ At(c, "regate")
    /\ Gate(c) /\ pr[TaskOf(c)] = "ready"
    /\ Goto(c, "reverify")
    /\ UNCHANGED <<batch, moved, head, gitHub, validated, roles, evidence>>

Reverify(c) ==
    /\ At(c, "reverify")
    /\ Current(c)
    /\ Approved(c)
    /\ Goto(c, "final")
    /\ UNCHANGED <<batch, moved, head, gitHub, validated, roles, evidence>>

FinalGate(c) ==
    /\ At(c, "final")
    /\ Gate(c) /\ pr[TaskOf(c)] = "ready"
    /\ Goto(c, "merge")
    /\ UNCHANGED <<batch, moved, head, gitHub, validated, roles, evidence>>

Merged(c, h) ==
    /\ merged' = [merged EXCEPT ![TaskOf(c)] = h]
    /\ pr' = [pr EXCEPT ![TaskOf(c)] = "merged"]
    /\ moved' = TRUE
    /\ End(c)
    /\ UNCHANGED <<batch, head, remote, validated, roles, evidence>>

\* Mutant: gh pr merge without --match-head-commit.
MergeWhatIsThere(c) ==
    /\ At(c, "merge")
    /\ pr[TaskOf(c)] = "ready" /\ ~moved
    /\ Merged(c, remote[TaskOf(c)])

\* GitHub merges an open pull request that is up to date, if its head is the one given.
MergePullRequest(c) ==
    /\ At(c, "merge")
    /\ pr[TaskOf(c)] = "ready" /\ ~moved
    /\ remote[TaskOf(c)] = work[c].head
    /\ Merged(c, work[c].head)

-----------------------------------------------------------------------------
(* The others. *)

\* The service records the end of the source batch.
BatchEnds ==
    /\ ~batch.over
    /\ batch' = [batch EXCEPT !.over = TRUE]
    /\ UNCHANGED <<moved, head, gitHub, validated, roles, evidence, work>>

\* Role batches stand in the queue like any other: the service, which has one
\* batch at a time, may claim one, and record its end.
Poll(i) ==
    /\ \/ roles[i].state = "TAKEN"
       \/ /\ roles[i].state = "QUEUED" /\ batch.over
          /\ \A j \in 1..Len(roles) : roles[j].state # "TAKEN"
    /\ roles' = [roles EXCEPT ![i].state = IF @ = "QUEUED" THEN "TAKEN" ELSE "OVER"]
    /\ UNCHANGED <<batch, moved, head, gitHub, validated, evidence, work>>

\* The worker of a correction commits in the task's worktree.
Commit(i) ==
    /\ roles[i].kind = "correction" /\ roles[i].turn = "running"
    /\ head[roles[i].task] < MaxHeads
    /\ head' = [head EXCEPT ![roles[i].task] = @ + 1]
    /\ UNCHANGED <<batch, moved, gitHub, validated, roles, evidence, work>>

\* A turn succeeds; one that fails does no more for its caller than one that never ends.
TurnEnds(i, verdict) ==
    /\ roles[i].turn = "running"
    /\ roles[i].kind = "correction" <=> verdict = "none"
    /\ roles' = [roles EXCEPT ![i].turn = "done", ![i].verdict = verdict]
    /\ UNCHANGED <<batch, moved, head, gitHub, validated, evidence, work>>

\* Somebody else's work reaches main.
MainMoves ==
    /\ ~moved
    /\ moved' = TRUE
    /\ UNCHANGED <<batch, head, gitHub, validated, roles, evidence, work>>

-----------------------------------------------------------------------------
Verdicts == {"none", "APPROVED", "CHANGES_REQUESTED"}

Next ==
    \/ \E c \in Callers :
          \/ \E t \in Tasks : Validate(c, t)
          \/ Draft(c) \/ Update(c) \/ Review(c)
          \/ \E ref \in 1..Len(roles) : Correct(c, ref) \/ Merge(c, ref)
          \/ Look(c) \/ Push(c) \/ List(c) \/ Create(c)
          \/ VerifyFindings(c) \/ Reserve(c) \/ Enqueue(c) \/ Start(c) \/ Wait(c) \/ Record(c)
          \/ VerifyApproval(c) \/ FirstGate(c) \/ MarkReady(c) \/ SecondGate(c)
          \/ Reverify(c) \/ FinalGate(c) \/ MergePullRequest(c)
          \/ Throw(c) \/ Crash(c)
    \/ \E i \in 1..Len(roles) :
          \/ Poll(i) \/ Commit(i)
          \/ \E verdict \in Verdicts : TurnEnds(i, verdict)
    \/ BatchEnds \/ MainMoves

Spec == Init /\ [][Next]_vars

-----------------------------------------------------------------------------
(* Properties. *)

BatchType == [over : BOOLEAN, cycles : 0..MaxCycles]
RoleType ==
    [kind : {"review", "correction"}, task : Tasks, head : 1..MaxHeads,
     state : {"QUEUED", "TAKEN", "OVER", "COMPLETED"},
     turn : {"none", "running", "done"}, verdict : Verdicts]
Labels == {"idle", "look", "push", "list", "create", "verify", "reserve", "enqueue", "start",
           "wait", "record", "gate", "ready", "regate", "reverify", "final", "merge"}

\* Every variable keeps its type.
TypeOK ==
    /\ batch \in BatchType
    /\ moved \in BOOLEAN
    /\ head \in [Tasks -> 1..MaxHeads]
    /\ remote \in [Tasks -> 0..MaxHeads]
    /\ pr \in [Tasks -> {"none", "draft", "ready", "merged"}]
    /\ merged \in [Tasks -> 0..MaxHeads]
    /\ validated \subseteq Tasks \X (1..MaxHeads)
    /\ roles \in Seq(RoleType) /\ Len(roles) <= MaxRoles
    /\ evidence \in [Callers -> [task : Tasks \cup {NoTask}, batch : BatchType]]
    /\ work \in [Callers -> [op : {"none", "draft", "update", "review", "correct", "merge"},
                             pc : Labels, head : 0..MaxHeads,
                             ref : 0..MaxRoles, role : 0..MaxRoles]]

Recorded(t, h, verdict) ==
    \E i \in 1..Len(roles) :
        /\ roles[i].kind = "review" /\ roles[i].task = t /\ roles[i].head = h
        /\ roles[i].state = "COMPLETED" /\ roles[i].verdict = verdict

\* What is merged is the head a recorded review approved, on the base it was
\* reviewed on, so one task of a base at most, whatever corrections, pushes and
\* other callers did between the checks and the merge
\* (publishing-policy.mjs:259-303, review-runner.mjs:481-555).
MergedAsReviewed ==
    /\ \A t \in Tasks : merged[t] # 0 => Recorded(t, merged[t], "APPROVED")
    /\ Cardinality({t \in Tasks : merged[t] # 0}) <= 1

\* The branch on GitHub only ever holds heads on which the validation commands
\* passed, even while a worker commits (publishing-policy.mjs:47-117, github.mjs:80-108).
PushedWasValidated ==
    \A t \in Tasks : remote[t] # 0 => <<t, remote[t]>> \in validated

\* Corrections that were started are counted and limited, over all callers and
\* crashes, and each answers a recorded request for changes to the head it was
\* started for (review-runner.mjs:592-633).
CorrectionsEarned ==
    LET started == {i \in 1..Len(roles) : roles[i].kind = "correction" /\ roles[i].turn # "none"} IN
    /\ Cardinality(started) <= batch.cycles
    /\ \A i \in started : Recorded(roles[i].task, roles[i].head, "CHANGES_REQUESTED")
=============================================================================
