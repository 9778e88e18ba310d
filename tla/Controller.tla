----------------------------- MODULE Controller -----------------------------
(***************************************************************************)
(* The autonomous workflow controller (workflow/internal): admission of    *)
(* runs under leases and fencing tokens, the worker a run executes, review,*)
(* approval, correction, closeout and publishing.  Every operation is one  *)
(* transaction on the controller state under its mutex; what happens       *)
(* between two of them (a worker runs, a lease runs out, HEAD moves, the   *)
(* process dies) is an action of its own.                                  *)
(*                                                                         *)
(* Each admission creates one run, one lease and one fencing token, so the *)
(* token stands for all three: run r, lease r and token r are born in the  *)
(* same step and name each other.  A signed capability adds nothing to the *)
(* state it is checked against but an expiry of its own, which may only    *)
(* refuse: whoever calls with one is in the place of "may call or not".    *)
(* Grants and contracts do not change, and HEAD only moves forward.        *)
(***************************************************************************)
EXTENDS Integers, FiniteSets

CONSTANTS Tasks,          \* tasks with a machine contract and a grant
          SignedReview,   \* tasks whose contract starts at INDEPENDENT_REVIEW
          PilotTask,      \* the task of the one-time pilot; the others are autonomous
          Conflicts,      \* pairs of tasks whose lock requests conflict
          MaxWorkers,     \* limits.max_workers of each task's grant
          MaxCorrections, \* limits.max_correction_cycles
          MaxWakeups,     \* bound: wakeup ids that callers choose
          MaxRuns,        \* bound: admissions
          MaxPilots,      \* bound: one-time pilot activations
          MaxCommits      \* bound: commits in a task's worktree

ASSUME ControllerAssumption ==
    /\ SignedReview \subseteq Tasks
    /\ PilotTask \notin SignedReview
    /\ MaxWorkers \in [Tasks -> Nat \ {0}]
    /\ Conflicts \subseteq Tasks \X Tasks
    /\ \A t, u \in Tasks : <<t, u>> \in Conflicts => <<u, t>> \in Conflicts
    /\ MaxCorrections \in Nat /\ MaxWakeups \in Nat /\ MaxRuns \in Nat
    /\ MaxPilots \in Nat /\ MaxCommits \in Nat

VARIABLES
    \* the controller state
    generation,  \* fencing_generation: the token of the last admission
    runs,        \* runs: what the controller knows of each run
    leases,      \* the runs that have a lease (and the reservations of its task)
    quota,       \* lease.max_workers
    task,        \* tasks: one record per task
    approval,    \* approvals: the reviewer run the task's approval rests on
    closeout,    \* closeouts: that run, and the Closeout Head
    plan,        \* publishing: the plan of the task's gated action
    activated,   \* activation.authorized
    pilot,       \* pilot_activation
    woken,       \* wakeups
    \* outside of it
    lapsed,      \* leases whose expires_at_ms has passed
    worker,      \* where runCodexExec stands for each run
    act,         \* whether its capability is for a review or for other work
    seen,        \* the HEAD it observed once the worker ended
    head         \* HEAD of each task's worktree

stateVars == <<generation, runs, leases, quota, task, approval, closeout, plan,
               activated, pilot, woken>>
worldVars == <<lapsed, worker, act, seen, head>>
vars      == <<stateVars, worldVars>>

Runs   == 1..MaxRuns
NoRun  == 0
Signed == -1             \* the implementation run a signed review target names
Used   == 1..generation  \* the runs admitted so far

Absent    == [task |-> PilotTask, role |-> "none", status |-> "none", pilot |-> 0,
              wake |-> 0, head |-> 0, result |-> [outcome |-> "none", impl |-> NoRun, head |-> 0]]
NoResult  == Absent.result
NoTarget  == [impl |-> NoRun, head |-> 0]
NoPlan    == [run |-> NoRun, head |-> 0, status |-> "none"]
NoClosing == [approval |-> NoRun, head |-> 0]

Unfinished == {"RESERVED", "RUNNING"}
Terminal   == {"SUCCESS", "FAILED"}  \* FAILED for STALE and every failing completionStatus

ContractPhase(t) == IF t \in SignedReview THEN "INDEPENDENT_REVIEW" ELSE "QUEUED"
SignedTarget     == [impl |-> Signed, head |-> 0]

TaskOf(r) == runs[r].task

Init ==
    /\ generation = 0
    /\ runs = [r \in Runs |-> Absent]
    /\ leases = {}
    /\ quota = [r \in Runs |-> 0]
    /\ task = [t \in Tasks |->
                 [phase |-> ContractPhase(t), current |-> NoRun, lease |-> NoRun,
                  corrections |-> 0, reviewers |-> {}, review |-> NoRun,
                  target |-> NoTarget, impl |-> NoRun]]
    /\ approval = [t \in Tasks |-> NoRun]
    /\ closeout = [t \in Tasks |-> NoClosing]
    /\ plan = [t \in Tasks |-> NoPlan]
    /\ activated = FALSE
    /\ pilot = [status |-> "DISABLED", id |-> 0, run |-> NoRun]
    /\ woken = {}
    /\ lapsed = {}
    /\ worker = [r \in Runs |-> "none"]
    /\ act = [r \in Runs |-> "none"]
    /\ seen = [r \in Runs |-> 0]
    /\ head = [t \in Tasks |-> 0]

-----------------------------------------------------------------------------
(* Admission: reserveTaskDispatch.  A refusal is a transaction too: it keeps *)
(* the sweep of expired leases and the wakeup it used up.                    *)

Live == leases \ lapsed

\* expireStale, in the runs and in the tasks.
SweptRuns ==
    [r \in Runs |-> IF r \in lapsed /\ runs[r].status \in Unfinished
                    THEN [runs[r] EXCEPT !.status = "FAILED"] ELSE runs[r]]
SweptTasksKept == task  \* mutant: the tasks of expired leases keep them
SweptTasks ==
    [t \in Tasks |-> IF task[t].lease \in lapsed
                     THEN [task[t] EXCEPT !.lease = NoRun, !.current = NoRun] ELSE task[t]]

\* A call for task t that names the activation in force is authorized by it.
PilotAuthorized(t) ==
    /\ t = PilotTask
    /\ pilot.status = "READY"
    /\ \A r \in Used : runs[r].pilot # pilot.id

\* The worker ceiling the call passes: 1 from the pilot policy, else none.
Ceilings(byPilot) == IF byPilot THEN {1} ELSE {}

\* Mutants: a reservation counts only once its run has started; any wakeup is
\* good again.
NoConflictWithRunning(t) ==
    \A r \in Live : TaskOf(r) # t /\ runs[r].status = "RUNNING"
                       => <<TaskOf(r), t>> \notin Conflicts
WakeAgain(wake, byPilot) == TRUE

BelowQuota(t, byPilot) ==
    \A m \in Ceilings(byPilot) \cup {MaxWorkers[t]} \cup {quota[r] : r \in Live} :
        Cardinality(Live) < m

NoConflict(t) == \A r \in Live : TaskOf(r) # t => <<TaskOf(r), t>> \notin Conflicts

\* Wakeup ids are numbers; the one the scheduler builds from pilot activation k
\* is Tick(k).  Only that one may come back before its pilot was admitted.
Tick(k) == -k

WakeFresh(wake, byPilot) == wake \notin woken \/ (byPilot /\ wake = Tick(pilot.id))

\* ensureFreshReviewPrerequisites: a signed target must name HEAD.
ReviewReady(t) ==
    ContractPhase(t) = "INDEPENDENT_REVIEW" =>
        task[t].target # NoTarget \/ head[t] = SignedTarget.head

RoleFor(phase) == IF phase = "INDEPENDENT_REVIEW" THEN "reviewer" ELSE "owner"

Admissible(t, role, wake, byPilot) ==
    /\ WakeFresh(wake, byPilot)
    /\ byPilot \/ (activated /\ t # PilotTask)
    /\ SweptTasks[t].lease \notin Live
    /\ byPilot /\ SweptTasks[t].current # NoRun =>
          SweptRuns[SweptTasks[t].current].status \in Terminal
    /\ role = RoleFor(IF byPilot THEN ContractPhase(t) ELSE task[t].phase)
    /\ BelowQuota(t, byPilot)
    /\ ReviewReady(t)
    /\ NoConflict(t)

\* What admission makes of the task's record; a pilot starts it over.
AdmittedTask(t, r, byPilot) ==
    LET old == task[t]
        fresh == IF ContractPhase(t) = "INDEPENDENT_REVIEW" /\ old.target = NoTarget
                 THEN SignedTarget ELSE old.target
    IN IF byPilot
       THEN [phase |-> ContractPhase(t), current |-> r, lease |-> r, corrections |-> 0,
             reviewers |-> {}, review |-> NoRun, target |-> NoTarget, impl |-> NoRun]
       ELSE [old EXCEPT !.current = r, !.lease = r, !.target = fresh,
                        !.impl = IF @ = NoRun THEN fresh.impl ELSE @]

\* The least of the quotas, the grant's own included.
EffectiveMaximum(t, byPilot) ==
    CHOOSE m \in Ceilings(byPilot) \cup {MaxWorkers[t]} \cup {quota[r] : r \in Live} :
        \A n \in Ceilings(byPilot) \cup {MaxWorkers[t]} \cup {quota[r] : r \in Live} : m <= n

Admit(t, role, wake, byPilot) ==
    LET r == generation + 1 IN
    /\ generation < MaxRuns
    /\ Admissible(t, role, wake, byPilot)
    /\ generation' = r
    /\ runs' = [SweptRuns EXCEPT ![r] =
                   [task |-> t, role |-> role, status |-> "RESERVED", wake |-> wake,
                    pilot |-> IF byPilot THEN pilot.id ELSE 0, head |-> 0, result |-> NoResult]]
    /\ leases' = Live \cup {r}
    /\ quota' = [quota EXCEPT ![r] = EffectiveMaximum(t, byPilot)]
    /\ task' = [SweptTasks EXCEPT ![t] = AdmittedTask(t, r, byPilot)]
    /\ pilot' = IF byPilot THEN [pilot EXCEPT !.status = "CONSUMED", !.run = r] ELSE pilot
    /\ woken' = woken \cup {wake}
    /\ lapsed' = {}
    /\ UNCHANGED <<approval, closeout, plan, activated, worker, act, seen, head>>

\* The ids a caller may come with: nothing is known of a new one, so it is the
\* next number.
WakeIds(t) ==
    {w \in 1..MaxWakeups : w = 1 \/ w - 1 \in woken}
        \cup (IF t = PilotTask THEN {Tick(k) : k \in 1..pilot.id} ELSE {})

\* A call names the activation in force (the scheduler's, when it is READY), a
\* former one or none.
ByPilot(t) == {FALSE, PilotAuthorized(t)}

\* Some call with this wakeup is refused; which task and role it was for makes
\* no difference to what the refusal leaves.
Refuse(wake) ==
    /\ ~ \A t \in Tasks : wake \in WakeIds(t) =>
            \A role \in {"owner", "reviewer"}, byPilot \in ByPilot(t) :
               Admissible(t, role, wake, byPilot)
    /\ runs' = SweptRuns
    /\ leases' = Live
    /\ task' = SweptTasks
    /\ woken' = woken \cup {wake}
    /\ lapsed' = {}
    /\ UNCHANGED <<generation, quota, approval, closeout, plan, activated, pilot,
                   worker, act, seen, head>>

-----------------------------------------------------------------------------
(* Capabilities: assertCapabilityAgainstState. *)

\* phasesByAction, of the phases a task is ever in here.
PhasesOf(action) ==
    CASE action = "dispatch" -> {"QUEUED", "INDEPENDENT_REVIEW", "CORRECT"}
      [] action = "review"   -> {"INDEPENDENT_REVIEW", "CLOSEOUT", "CORRECT"}
      [] action = "approve"  -> {"INDEPENDENT_REVIEW", "CLOSEOUT"}
      [] action = "correct"  -> {"CORRECT"}
      [] OTHER               -> {"CLOSEOUT"}

RolesOf(action) ==
    CASE action \in {"review", "approve"} -> {"reviewer"}
      [] action = "publish"               -> {"owner", "reviewer"}
      [] OTHER                            -> {"owner"}

Actions == {"dispatch", "review", "approve", "correct", "closeout", "publish"}

\* Mutant: the run is current, whatever became of its lease.
HoldsRunOnly(r, action) ==
    /\ r \in Used
    /\ runs[r].role \in RolesOf(action)
    /\ task[TaskOf(r)].phase \in PhasesOf(action)

\* Run r has the lease of its task and may perform the action in its phase.
Holds(r, action) ==
    /\ r \in leases
    /\ task[TaskOf(r)].lease = r
    /\ task[TaskOf(r)].current = r
    /\ runs[r].role \in RolesOf(action)
    /\ task[TaskOf(r)].phase \in PhasesOf(action)
    /\ action = "review" => task[TaskOf(r)].target # NoTarget

\* The same for a call that reads the clock now.
Authorized(r, action) == Holds(r, action) /\ r \notin lapsed

\* removeLeaseAndReservations.
RemoveLease(r) ==
    /\ leases' = leases \ {r}
    /\ lapsed' = lapsed \ {r}

WithoutLease(t) == [task[t] EXCEPT !.lease = NoRun]

-----------------------------------------------------------------------------
(* runCodexExec: start the run, run the worker, record what came of it. *)

\* markRunStarted.
Begin(r, action) ==
    /\ Authorized(r, action)
    /\ runs[r].status = "RESERVED"
    /\ \/ activated /\ TaskOf(r) # PilotTask
       \/ pilot.status = "CONSUMED" /\ pilot.run = r /\ pilot.id = runs[r].pilot
    /\ runs' = [runs EXCEPT ![r].status = "RUNNING"]
    /\ worker' = [worker EXCEPT ![r] = "working"]
    /\ act' = [act EXCEPT ![r] = IF action = "review" THEN "review" ELSE "work"]
    /\ UNCHANGED <<generation, leases, quota, task, approval, closeout, plan, activated,
                   pilot, woken, lapsed, seen, head>>

\* The worker ended; its output, HEAD and the validation commands are looked at.
Observe(r) ==
    /\ worker[r] = "working"
    /\ worker' = [worker EXCEPT ![r] = "observed"]
    /\ seen' = [seen EXCEPT ![r] = head[TaskOf(r)]]
    /\ UNCHANGED <<stateVars, lapsed, act, head>>

\* runCodexExec is over for run r, with its locals.
Return(r) ==
    /\ worker' = [worker EXCEPT ![r] = "none"]
    /\ act' = [act EXCEPT ![r] = "none"]
    /\ seen' = [seen EXCEPT ![r] = 0]

\* Mutant: a task that was already approved stays so.
ImplementedInPlace(t, r) ==
    [task[t] EXCEPT !.phase = IF @ = "CLOSEOUT" THEN @ ELSE "INDEPENDENT_REVIEW", !.impl = r,
                    !.target = [impl |-> r, head |-> head[t]]]

\* What completeRun makes of the task when its owner succeeded.
Implemented(t, r) ==
    [task[t] EXCEPT !.phase = "INDEPENDENT_REVIEW", !.impl = r,
                    !.target = [impl |-> r, head |-> head[t]]]

\* completeRun.  Its clock reading is the one runCodexExec began with, so the
\* expiry of the lease is not seen; only a lease that was swept is missed.
Complete(r) ==
    LET t == TaskOf(r) IN
    /\ worker[r] = "observed"
    /\ \E action \in Actions : Holds(r, action) /\ (action = "review" <=> act[r] = "review")
    /\ runs[r].status \in Unfinished
    /\ \E ok \in BOOLEAN, outcome \in {"APPROVED", "CHANGES_REQUESTED", "BLOCKED"} :
          LET status == IF seen[r] = head[t] /\ ok THEN "SUCCESS" ELSE "FAILED"
              judged == status = "SUCCESS" /\ act[r] = "review"
          IN /\ runs' = [runs EXCEPT
                   ![r].status = status,
                   ![r].head = IF status = "SUCCESS" THEN head[t] ELSE @,
                   ![r].result = IF judged THEN [outcome |-> outcome, impl |-> task[t].target.impl,
                                                 head |-> task[t].target.head]
                                 ELSE @]
             /\ IF status = "SUCCESS"
                THEN /\ task' = [task EXCEPT ![t] = IF runs[r].role = "owner"
                                                    THEN Implemented(t, r) ELSE @]
                     /\ UNCHANGED <<leases, lapsed>>
                ELSE RemoveLease(r) /\ task' = [task EXCEPT ![t] = WithoutLease(t)]
    /\ Return(r)
    /\ UNCHANGED <<generation, quota, approval, closeout, plan, activated, pilot, woken, head>>

\* runCodexExec throws, or its process dies, at any point after the start.
Abort(r) ==
    /\ worker[r] \in {"working", "observed"}
    /\ Return(r)
    /\ UNCHANGED <<stateVars, lapsed, head>>

-----------------------------------------------------------------------------
(* Review, approval, correction, closeout and publishing. *)

\* validateIndependentReviewAgainstState, for the result stored with run q.
ValidReview(t, q) ==
    /\ runs[q].status = "SUCCESS"
    /\ runs[q].result # NoResult
    /\ runs[q].role = "reviewer"
    /\ runs[q].result.impl = task[t].impl
    /\ runs[q].result.impl = task[t].target.impl
    /\ runs[q].result.head = task[t].target.head
    /\ runs[q].result.impl # q
    /\ runs[q].result.impl # Signed => /\ runs[runs[q].result.impl].status = "SUCCESS"
                                       /\ runs[runs[q].result.impl].role = "owner"

Judged(t, r) ==
    [task[t] EXCEPT !.review = r, !.reviewers = @ \cup {r},
                    !.phase = CASE runs[r].result.outcome = "APPROVED" -> "CLOSEOUT"
                                [] runs[r].result.outcome = "CHANGES_REQUESTED" -> "CORRECT"
                                [] OTHER -> "INDEPENDENT_REVIEW"]

RecordIndependentReview(r) ==
    LET t == TaskOf(r) IN
    /\ Authorized(r, "review")
    /\ ValidReview(t, r)
    /\ r \notin task[t].reviewers
    /\ task' = [task EXCEPT ![t] = Judged(t, r)]
    /\ UNCHANGED <<generation, runs, leases, quota, approval, closeout, plan, activated,
                   pilot, woken, worldVars>>

\* Mutant: any reviewer run may issue the approval of the stored review.
IssueApprovalOfStored(r) ==
    LET t == TaskOf(r) IN
    /\ Authorized(r, "approve")
    /\ task[t].review # NoRun
    /\ runs[task[t].review].result.outcome = "APPROVED"
    /\ approval' = [approval EXCEPT ![t] = r]
    /\ UNCHANGED <<generation, runs, leases, quota, task, closeout, plan, activated, pilot,
                   woken, worldVars>>

\* issueApprovalRecord: the stored review must be the calling run's own.
IssueApproval(r) ==
    LET t == TaskOf(r) IN
    /\ Authorized(r, "approve")
    /\ task[t].review = r
    /\ runs[r].result.outcome = "APPROVED"
    /\ ValidReview(t, r)
    /\ approval' = [approval EXCEPT ![t] = r]
    /\ UNCHANGED <<generation, runs, leases, quota, task, closeout, plan, activated, pilot,
                   woken, worldVars>>

\* Mutant: one more correction than the limit.
PlanCorrectionOnceMore(r) ==
    LET t == TaskOf(r) IN
    /\ Authorized(r, "correct")
    /\ task[t].review # NoRun
    /\ runs[task[t].review].result.outcome = "CHANGES_REQUESTED"
    /\ task[t].corrections <= MaxCorrections
    /\ task' = [task EXCEPT ![t].corrections = @ + 1, ![t].target = NoTarget]
    /\ UNCHANGED <<generation, runs, leases, quota, approval, closeout, plan, activated,
                   pilot, woken, worldVars>>

\* planCorrection; at the limit it answers BLOCKED and changes nothing.
PlanCorrection(r) ==
    LET t == TaskOf(r) IN
    /\ Authorized(r, "correct")
    /\ task[t].review # NoRun
    /\ runs[task[t].review].result.outcome = "CHANGES_REQUESTED"
    /\ task[t].corrections < MaxCorrections
    /\ task' = [task EXCEPT ![t].corrections = @ + 1, ![t].target = NoTarget]
    /\ UNCHANGED <<generation, runs, leases, quota, approval, closeout, plan, activated,
                   pilot, woken, worldVars>>

ReviewedHead(t) == runs[approval[t]].result.head

\* finalizeCloseout, when what changed since the Reviewed Head is administrative.
FinalizeCloseout(r) ==
    LET t == TaskOf(r) IN
    /\ Authorized(r, "closeout")
    /\ approval[t] # NoRun
    /\ head[t] # ReviewedHead(t)
    /\ closeout' = [closeout EXCEPT ![t] = [approval |-> approval[t], head |-> head[t]]]
    /\ UNCHANGED <<generation, runs, leases, quota, task, approval, plan, activated, pilot,
                   woken, worldVars>>

ApprovedHead(t) == IF closeout[t] # NoClosing THEN closeout[t].head ELSE ReviewedHead(t)

\* planPublishing of an action that needs approval.
PlanPublishing(r) ==
    LET t == TaskOf(r) IN
    /\ Authorized(r, "publish")
    /\ activated
    /\ t # PilotTask
    /\ approval[t] # NoRun
    /\ head[t] = ApprovedHead(t)
    /\ plan' = [plan EXCEPT ![t] = [run |-> r, head |-> head[t], status |-> "PLANNED"]]
    /\ UNCHANGED <<generation, runs, leases, quota, task, approval, closeout, activated,
                   pilot, woken, worldVars>>

CompletePublishing(r) ==
    LET t == TaskOf(r) IN
    /\ Authorized(r, "publish")
    /\ plan[t].run = r
    /\ plan[t].status = "PLANNED"
    /\ plan' = [plan EXCEPT ![t].status = "COMPLETED"]
    /\ UNCHANGED <<generation, runs, leases, quota, task, approval, closeout, activated,
                   pilot, woken, worldVars>>

-----------------------------------------------------------------------------
(* Leases end, the administration acts, HEAD and the clock move. *)

ReleaseTaskLease(r) ==
    /\ \E action \in Actions : Authorized(r, action)
    /\ RemoveLease(r)
    /\ task' = [task EXCEPT ![TaskOf(r)] = WithoutLease(TaskOf(r))]
    /\ UNCHANGED <<generation, runs, quota, approval, closeout, plan, activated, pilot,
                   woken, worker, act, seen, head>>

\* recoverExpiredSuccessfulRunLease, which the administration offers for the
\* pilot's task.
RecoverExpired(r) ==
    /\ r \in leases \cap lapsed
    /\ TaskOf(r) = PilotTask
    /\ runs[r].status = "SUCCESS"
    /\ task[PilotTask].current = r
    /\ task[PilotTask].lease = r
    /\ \A q \in leases \ {r} : TaskOf(q) # PilotTask
    /\ RemoveLease(r)
    /\ task' = [task EXCEPT ![PilotTask] = WithoutLease(PilotTask)]
    /\ UNCHANGED <<generation, runs, quota, approval, closeout, plan, activated, pilot,
                   woken, worker, act, seen, head>>

SetActivation(authorized) ==
    /\ activated' = authorized
    /\ UNCHANGED <<generation, runs, leases, quota, task, approval, closeout, plan, pilot,
                   woken, worldVars>>

EnableSyntheticPilotOnce ==
    /\ pilot.id < MaxPilots
    /\ ~activated
    /\ pilot.status # "READY"
    /\ leases = {}
    /\ pilot' = [status |-> "READY", id |-> pilot.id + 1, run |-> NoRun]
    /\ UNCHANGED <<generation, runs, leases, quota, task, approval, closeout, plan, activated,
                   woken, worldVars>>

Lapse(r) ==
    /\ r \in leases \ lapsed
    /\ lapsed' = lapsed \cup {r}
    /\ UNCHANGED <<stateVars, worker, act, seen, head>>

Commit(t) ==
    /\ head[t] < MaxCommits
    /\ head' = [head EXCEPT ![t] = @ + 1]
    /\ UNCHANGED <<stateVars, lapsed, worker, act, seen>>

Next ==
    \/ \E t \in Tasks : \/ \E wake \in WakeIds(t), byPilot \in ByPilot(t),
                              role \in {"owner", "reviewer"} : Admit(t, role, wake, byPilot)
                        \/ Commit(t)
    \/ \E wake \in UNION {WakeIds(t) : t \in Tasks} : Refuse(wake)
    \/ \E r \in Used :
          \/ \E action \in Actions : Begin(r, action)
          \/ Observe(r) \/ Complete(r) \/ Abort(r)
          \/ RecordIndependentReview(r) \/ IssueApproval(r) \/ PlanCorrection(r)
          \/ FinalizeCloseout(r) \/ PlanPublishing(r) \/ CompletePublishing(r)
          \/ ReleaseTaskLease(r) \/ RecoverExpired(r) \/ Lapse(r)
    \/ \E authorized \in BOOLEAN : SetActivation(authorized)
    \/ EnableSyntheticPilotOnce

Spec == Init /\ [][Next]_vars

-----------------------------------------------------------------------------
(* Properties. *)

RunType ==
    [task : Tasks \cup {PilotTask}, role : {"none", "owner", "reviewer"}, status : {"none"} \cup Unfinished \cup Terminal,
     pilot : 0..MaxPilots, wake : (-MaxPilots)..MaxWakeups,
     head : 0..MaxCommits,
     result : [outcome : {"none", "APPROVED", "CHANGES_REQUESTED", "BLOCKED"},
               impl : Runs \cup {NoRun, Signed}, head : 0..MaxCommits]]

TaskType ==
    [phase : {"QUEUED", "INDEPENDENT_REVIEW", "CORRECT", "CLOSEOUT"}, current : Runs \cup {NoRun},
     lease : Runs \cup {NoRun}, corrections : 0..MaxCorrections, reviewers : SUBSET Runs,
     review : Runs \cup {NoRun}, impl : Runs \cup {NoRun, Signed},
     target : [impl : Runs \cup {NoRun, Signed}, head : 0..MaxCommits]]

\* Every variable keeps its type; a correction count stays within its limit.
TypeOK ==
    /\ generation \in 0..MaxRuns
    /\ runs \in [Runs -> RunType]
    /\ leases \subseteq Used /\ lapsed \subseteq leases
    /\ quota \in [Runs -> Nat]
    /\ task \in [Tasks -> TaskType]
    /\ approval \in [Tasks -> Runs \cup {NoRun}]
    /\ closeout \in [Tasks -> [approval : Runs \cup {NoRun}, head : 0..MaxCommits]]
    /\ plan \in [Tasks -> [run : Runs \cup {NoRun}, head : 0..MaxCommits,
                           status : {"none", "PLANNED", "COMPLETED"}]]
    /\ activated \in BOOLEAN
    /\ woken \subseteq (-MaxPilots)..MaxWakeups
    /\ pilot \in [status : {"DISABLED", "READY", "CONSUMED"}, id : 0..MaxPilots,
                   run : Runs \cup {NoRun}]
    /\ worker \in [Runs -> {"none", "working", "observed"}]
    /\ act \in [Runs -> {"none", "review", "work"}]
    /\ seen \in [Runs -> 0..MaxCommits]
    /\ head \in [Tasks -> 0..MaxCommits]

\* A task and the lease table never disagree on who may act for the task: a
\* lease belongs to the current run of its task and to no run that failed, and
\* a task names no lease that is gone, whatever was swept, released or
\* recovered in between (lease-engine.mjs:31-55, 472-517).
OneHolder ==
    /\ \A r \in leases : /\ task[TaskOf(r)].lease = r
                         /\ task[TaskOf(r)].current = r
                         /\ runs[r].status \in Unfinished \cup {"SUCCESS"}
    /\ \A t \in Tasks : task[t].lease # NoRun => task[t].lease \in leases

\* Leased at the same time are only tasks whose locks do not conflict, and no
\* more of them than the strictest of their quotas allows, so that a pilot is
\* always alone (lease-engine.mjs:215-232; AUTONOMOUS-WORKFLOW.md:127-129).
Exclusive ==
    /\ \A r, q \in leases :
          r # q => TaskOf(r) # TaskOf(q) /\ <<TaskOf(r), TaskOf(q)>> \notin Conflicts
    /\ \A r \in leases : Cardinality(leases) <= quota[r]

\* Duplicate wakeups and repeated ticks of one pilot activation never make a
\* second run (AUTONOMOUS-WORKFLOW.md:126-127).
AdmittedOnce ==
    \A r, q \in Used :
        r # q => /\ runs[r].wake # runs[q].wake
                 /\ runs[r].pilot # 0 => runs[r].pilot # runs[q].pilot

\* Run q is an independent review of task t that approved exactly the head its
\* owner's implementation ended with, and began after it.
Earned(t, q) ==
    /\ q \in Used
    /\ TaskOf(q) = t
    /\ runs[q].role = "reviewer"
    /\ runs[q].status = "SUCCESS"
    /\ runs[q].result.outcome = "APPROVED"
    /\ LET i == runs[q].result.impl IN
          i # Signed => /\ i \in 1..(q - 1)
                        /\ TaskOf(i) = t
                        /\ runs[i].role = "owner"
                        /\ runs[i].status = "SUCCESS"
                        /\ runs[i].head = runs[q].result.head

\* No order of runs, corrections, crashes and late calls yields an approval, or
\* a closeout, that no independent review earned; a closeout is distinct from
\* the head that was reviewed (review-engine.mjs:12-135, closeout-engine.mjs:20-56).
ApprovalsEarned ==
    \A t \in Tasks :
        /\ approval[t] # NoRun => Earned(t, approval[t])
        /\ closeout[t] # NoClosing =>
              /\ Earned(t, closeout[t].approval)
              /\ closeout[t].head # runs[closeout[t].approval].result.head

\* A run whose lease is gone never gets it back, and nothing is recorded by it
\* or of it any more; how a run ended never changes ("a stale worker cannot
\* validate, review, approve, close out or publish",
\* AUTONOMOUS-WORKFLOW.md:123-124).
FencedOut ==
    [][/\ \A r \in Used : /\ r \notin leases => r \notin leases' /\ runs'[r] = runs[r]
                          /\ runs[r].status \in Terminal => runs'[r] = runs[r]
       /\ \A t \in Tasks :
             /\ approval'[t] # approval[t] => approval'[t] \in leases
             /\ closeout'[t] # closeout[t] => task[t].lease \in leases
             /\ plan'[t] # plan[t] => plan'[t].run \in leases]_vars

\* What is planned for publishing is a head that an APPROVED review saw, or one
\* closed out on such a review, and the implementation the task stands at was
\* approved by an independent review too.  That need not be the same review: an
\* approval outlives the implementations that follow it
\* (publishing-engine.mjs:53-63, closeout-engine.mjs:20-56).
PublishesReviewed ==
    [][\A t \in Tasks :
          plan'[t] # plan[t] /\ plan'[t].status = "PLANNED" =>
             /\ \E q \in Used :
                   /\ Earned(t, q)
                   /\ \/ plan'[t].head = runs[q].result.head
                      \/ closeout[t] = [approval |-> q, head |-> plan'[t].head]
             /\ \E q \in Used :
                   /\ Earned(t, q)
                   /\ runs[q].result.impl = task[t].target.impl
                   /\ runs[q].result.head = task[t].target.head]_vars

\* A run does not succeed on a lease that is over: "expired Grants,
\* capabilities and leases cannot be revived" (AUTONOMOUS-WORKFLOW.md:101-102).
ExpiredRunsStop ==
    [][\A r \in Used :
          runs[r].status # "SUCCESS" /\ runs'[r].status = "SUCCESS" => r \notin lapsed]_vars

\* "Three completed cycles are the maximum" (AUTONOMOUS-WORKFLOW.md:189-190):
\* no more reviews that asked for changes are answered by an implementation
\* than the limit allows.
CorrectionsLimited ==
    \A t \in Tasks :
        Cardinality({q \in task[t].reviewers :
                        /\ runs[q].result.outcome = "CHANGES_REQUESTED"
                        /\ \E r \in Used : /\ r > q
                                           /\ TaskOf(r) = t
                                           /\ runs[r].role = "owner"
                                           /\ runs[r].status = "SUCCESS"}) <= MaxCorrections
=============================================================================
