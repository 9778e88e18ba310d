-------------------------- MODULE ControllerProofs --------------------------
(***************************************************************************)
(* Proofs about Controller, for any tasks, grants, conflicts and limits.   *)
(*                                                                         *)
(* What carries them: a lease and the record of its task name each other,  *)
(* so a run that lost its lease can do nothing; a run that ended is never  *)
(* written again, so what a review found stays true of the implementation  *)
(* it names; and a task is in CLOSEOUT only while the implementation it    *)
(* stands at is the one its stored review approved.                        *)
(***************************************************************************)
EXTENDS Controller, FiniteSetTheorems, WellFoundedInduction, TLAPS

\* A run that was admitted is of a task with a contract, in one of two roles.
RunsKnown == \A r \in Used : TaskOf(r) \in Tasks /\ runs[r].role \in {"owner", "reviewer"}

\* The lease a task names is of a run of that task.
LeaseNamesTask == \A t \in Tasks : task[t].lease # NoRun => TaskOf(task[t].lease) = t

\* A wakeup that was used is remembered, and a tick is of no later activation
\* than the one that admitted its run.
WakesUsed ==
    /\ \A r \in Used : /\ runs[r].wake \in woken
                       /\ runs[r].pilot <= pilot.id
                       /\ runs[r].wake < 0 => -runs[r].wake <= runs[r].pilot
    /\ pilot.status = "READY" => pilot.id >= 1

\* Run i is the signed implementation, or one of task t that ended with head h.
Implements(t, i, h) ==
    i # Signed => /\ i \in Used
                  /\ TaskOf(i) = t
                  /\ runs[i].role = "owner"
                  /\ runs[i].status = "SUCCESS"
                  /\ runs[i].head = h

\* A review target is an implementation, and no later than the lease it is
\* reviewed or replaced under.
TargetSound(t) ==
    /\ task[t].target # NoTarget => Implements(t, task[t].target.impl, task[t].target.head)
    /\ task[t].lease # NoRun => task[t].target.impl <= task[t].lease

\* A stored review result is of a reviewer's run and of an earlier implementation.
ResultSound(q) ==
    runs[q].result # NoResult =>
        /\ runs[q].role = "reviewer"
        /\ runs[q].status = "SUCCESS"
        /\ runs[q].result.impl < q
        /\ Implements(TaskOf(q), runs[q].result.impl, runs[q].result.head)

\* Run q approved the implementation that task t stands at.
Approves(t, q) ==
    /\ Earned(t, q)
    /\ runs[q].result.impl = task[t].target.impl
    /\ runs[q].result.head = task[t].target.head

\* A task in CLOSEOUT has an approving review, of the implementation it stands at.
StandsApproved(t) == task[t].phase = "CLOSEOUT" => Approves(t, task[t].review)

\* The part of ApprovalsEarned that is about one task.
ApprovalEarned(t) ==
    /\ approval[t] # NoRun => Earned(t, approval[t])
    /\ closeout[t] # NoClosing =>
          /\ Earned(t, closeout[t].approval)
          /\ closeout[t].head # runs[closeout[t].approval].result.head

Reviewed(t) == TargetSound(t) /\ StandsApproved(t) /\ ApprovalEarned(t)

\* The inductive invariant, in the parts the steps disturb separately.
Holders    == OneHolder /\ LeaseNamesTask /\ Exclusive
Admissions == WakesUsed /\ AdmittedOnce
Reviews    == (\A q \in Used : ResultSound(q)) /\ (\A t \in Tasks : Reviewed(t))

IInv == TypeOK /\ RunsKnown /\ Holders /\ Admissions /\ Reviews

-----------------------------------------------------------------------------
(* Facts about numbers and about the types. *)

\* A nonempty set of numbers has a least element: the quota an admission stores
\* exists (EffectiveMaximum).
LEMMA NatMinimum ==
    ASSUME NEW S, S \subseteq Nat, S # {}
    PROVE  \E m \in S : \A n \in S : m <= n
<1> DEFINE Less == OpToRel(<, Nat)
<1>1. IsWellFoundedOn(Less, Nat)
  BY NatLessThanWellFounded
<1>2. \A x, y \in Nat : <<y, x>> \in Less <=> y < x
  BY DEF OpToRel
<1> HIDE DEF Less
<1>3. PICK m \in S : \A n \in S : <<n, m>> \notin Less
  BY <1>1, WFMin
<1>4. ASSUME NEW n \in S PROVE m <= n
  <2>1. ~ (n < m)
    BY <1>2, <1>3
  <2> QED BY <2>1
<1> QED BY <1>4

\* Runs are numbers, the leased ones are used ones, and there are finitely many.
LEMMA LeaseNumbers ==
    ASSUME TypeOK
    PROVE  /\ generation \in Nat /\ Used \subseteq Runs /\ Runs \subseteq Nat \ {0}
           /\ leases \subseteq Used /\ lapsed \subseteq leases
           /\ IsFiniteSet(leases) /\ NoRun \notin leases
<1>1. generation \in Nat /\ Used \subseteq Runs /\ Runs \subseteq Nat \ {0}
  BY ControllerAssumption DEF TypeOK, Used, Runs
<1>2. leases \subseteq Used /\ lapsed \subseteq leases
  BY DEF TypeOK
<1>3. IsFiniteSet(Used)
  BY <1>1, FS_Interval DEF Used
<1>4. IsFiniteSet(leases)
  BY <1>2, <1>3, FS_Subset
<1> QED BY <1>1, <1>2, <1>4 DEF NoRun

\* A run that is used has a task in the table.
LEMMA UsedTask ==
    ASSUME IInv, NEW r \in Used
    PROVE  r \in Runs /\ r \in Nat \ {0} /\ TaskOf(r) \in Tasks /\ runs[r] \in RunType
           /\ task[TaskOf(r)] \in TaskType
  BY LeaseNumbers DEF IInv, TypeOK, RunsKnown

-----------------------------------------------------------------------------
(* What a step leaves alone. *)

\* Runs are only added, keep what they were admitted for, and are final once
\* they ended.
RunsGrow ==
    /\ generation' \in Nat /\ generation <= generation'
    /\ \A r \in Used :
          /\ runs'[r].task = runs[r].task /\ runs'[r].role = runs[r].role
          /\ runs'[r].wake = runs[r].wake /\ runs'[r].pilot = runs[r].pilot
          /\ runs[r].status \in Terminal => runs'[r] = runs[r]

\* What a run implemented, it implemented for good.
LEMMA ImplementsStays ==
    ASSUME TypeOK, RunsGrow, NEW t, NEW i, NEW h, Implements(t, i, h)
    PROVE  Implements(t, i, h)'
<1>1. Used \subseteq Used'
  BY LeaseNumbers DEF RunsGrow, Used
<1> QED BY <1>1 DEF Implements, RunsGrow, Terminal, TaskOf

\* And an earned approval stays earned.
LEMMA EarnedStays ==
    ASSUME TypeOK, RunsGrow, NEW t, NEW q, Earned(t, q)
    PROVE  Earned(t, q)' /\ runs'[q] = runs[q]
<1>1. Used \subseteq Used' /\ q \in Used /\ q \in Nat /\ runs'[q] = runs[q]
  BY LeaseNumbers DEF RunsGrow, Used, Earned, Terminal
<1>2. ASSUME NEW i \in 1..(q - 1), runs[i].status = "SUCCESS" PROVE runs'[i] = runs[i]
  <2>1. i \in Used
    BY <1>1, LeaseNumbers DEF Used
  <2> QED BY <1>2, <2>1 DEF RunsGrow, Terminal
<1> QED BY <1>1, <1>2 DEF Earned, TaskOf

\* A run whose result is not touched keeps a sound one.
LEMMA ResultStays ==
    ASSUME TypeOK, RunsGrow, NEW q \in Used, ResultSound(q), runs'[q].result = runs[q].result
    PROVE  ResultSound(q)'
<1>1. CASE runs[q].result = NoResult
  BY <1>1 DEF ResultSound, NoResult, Absent
<1>2. CASE runs[q].result # NoResult
  <2>1. runs'[q] = runs[q] /\ Implements(TaskOf(q), runs[q].result.impl, runs[q].result.head)
    BY <1>2 DEF ResultSound, RunsGrow, Terminal
  <2>2. Implements(TaskOf(q), runs[q].result.impl, runs[q].result.head)'
    BY <2>1, ImplementsStays DEF TaskOf
  <2> QED BY <1>2, <2>1, <2>2 DEF ResultSound
<1> QED BY <1>1, <1>2

\* A task keeps what was reviewed of it while its target, its phase, its stored
\* review and its approvals are not touched, and its lease at most given up.
LEMMA ReviewedStays ==
    ASSUME TypeOK, RunsGrow, NEW t \in Tasks, Reviewed(t),
           task'[t].target = task[t].target, task'[t].phase = task[t].phase,
           task'[t].review = task[t].review, task'[t].lease \in {task[t].lease, NoRun},
           approval'[t] = approval[t], closeout'[t] = closeout[t]
    PROVE  Reviewed(t)'
<1>1. TargetSound(t)'
  BY ImplementsStays DEF Reviewed, TargetSound, NoTarget
<1>2. StandsApproved(t)'
  BY EarnedStays DEF Reviewed, StandsApproved, Approves
<1>3. ApprovalEarned(t)'
  BY EarnedStays DEF Reviewed, ApprovalEarned, NoClosing
<1> QED BY <1>1, <1>2, <1>3 DEF Reviewed

\* The lease table stays right when leases are only given up, and the tasks that
\* named them let go of them.
LEMMA HoldersStay ==
    ASSUME IInv, RunsGrow, leases' \subseteq leases, quota' = quota,
           \A r \in leases' : runs'[r].status \in Unfinished \cup {"SUCCESS"},
           \A t \in Tasks :
              \/ /\ task[t].lease \in leases' \cup {NoRun}
                 /\ task'[t].lease = task[t].lease /\ task'[t].current = task[t].current
              \/ task[t].lease \notin leases' /\ task'[t].lease = NoRun
    PROVE  Holders'
<1>1. \A r \in leases : r \in Used /\ TaskOf(r) \in Tasks /\ TaskOf(r)' = TaskOf(r)
  BY LeaseNumbers DEF IInv, RunsKnown, RunsGrow, TaskOf
<1>2. OneHolder'
  <2>1. ASSUME NEW r \in leases' PROVE task'[TaskOf(r)'].lease = r /\ task'[TaskOf(r)'].current = r
    <3>1. task[TaskOf(r)].lease = r /\ task[TaskOf(r)].current = r
      BY <2>1 DEF IInv, Holders, OneHolder
    <3> QED BY <1>1, <2>1, <3>1
  <2>2. \A t \in Tasks : task'[t].lease # NoRun => task'[t].lease \in leases'
    OBVIOUS
  <2> QED BY <2>1, <2>2 DEF OneHolder
<1>3. LeaseNamesTask'
  BY <1>1 DEF IInv, Holders, OneHolder, LeaseNamesTask
<1>4. Exclusive'
  <2>1. \A r, q \in leases' : r # q =>
           TaskOf(r)' # TaskOf(q)' /\ <<TaskOf(r)', TaskOf(q)'>> \notin Conflicts
    BY <1>1 DEF IInv, Holders, Exclusive
  <2>2. IsFiniteSet(leases') /\ Cardinality(leases') <= Cardinality(leases)
        /\ Cardinality(leases') \in Nat /\ Cardinality(leases) \in Nat
    BY LeaseNumbers, FS_Subset, FS_CardinalityType DEF IInv
  <2>3. \A r \in leases' : Cardinality(leases') <= quota'[r]
    <3>1. \A r \in leases : quota[r] \in Nat /\ Cardinality(leases) <= quota[r]
      BY LeaseNumbers DEF IInv, Holders, Exclusive, TypeOK
    <3> QED BY <2>2, <3>1
  <2> QED BY <2>1, <2>3 DEF Exclusive
<1> QED BY <1>2, <1>3, <1>4 DEF Holders

\* Admissions stay single while no run is added and wakeups are only used up.
LEMMA AdmissionsStay ==
    ASSUME IInv, RunsGrow, generation' = generation, woken \subseteq woken', pilot.id <= pilot'.id,
           pilot'.id \in Nat, pilot'.status = "READY" => pilot'.id >= 1
    PROVE  Admissions'
<1>1. Used' = Used
  BY DEF Used
<1>2. \A r \in Used : runs[r].pilot \in Nat /\ pilot.id \in Nat
  BY UsedTask DEF RunType, IInv, TypeOK
<1>3. WakesUsed'
  BY <1>1, <1>2 DEF IInv, Admissions, WakesUsed, RunsGrow
<1>4. AdmittedOnce'
  BY <1>1 DEF IInv, Admissions, AdmittedOnce, RunsGrow
<1> QED BY <1>3, <1>4 DEF Admissions

\* The runs known stay known.
LEMMA RunsKnownStay ==
    ASSUME IInv, RunsGrow, generation' = generation
    PROVE  RunsKnown'
  BY DEF IInv, RunsKnown, RunsGrow, Used, TaskOf

-----------------------------------------------------------------------------
(* Admission and refusal. *)

\* What the sweep of expired leases does to the runs.
LEMMA SweepRuns ==
    ASSUME IInv
    PROVE  /\ SweptRuns \in [Runs -> RunType]
           /\ \A r \in Runs :
                /\ SweptRuns[r].task = runs[r].task /\ SweptRuns[r].role = runs[r].role
                /\ SweptRuns[r].wake = runs[r].wake /\ SweptRuns[r].pilot = runs[r].pilot
                /\ SweptRuns[r].result = runs[r].result
                /\ r \notin lapsed \/ runs[r].status \in Terminal => SweptRuns[r] = runs[r]
<1>1. runs \in [Runs -> RunType]
  BY DEF IInv, TypeOK
<1>2. ASSUME NEW r \in Runs
      PROVE  /\ SweptRuns[r] \in RunType
             /\ SweptRuns[r].task = runs[r].task /\ SweptRuns[r].role = runs[r].role
             /\ SweptRuns[r].wake = runs[r].wake /\ SweptRuns[r].pilot = runs[r].pilot
             /\ SweptRuns[r].result = runs[r].result
             /\ r \notin lapsed \/ runs[r].status \in Terminal => SweptRuns[r] = runs[r]
  BY <1>1 DEF SweptRuns, RunType, Unfinished, Terminal
<1>3. DOMAIN SweptRuns = Runs
  BY DEF SweptRuns
<1>4. SweptRuns \in [Runs -> RunType]
  BY <1>2 DEF SweptRuns
<1> QED BY <1>2, <1>4

\* And to the tasks: those whose lease is gone let go of it, nothing else.
LEMMA SweepTasks ==
    ASSUME IInv
    PROVE  /\ SweptTasks \in [Tasks -> TaskType]
           /\ \A t \in Tasks :
                /\ SweptTasks[t].phase = task[t].phase /\ SweptTasks[t].target = task[t].target
                /\ SweptTasks[t].review = task[t].review
                /\ \/ task[t].lease \in Live \cup {NoRun} /\ SweptTasks[t] = task[t]
                   \/ task[t].lease \notin Live /\ SweptTasks[t].lease = NoRun
<1>1. task \in [Tasks -> TaskType]
  BY DEF IInv, TypeOK
<1>2. ASSUME NEW t \in Tasks
      PROVE  /\ SweptTasks[t] \in TaskType
             /\ SweptTasks[t].phase = task[t].phase /\ SweptTasks[t].target = task[t].target
             /\ SweptTasks[t].review = task[t].review
             /\ \/ task[t].lease \in Live \cup {NoRun} /\ SweptTasks[t] = task[t]
                \/ task[t].lease \notin Live /\ SweptTasks[t].lease = NoRun
  <2>1. task[t].lease \in leases \cup {NoRun} /\ task[t] \in TaskType
    BY <1>1 DEF IInv, Holders, OneHolder
  <2> QED BY <2>1 DEF SweptTasks, TaskType, Live
<1>3. SweptTasks \in [Tasks -> TaskType]
  BY <1>2 DEF SweptTasks
<1> QED BY <1>2, <1>3

\* The wakeup ids of callers and of ticks.
LEMMA WakeNumbers ==
    ASSUME TypeOK, NEW t, NEW wake \in WakeIds(t)
    PROVE  /\ wake \in (-MaxPilots)..MaxWakeups
           /\ wake < 0 => /\ t = PilotTask /\ -wake <= pilot.id
           /\ wake # 0
  BY ControllerAssumption DEF WakeIds, Tick, TypeOK

\* A refusal leaves the sweep and the wakeup it used up.
LEMMA RefuseStep ==
    ASSUME IInv, NEW t \in Tasks, NEW wake \in WakeIds(t), Refuse(wake)
    PROVE  IInv'
<1> USE DEF Refuse
<1>1. TypeOK'
  <2>1. wake \in (-MaxPilots)..MaxWakeups
    BY WakeNumbers DEF IInv
  <2> QED BY <2>1, SweepRuns, SweepTasks DEF IInv, TypeOK, Used, Live
<1>2. RunsGrow
  BY SweepRuns, LeaseNumbers DEF IInv, RunsGrow
<1>3. Holders'
  <2>1. \A r \in leases' : runs'[r].status \in Unfinished \cup {"SUCCESS"}
    BY SweepRuns, LeaseNumbers DEF IInv, Holders, OneHolder, Live
  <2>2. leases' \subseteq leases /\ quota' = quota
    BY DEF Live
  <2>3. \A t_1 \in Tasks :
              \/ /\ task[t_1].lease \in leases' \cup {NoRun}
                 /\ task'[t_1].lease = task[t_1].lease /\ task'[t_1].current = task[t_1].current
              \/ task[t_1].lease \notin leases' /\ task'[t_1].lease = NoRun
    BY SweepTasks
  <2> QED BY <1>2, <2>1, <2>2, <2>3, HoldersStay
<1>4. Admissions'
  BY <1>2, AdmissionsStay DEF IInv, TypeOK, Admissions, WakesUsed
<1>5. Reviews'
  <2>1. ASSUME NEW q \in Used PROVE ResultSound(q)'
    BY <1>2, SweepRuns, LeaseNumbers, ResultStays DEF IInv, Reviews
  <2>2. ASSUME NEW u \in Tasks PROVE Reviewed(u)'
    BY <1>2, SweepTasks, ReviewedStays DEF IInv, Reviews
  <2> QED BY <2>1, <2>2 DEF Reviews, Used
<1> QED BY <1>1, <1>2, <1>3, <1>4, <1>5, RunsKnownStay DEF IInv

\* The quota a run is admitted with is one of those its admission stayed below.
LEMMA EffectiveQuota ==
    ASSUME IInv, NEW t \in Tasks, NEW byPilot \in BOOLEAN, BelowQuota(t, byPilot)
    PROVE  /\ EffectiveMaximum(t, byPilot) \in Nat
           /\ Cardinality(Live) < EffectiveMaximum(t, byPilot)
           /\ \A r \in Live : quota[r] \in Nat /\ Cardinality(Live) < quota[r]
<1> DEFINE Q == Ceilings(byPilot) \cup {MaxWorkers[t]} \cup {quota[r] : r \in Live}
<1>1. \A r \in Live : quota[r] \in Nat
  BY LeaseNumbers DEF IInv, TypeOK, Live
<1>2. Q \subseteq Nat /\ Q # {}
  BY <1>1, ControllerAssumption DEF Ceilings
<1>3. \A m \in Q : Cardinality(Live) < m
  BY DEF BelowQuota
<1>4. EffectiveMaximum(t, byPilot) = CHOOSE m \in Q : \A n \in Q : m <= n
  BY DEF EffectiveMaximum
<1>5. \A r \in Live : quota[r] \in Q
  OBVIOUS
<1> HIDE DEF Q
<1>6. \E m \in Q : \A n \in Q : m <= n
  BY <1>2, NatMinimum
<1>7. EffectiveMaximum(t, byPilot) \in Q
  BY <1>4, <1>6
<1> QED BY <1>1, <1>2, <1>3, <1>5, <1>7

\* What authorizes a call by the pilot.
LEMMA PilotCall ==
    ASSUME NEW t, NEW byPilot \in ByPilot(t)
    PROVE  byPilot \in BOOLEAN /\ (byPilot => PilotAuthorized(t))
  BY Zenon DEF ByPilot, PilotAuthorized

\* What an admission is granted on, one condition at a time.
LEMMA AdmitGuards ==
    ASSUME IInv, NEW t \in Tasks, NEW wake \in WakeIds(t), NEW byPilot \in ByPilot(t),
           NEW role \in {"owner", "reviewer"}, Admit(t, role, wake, byPilot)
    PROVE  /\ byPilot \in BOOLEAN
           /\ byPilot => /\ pilot.status = "READY"
                         /\ \A r \in Used : runs[r].pilot # pilot.id
           /\ t = PilotTask => byPilot
           /\ wake \notin woken \/ (byPilot /\ wake = -pilot.id)
           /\ SweptTasks[t].lease \notin Live
           /\ BelowQuota(t, byPilot)
           /\ NoConflict(t)
           /\ generation + 1 \in Runs /\ generation + 1 \notin leases
<1>1. byPilot \in BOOLEAN /\ (byPilot => PilotAuthorized(t))
  BY PilotCall
<1>2. Admissible(t, role, wake, byPilot) /\ generation < MaxRuns
  BY Zenon DEF Admit
<1>3. byPilot => pilot.status = "READY" /\ \A r \in Used : runs[r].pilot # pilot.id
  BY <1>1, Zenon DEF PilotAuthorized
<1>4. t = PilotTask => byPilot
  BY <1>2, Zenon DEF Admissible
<1>5. wake \notin woken \/ (byPilot /\ wake = -pilot.id)
  BY <1>2, Zenon DEF Admissible, WakeFresh, Tick
<1>6. SweptTasks[t].lease \notin Live /\ BelowQuota(t, byPilot) /\ NoConflict(t)
  BY <1>2, Zenon DEF Admissible
<1>7. generation + 1 \in Runs /\ generation + 1 \notin leases
  BY <1>2, LeaseNumbers, ControllerAssumption DEF IInv, Runs, Used
<1> QED BY <1>1, <1>3, <1>4, <1>5, <1>6, <1>7, Zenon

\* The records admission writes: one run, and one task whose lease and current
\* run it is.
LEMMA AdmitRecords ==
    ASSUME IInv, NEW t \in Tasks, NEW wake \in WakeIds(t), NEW byPilot \in ByPilot(t),
           NEW role \in {"owner", "reviewer"}, Admit(t, role, wake, byPilot), NEW r, r = generation + 1
    PROVE  /\ runs'[r] \in RunType
           /\ runs'[r].task = t /\ runs'[r].role = role /\ runs'[r].status = "RESERVED"
           /\ runs'[r].wake = wake /\ runs'[r].result = NoResult
           /\ runs'[r].pilot = IF byPilot THEN pilot.id ELSE 0
           /\ \A q \in Runs : q # r => runs'[q] = SweptRuns[q]
           /\ DOMAIN runs' = Runs
           /\ task'[t] \in TaskType
           /\ task'[t].lease = r /\ task'[t].current = r
           /\ \A u \in Tasks : u # t => task'[u] = SweptTasks[u]
           /\ DOMAIN task' = Tasks
<1> DEFINE new == [task |-> t, role |-> role, status |-> "RESERVED", wake |-> wake,
                   pilot |-> IF byPilot THEN pilot.id ELSE 0, head |-> 0, result |-> NoResult]
<1>1. byPilot \in BOOLEAN /\ r \in Runs /\ wake \in (-MaxPilots)..MaxWakeups
  BY AdmitGuards, WakeNumbers DEF IInv
<1>2. new \in RunType
  BY <1>1, ControllerAssumption DEF RunType, NoResult, Absent, Unfinished, IInv, TypeOK, NoRun
<1>3. runs' = [SweptRuns EXCEPT ![r] = new] /\ task' = [SweptTasks EXCEPT ![t] = AdmittedTask(t, r, byPilot)]
  BY Zenon DEF Admit
<1>4. AdmittedTask(t, r, byPilot) \in TaskType
      /\ AdmittedTask(t, r, byPilot).lease = r /\ AdmittedTask(t, r, byPilot).current = r
  <2>1. task[t] \in TaskType
    BY DEF IInv, TypeOK
  <2>2. ContractPhase(t) \in {"QUEUED", "INDEPENDENT_REVIEW"} /\ MaxCommits \in Nat /\ MaxCorrections \in Nat
    BY ControllerAssumption DEF ContractPhase
  <2>3. CASE byPilot
    BY <1>1, <2>2, <2>3 DEF AdmittedTask, TaskType, NoTarget, NoRun
  <2>4. CASE ~byPilot
    <3> DEFINE fresh == IF ContractPhase(t) = "INDEPENDENT_REVIEW" /\ task[t].target = NoTarget
                        THEN SignedTarget ELSE task[t].target
    <3>1. fresh \in [impl : Runs \cup {NoRun, Signed}, head : 0..MaxCommits]
      BY <2>1, <2>2 DEF TaskType, SignedTarget
    <3>2. AdmittedTask(t, r, byPilot) =
             [task[t] EXCEPT !.current = r, !.lease = r, !.target = fresh,
                             !.impl = IF @ = NoRun THEN fresh.impl ELSE @]
      BY <2>4 DEF AdmittedTask
    <3> HIDE DEF fresh
    <3>3. fresh.impl \in Runs \cup {NoRun, Signed} /\ task[t].impl \in Runs \cup {NoRun, Signed}
      BY <2>1, <3>1 DEF TaskType
    <3> DEFINE impl == IF task[t].impl = NoRun THEN fresh.impl ELSE task[t].impl
    <3>4. impl \in Runs \cup {NoRun, Signed}
      BY <3>3
    <3>5. AdmittedTask(t, r, byPilot) =
             [phase |-> task[t].phase, current |-> r, lease |-> r,
              corrections |-> task[t].corrections, reviewers |-> task[t].reviewers,
              review |-> task[t].review, impl |-> impl, target |-> fresh]
      BY <2>1, <3>2 DEF TaskType
    <3> HIDE DEF impl
    <3> QED BY ONLY <1>1, <2>1, <3>1, <3>4, <3>5 DEF TaskType
  <2> QED BY <1>1, <2>3, <2>4
<1> QED BY <1>1, <1>2, <1>3, <1>4, SweepRuns, SweepTasks

\* The types after an admission, and that it only adds a run.
LEMMA AdmitTypes ==
    ASSUME IInv, NEW t \in Tasks, NEW wake \in WakeIds(t), NEW byPilot \in ByPilot(t),
           NEW role \in {"owner", "reviewer"}, Admit(t, role, wake, byPilot)
    PROVE  TypeOK' /\ RunsGrow /\ RunsKnown'
<1> DEFINE r == generation + 1
<1>1. /\ r \in Runs /\ generation \in Nat /\ r \notin Used /\ Used' = Used \cup {r}
      /\ generation' = r /\ Used \subseteq Runs
  BY AdmitGuards, LeaseNumbers, ControllerAssumption DEF Admit, IInv, Used, Runs
<1>2. \A q \in Used : q # r /\ runs'[q] = SweptRuns[q]
  BY <1>1, AdmitRecords
<1>3. RunsGrow
  BY <1>1, <1>2, SweepRuns DEF RunsGrow
<1>4. runs' \in [Runs -> RunType]
  <2>1. \A q \in Runs : runs'[q] \in RunType
    BY <1>1, AdmitRecords, SweepRuns
  <2>2. runs' = [q \in Runs |-> runs'[q]]
    <3>1. runs' = [SweptRuns EXCEPT ![r] =
                   [task |-> t, role |-> role, status |-> "RESERVED", wake |-> wake,
                    pilot |-> IF byPilot THEN pilot.id ELSE 0, head |-> 0, result |-> NoResult]]
      BY Zenon DEF Admit
    <3> QED BY <3>1, SweepRuns
  <2> QED BY <2>1, <2>2
<1>5. task' \in [Tasks -> TaskType]
  <2>1. task' = [SweptTasks EXCEPT ![t] = AdmittedTask(t, r, byPilot)]
    BY Zenon DEF Admit
  <2>2. task'[t] \in TaskType
    BY AdmitRecords
  <2> QED BY <2>1, <2>2, SweepTasks
<1>6. quota' \in [Runs -> Nat]
  <2>1. quota' = [quota EXCEPT ![r] = EffectiveMaximum(t, byPilot)]
    BY Zenon DEF Admit
  <2>2. EffectiveMaximum(t, byPilot) \in Nat
    BY AdmitGuards, EffectiveQuota
  <2> QED BY <2>1, <2>2 DEF IInv, TypeOK
<1>7. leases' \subseteq Used' /\ lapsed' \subseteq leases'
  BY <1>1, LeaseNumbers DEF Admit, IInv, Live
<1>8. pilot' \in [status : {"DISABLED", "READY", "CONSUMED"}, id : 0..MaxPilots, run : Runs \cup {NoRun}]
  <2>1. pilot' = pilot \/ pilot' = [pilot EXCEPT !.status = "CONSUMED", !.run = r]
    BY Zenon DEF Admit
  <2> QED BY <1>1, <2>1 DEF IInv, TypeOK
<1>9. woken' \subseteq (-MaxPilots)..MaxWakeups
  BY WakeNumbers DEF Admit, IInv, TypeOK
<1>10. generation' \in 0..MaxRuns
  BY <1>1, ControllerAssumption DEF Runs
<1>11. TypeOK'
  <2>1. UNCHANGED <<approval, closeout, plan, activated, worker, act, seen, head>>
    BY Zenon DEF Admit
  <2> QED BY <1>4, <1>5, <1>6, <1>7, <1>8, <1>9, <1>10, <2>1 DEF IInv, TypeOK, Used
<1>12. RunsKnown'
  <2>1. \A q \in Used : runs'[q].task \in Tasks /\ runs'[q].role \in {"owner", "reviewer"}
    BY <1>3 DEF RunsGrow, IInv, RunsKnown, TaskOf
  <2>2. runs'[r].task \in Tasks /\ runs'[r].role \in {"owner", "reviewer"}
    BY AdmitRecords
  <2> QED BY <1>1, <2>1, <2>2 DEF RunsKnown, TaskOf
<1> QED BY <1>3, <1>11, <1>12

\* The new lease finds its task free, its locks free and room under every quota.
LEMMA AdmitHolders ==
    ASSUME IInv, NEW t \in Tasks, NEW wake \in WakeIds(t), NEW byPilot \in ByPilot(t),
           NEW role \in {"owner", "reviewer"}, Admit(t, role, wake, byPilot)
    PROVE  Holders'
<1>0. PICK r : r = generation + 1
  OBVIOUS
<1>1. leases' = Live \cup {r} /\ r \notin leases /\ r \in Runs /\ r # NoRun /\ Live \subseteq leases
      /\ Live \subseteq Runs
  BY <1>0, AdmitGuards, LeaseNumbers DEF Admit, IInv, Live, Runs, NoRun
<1>2. ASSUME NEW q \in Live
      PROVE  /\ q # r /\ TaskOf(q) \in Tasks /\ TaskOf(q)' = TaskOf(q) /\ TaskOf(q) # t
             /\ task'[TaskOf(q)].lease = q /\ task'[TaskOf(q)].current = q
             /\ runs'[q].status \in Unfinished \cup {"SUCCESS"}
  <2>1. q \in leases /\ q \notin lapsed /\ q \in Runs /\ q # r /\ TaskOf(q) \in Tasks
    BY <1>1, LeaseNumbers DEF IInv, RunsKnown, Live
  <2>2. runs'[q] = runs[q]
    BY <1>0, <2>1, AdmitRecords, SweepRuns
  <2>3. task[TaskOf(q)].lease = q /\ task[TaskOf(q)].current = q
        /\ runs[q].status \in Unfinished \cup {"SUCCESS"}
    BY <2>1 DEF IInv, Holders, OneHolder
  <2>4. SweptTasks[TaskOf(q)] = task[TaskOf(q)]
    BY <2>1, <2>3, SweepTasks, LeaseNumbers DEF IInv
  <2>5. TaskOf(q) # t
    BY <2>3, <2>4, AdmitGuards
  <2>6. task'[TaskOf(q)] = SweptTasks[TaskOf(q)]
    BY <2>1, <2>5, AdmitRecords
  <2> QED BY <2>1, <2>2, <2>3, <2>4, <2>5, <2>6 DEF TaskOf
<1>3. TaskOf(r)' = t /\ task'[t].lease = r /\ task'[t].current = r /\ runs'[r].status = "RESERVED"
  BY <1>0, AdmitRecords DEF TaskOf
<1>4. \A u \in Tasks : u # t =>
         \/ task'[u].lease = NoRun
         \/ task'[u].lease \in Live /\ task'[u].lease = task[u].lease
  BY AdmitRecords, SweepTasks
<1>5. OneHolder'
  <2>1. ASSUME NEW q \in leases'
        PROVE  /\ task'[TaskOf(q)'].lease = q /\ task'[TaskOf(q)'].current = q
               /\ runs'[q].status \in Unfinished \cup {"SUCCESS"}
    BY <1>1, <1>2, <1>3, <2>1 DEF Unfinished
  <2>2. \A u \in Tasks : task'[u].lease # NoRun => task'[u].lease \in leases'
    BY <1>1, <1>3, <1>4
  <2> QED BY <2>1, <2>2 DEF OneHolder
<1>6. LeaseNamesTask'
  BY <1>2, <1>3, <1>4 DEF LeaseNamesTask, IInv, Holders
<1>7. Exclusive'
  <2>1. \A q \in Live : <<TaskOf(q), t>> \notin Conflicts /\ <<t, TaskOf(q)>> \notin Conflicts
    BY <1>2, AdmitGuards, ControllerAssumption DEF NoConflict
  <2>2. \A p, q \in leases' : p # q =>
           TaskOf(p)' # TaskOf(q)' /\ <<TaskOf(p)', TaskOf(q)'>> \notin Conflicts
    <3>1. \A p, q \in Live : p # q => TaskOf(p)' # TaskOf(q)' /\ <<TaskOf(p)', TaskOf(q)'>> \notin Conflicts
      <4>1. \A p \in Live : p \in leases /\ TaskOf(p)' = TaskOf(p)
        BY <1>1, <1>2
      <4> QED BY <4>1 DEF IInv, Holders, Exclusive
    <3>2. \A q \in Live : TaskOf(q)' # TaskOf(r)' /\ <<TaskOf(q)', TaskOf(r)'>> \notin Conflicts
                         /\ <<TaskOf(r)', TaskOf(q)'>> \notin Conflicts
      BY <1>2, <1>3, <2>1
    <3> QED BY <1>1, <3>1, <3>2
  <2>3. IsFiniteSet(Live) /\ Cardinality(leases') = Cardinality(Live) + 1 /\ Cardinality(Live) \in Nat
    <3>1. IsFiniteSet(Live)
      BY <1>1, LeaseNumbers, FS_Subset DEF IInv
    <3>2. r \notin Live
      BY <1>1
    <3> QED BY <1>1, <3>1, <3>2, FS_AddElement, FS_CardinalityType
  <2>4. quota' = [quota EXCEPT ![r] = EffectiveMaximum(t, byPilot)] /\ quota \in [Runs -> Nat]
    BY <1>0, Zenon DEF Admit, IInv, TypeOK
  <2>5. /\ EffectiveMaximum(t, byPilot) \in Nat
        /\ Cardinality(Live) < EffectiveMaximum(t, byPilot)
        /\ \A q \in Live : Cardinality(Live) < quota[q]
    BY AdmitGuards, EffectiveQuota
  <2>6. ASSUME NEW q \in leases' PROVE Cardinality(leases') <= quota'[q]
    <3>1. CASE q = r
      BY <1>1, <2>3, <2>4, <2>5, <3>1
    <3>2. CASE q # r
      <4>1. q \in Live /\ q \in Runs /\ quota'[q] = quota[q] /\ quota[q] \in Nat
        BY <1>1, <2>4, <2>6, <3>2
      <4> QED BY <4>1, <2>3, <2>5
    <3> QED BY <3>1, <3>2
  <2> QED BY <2>2, <2>6 DEF Exclusive
<1> QED BY <1>5, <1>6, <1>7 DEF Holders

\* The new run's wakeup is no other run's, and neither is its activation.
LEMMA AdmitAdmissions ==
    ASSUME IInv, NEW t \in Tasks, NEW wake \in WakeIds(t), NEW byPilot \in ByPilot(t),
           NEW role \in {"owner", "reviewer"}, Admit(t, role, wake, byPilot)
    PROVE  Admissions'
<1>0. PICK r : r = generation + 1
  OBVIOUS
<1>1. Used' = Used \cup {r} /\ r \notin Used /\ Used \subseteq Runs
  BY <1>0, LeaseNumbers DEF Admit, IInv, Used
<1>2. pilot.id \in Nat /\ (pilot.status = "READY" => pilot.id >= 1)
  BY DEF IInv, TypeOK, Admissions, WakesUsed
<1>3. ASSUME NEW q \in Used
      PROVE  /\ runs'[q].wake = runs[q].wake /\ runs'[q].pilot = runs[q].pilot
             /\ runs[q].pilot \in Nat /\ runs[q].wake \in Int
             /\ runs[q].wake \in woken /\ runs[q].pilot <= pilot.id
             /\ runs[q].wake < 0 => -runs[q].wake <= runs[q].pilot
  <2>1. q \in Runs /\ q # r /\ runs[q] \in RunType
    BY <1>1 DEF IInv, TypeOK
  <2>2. runs[q].pilot \in Nat /\ runs[q].wake \in Int
    BY <2>1, ControllerAssumption DEF RunType
  <2>3. runs'[q].wake = runs[q].wake /\ runs'[q].pilot = runs[q].pilot
    BY <1>0, <2>1, AdmitRecords, SweepRuns
  <2> QED BY <2>2, <2>3 DEF IInv, Admissions, WakesUsed
<1>4. /\ runs'[r].wake = wake /\ runs'[r].pilot = IF byPilot THEN pilot.id ELSE 0
      /\ byPilot \in BOOLEAN
      /\ byPilot => pilot.status = "READY" /\ \A q \in Used : runs[q].pilot # pilot.id
      /\ t = PilotTask => byPilot
      /\ wake \notin woken \/ (byPilot /\ wake = -pilot.id)
      /\ wake \in Int
      /\ wake < 0 => t = PilotTask /\ -wake <= pilot.id
  BY <1>0, AdmitRecords, AdmitGuards, WakeNumbers, ControllerAssumption DEF IInv
<1>5. pilot'.id = pilot.id /\ (pilot'.status = "READY" => pilot.status = "READY") /\ woken' = woken \cup {wake}
  <2>1. pilot' = pilot \/ pilot' = [pilot EXCEPT !.status = "CONSUMED", !.run = generation + 1]
    BY Zenon DEF Admit
  <2>2. woken' = woken \cup {wake}
    BY Zenon DEF Admit
  <2> QED BY <2>1, <2>2 DEF IInv, TypeOK
<1>6. WakesUsed'
  <2>1. runs'[r].pilot <= pilot.id /\ (wake < 0 => -wake <= runs'[r].pilot)
    BY <1>2, <1>4
  <2> QED BY <1>1, <1>2, <1>3, <1>4, <1>5, <2>1 DEF WakesUsed
<1>7. ASSUME NEW q \in Used PROVE runs[q].wake # wake
  <2>1. CASE wake \notin woken
    BY <1>3, <2>1
  <2>2. CASE byPilot /\ wake = -pilot.id
    BY <1>2, <1>3, <1>4, <2>2
  <2> QED BY <1>4, <2>1, <2>2
<1>8. ASSUME NEW q \in Used
      PROVE  /\ runs[q].pilot # 0 => runs[q].pilot # runs'[r].pilot
             /\ runs'[r].pilot # 0 => runs'[r].pilot # runs[q].pilot
  BY <1>4
<1>9. \A p, q \in Used :
         p # q => /\ runs[p].wake # runs[q].wake
                  /\ runs[p].pilot # 0 => runs[p].pilot # runs[q].pilot
  BY DEF IInv, Admissions, AdmittedOnce
<1>10. AdmittedOnce'
  <2>1. ASSUME NEW p \in Used', NEW q \in Used', p # q
        PROVE  /\ runs'[p].wake # runs'[q].wake
               /\ runs'[p].pilot # 0 => runs'[p].pilot # runs'[q].pilot
    <3>1. runs'[r].wake = wake
      BY <1>4
    <3>2. CASE p = r
      BY <1>1, <1>3, <1>7, <1>8, <2>1, <3>1, <3>2
    <3>3. CASE q = r
      BY <1>1, <1>3, <1>7, <1>8, <2>1, <3>1, <3>3
    <3>4. CASE p \in Used /\ q \in Used
      BY <1>3, <1>9, <2>1, <3>4
    <3> QED BY <1>1, <2>1, <3>2, <3>3, <3>4
  <2> QED BY <2>1 DEF AdmittedOnce
<1> QED BY <1>6, <1>10 DEF Admissions

\* A pilot starts its task over; any other admission leaves what was reviewed,
\* and names the signed target where a task that starts with a review has none.
LEMMA AdmitReviews ==
    ASSUME IInv, NEW t \in Tasks, NEW wake \in WakeIds(t), NEW byPilot \in ByPilot(t),
           NEW role \in {"owner", "reviewer"}, Admit(t, role, wake, byPilot)
    PROVE  Reviews'
<1>0. PICK r : r = generation + 1
  OBVIOUS
<1>1. RunsGrow /\ TypeOK /\ byPilot \in BOOLEAN
  BY AdmitTypes, AdmitGuards DEF IInv
<1>2. Used' = Used \cup {r} /\ Used \subseteq Runs /\ r \notin Used /\ r \in Nat
  BY <1>0, LeaseNumbers DEF Admit, IInv, Used
<1>3. UNCHANGED <<approval, closeout>>
  BY Zenon DEF Admit
<1>4. ASSUME NEW q \in Used' PROVE ResultSound(q)'
  <2>1. CASE q = r
    BY <1>0, <2>1, AdmitRecords DEF ResultSound, NoResult, Absent
  <2>2. CASE q \in Used
    <3>1. runs'[q].result = runs[q].result
      BY <1>0, <1>2, <2>2, AdmitRecords, SweepRuns
    <3> QED BY <1>1, <2>2, <3>1, ResultStays DEF IInv, Reviews
  <2> QED BY <1>2, <1>4, <2>1, <2>2
<1>5. ASSUME NEW u \in Tasks, u # t PROVE Reviewed(u)'
  <2>1. task'[u] = SweptTasks[u]
    BY <1>0, <1>5, AdmitRecords
  <2> QED BY <1>1, <1>3, <2>1, SweepTasks, ReviewedStays DEF IInv, Reviews
<1>6. Reviewed(t)'
  <2>1. task' = [SweptTasks EXCEPT ![t] = AdmittedTask(t, r, byPilot)]
    BY <1>0, Zenon DEF Admit
  <2>2. task'[t] = AdmittedTask(t, r, byPilot) /\ task[t] \in TaskType
    BY <2>1, SweepTasks DEF IInv, TypeOK
  <2>3. ApprovalEarned(t)'
    BY <1>1, <1>3, EarnedStays DEF IInv, Reviews, Reviewed, ApprovalEarned, NoClosing
  <2>4. task'[t].lease = r
    BY <1>0, AdmitRecords
  <2>5. TargetSound(t) /\ StandsApproved(t)
    BY DEF IInv, Reviews, Reviewed
  <2>6. CASE byPilot
    <3>1. task'[t].target = NoTarget /\ task'[t].phase # "CLOSEOUT"
      BY <2>2, <2>6 DEF AdmittedTask, ContractPhase
    <3> QED BY <1>2, <2>3, <2>4, <3>1 DEF Reviewed, TargetSound, StandsApproved, NoTarget, NoRun
  <2>7. CASE ~byPilot
    <3>1. task'[t].phase = task[t].phase /\ task'[t].review = task[t].review
          /\ task'[t].target \in {task[t].target, SignedTarget}
          /\ (task[t].target # NoTarget => task'[t].target = task[t].target)
      BY <2>2, <2>7 DEF AdmittedTask, TaskType
    <3>2. TargetSound(t)'
      <4>1. (task[t].target # NoTarget => Implements(t, task[t].target.impl, task[t].target.head))'
        <5>1. CASE task'[t].target = SignedTarget
          BY <5>1 DEF Implements, SignedTarget
        <5>2. CASE task'[t].target = task[t].target
          BY <1>1, <2>5, <5>2, ImplementsStays DEF TargetSound, NoTarget
        <5> QED BY <3>1, <5>1, <5>2
      <4>2. task'[t].target.impl <= r
        <5>1. CASE task'[t].target = SignedTarget
          BY <1>2, <5>1 DEF SignedTarget, Signed
        <5>2. CASE task'[t].target = task[t].target
          <6>1. task[t].target.impl \in Used \cup {NoRun, Signed}
            BY <2>5 DEF TargetSound, Implements, NoTarget
          <6>2. \A i \in Used : i <= r
            BY <1>0, LeaseNumbers DEF IInv, Used
          <6> QED BY <1>2, <5>2, <6>1, <6>2 DEF NoRun, Signed
        <5> QED BY <3>1, <5>1, <5>2
      <4> QED BY <2>4, <4>1, <4>2 DEF TargetSound, NoTarget
    <3>3. StandsApproved(t)'
      <4>1. SUFFICES ASSUME task[t].phase = "CLOSEOUT" PROVE Approves(t, task[t].review)'
        BY <3>1 DEF StandsApproved
      <4>2. Approves(t, task[t].review)
        BY <2>5, <4>1 DEF StandsApproved
      <4>3. task[t].target # NoTarget
        BY <4>2, LeaseNumbers DEF Approves, Earned, NoTarget, IInv, NoRun, Signed
      <4> QED BY <1>1, <3>1, <4>2, <4>3, EarnedStays DEF Approves
    <3> QED BY <2>3, <3>2, <3>3 DEF Reviewed
  <2> QED BY <1>1, <2>6, <2>7
<1>7. \A u \in Tasks : Reviewed(u)'
  BY <1>5, <1>6
<1> QED BY <1>4, <1>7 DEF Reviews

\* An admission keeps the invariant.
LEMMA AdmitStep ==
    ASSUME IInv, NEW t \in Tasks, NEW wake \in WakeIds(t), NEW byPilot \in ByPilot(t),
           NEW role \in {"owner", "reviewer"}, Admit(t, role, wake, byPilot)
    PROVE  IInv'
  BY AdmitTypes, AdmitHolders, AdmitAdmissions, AdmitReviews DEF IInv

-----------------------------------------------------------------------------
(* The steps that change at most one task. *)

\* Runs that are not touched only grow.
LEMMA RunsSame ==
    ASSUME TypeOK, generation' = generation, runs' = runs
    PROVE  RunsGrow
  BY LeaseNumbers DEF RunsGrow

\* A step that leaves runs, leases and admissions alone needs the task it writes
\* looked at, nothing else.
LEMMA TaskStep ==
    ASSUME IInv, TypeOK', NEW t \in Tasks,
           generation' = generation, runs' = runs, leases' = leases, quota' = quota,
           pilot' = pilot, woken' = woken,
           task'[t].lease = task[t].lease, task'[t].current = task[t].current,
           \A u \in Tasks : u # t =>
              task'[u] = task[u] /\ approval'[u] = approval[u] /\ closeout'[u] = closeout[u],
           Reviewed(t)'
    PROVE  IInv'
<1>1. RunsGrow /\ Used' = Used
  BY RunsSame DEF IInv, Used
<1>2. Holders'
  <2>1. \A u \in Tasks : task[u].lease \in leases \cup {NoRun}
                         /\ task'[u].lease = task[u].lease /\ task'[u].current = task[u].current
    BY DEF IInv, Holders, OneHolder
  <2>2. \A r \in leases' : runs'[r].status \in Unfinished \cup {"SUCCESS"}
    BY DEF IInv, Holders, OneHolder
  <2> QED BY <1>1, <2>1, <2>2, HoldersStay
<1>3. Admissions'
  BY <1>1, AdmissionsStay DEF IInv, TypeOK, Admissions, WakesUsed
<1>4. \A u \in Tasks : Reviewed(u)'
  <2>1. ASSUME NEW u \in Tasks, u # t PROVE Reviewed(u)'
    BY <1>1, <2>1, ReviewedStays DEF IInv, Reviews
  <2> QED BY <2>1
<1>5. \A q \in Used : ResultSound(q)'
  BY <1>1, ResultStays DEF IInv, Reviews
<1> QED BY <1>1, <1>2, <1>3, <1>4, <1>5, RunsKnownStay DEF IInv, Reviews

\* A step that touches nothing of what the invariant is about but its types.
LEMMA OtherStep ==
    ASSUME IInv, TypeOK', generation' = generation, runs' = runs, leases' = leases,
           quota' = quota, task' = task, approval' = approval, closeout' = closeout,
           woken' = woken, pilot'.id >= pilot.id, pilot'.status = "READY" => pilot'.id >= 1
    PROVE  IInv'
<1>1. RunsGrow /\ Used' = Used
  BY RunsSame DEF IInv, Used
<1>2. Holders'
  BY DEF IInv, Holders, OneHolder, LeaseNamesTask, Exclusive, TaskOf
<1>3. Admissions'
  BY <1>1, AdmissionsStay DEF IInv, TypeOK
<1>4. \A u \in Tasks : Reviewed(u)'
  BY <1>1, ReviewedStays DEF IInv, Reviews
<1>5. \A q \in Used : ResultSound(q)'
  BY <1>1, ResultStays DEF IInv, Reviews
<1> QED BY <1>1, <1>2, <1>3, <1>4, <1>5, RunsKnownStay DEF IInv, Reviews

\* A lease that ends lets go of its task, whatever became of its run.
LEMMA LeaseEnds ==
    ASSUME IInv, TypeOK', NEW r \in leases, generation' = generation, RunsGrow,
           \A q \in Used : runs'[q].result = runs[q].result,
           \A q \in leases : q # r => runs'[q] = runs[q],
           RemoveLease(r), task' = [task EXCEPT ![TaskOf(r)] = WithoutLease(TaskOf(r))],
           quota' = quota, pilot' = pilot, woken' = woken, approval' = approval, closeout' = closeout
    PROVE  IInv'
<1>1. r \in Used /\ TaskOf(r) \in Tasks /\ task[TaskOf(r)].lease = r /\ task \in [Tasks -> TaskType]
  BY LeaseNumbers DEF IInv, TypeOK, RunsKnown, Holders, OneHolder
<1>2. task'[TaskOf(r)] = [task[TaskOf(r)] EXCEPT !.lease = NoRun]
      /\ \A u \in Tasks : u # TaskOf(r) => task'[u] = task[u] /\ task[u].lease # r
  BY <1>1, LeaseNumbers DEF WithoutLease, IInv, Holders, LeaseNamesTask
<1>3. leases' = leases \ {r}
  BY DEF RemoveLease
<1>4. Holders'
  <2>1. \A q \in leases' : runs'[q].status \in Unfinished \cup {"SUCCESS"}
    BY <1>3 DEF IInv, Holders, OneHolder
  <2>2. \A u \in Tasks :
              \/ /\ task[u].lease \in leases' \cup {NoRun}
                 /\ task'[u].lease = task[u].lease /\ task'[u].current = task[u].current
              \/ task[u].lease \notin leases' /\ task'[u].lease = NoRun
    <3>2. task[TaskOf(r)].lease \notin leases' /\ task'[TaskOf(r)].lease = NoRun
      BY <1>1, <1>2, <1>3 DEF TaskType
    <3>3. \A u \in Tasks : task[u].lease \in leases \cup {NoRun}
      BY DEF IInv, Holders, OneHolder
    <3> QED BY <1>2, <1>3, <3>2, <3>3
  <2> QED BY <1>3, <2>1, <2>2, HoldersStay
<1>5. Admissions'
  BY AdmissionsStay DEF IInv, TypeOK, Admissions, WakesUsed
<1>6. \A u \in Tasks : Reviewed(u)'
  <2>1. \A u \in Tasks : /\ task'[u].target = task[u].target /\ task'[u].phase = task[u].phase
                         /\ task'[u].review = task[u].review
                         /\ task'[u].lease \in {task[u].lease, NoRun}
    BY <1>1, <1>2 DEF TaskType
  <2> QED BY <2>1, ReviewedStays DEF IInv, Reviews
<1>7. \A q \in Used : ResultSound(q)'
  BY ResultStays DEF IInv, Reviews
<1> QED BY <1>4, <1>5, <1>6, <1>7, RunsKnownStay DEF IInv, Reviews, Used

\* What a run that may perform an action has.
LEMMA HoldsFacts ==
    ASSUME IInv, NEW r \in Used, NEW action \in Actions, Holds(r, action)
    PROVE  /\ r \in leases /\ r \in Runs /\ TaskOf(r) \in Tasks
           /\ task[TaskOf(r)].lease = r /\ task[TaskOf(r)] \in TaskType /\ runs[r] \in RunType
           /\ runs[r].role \in RolesOf(action) /\ task[TaskOf(r)].phase \in PhasesOf(action)
           /\ action = "review" => task[TaskOf(r)].target # NoTarget
  BY UsedTask DEF Holds

\* The worker starts (markRunStarted): a run that ended is not touched.
LEMMA BeginStep ==
    ASSUME IInv, NEW r \in Used, NEW action \in Actions, Begin(r, action)
    PROVE  IInv'
<1>1. /\ runs' = [runs EXCEPT ![r].status = "RUNNING"] /\ runs[r].status = "RESERVED"
      /\ worker' = [worker EXCEPT ![r] = "working"]
      /\ act' = [act EXCEPT ![r] = IF action = "review" THEN "review" ELSE "work"]
      /\ UNCHANGED <<generation, leases, quota, task, approval, closeout, plan, activated,
                     pilot, woken, lapsed, seen, head>>
  BY Zenon DEF Begin
<1>2. r \in Runs /\ runs[r] \in RunType /\ runs \in [Runs -> RunType]
  BY UsedTask DEF IInv, TypeOK
<1>3. runs' \in [Runs -> RunType]
  BY <1>1, <1>2 DEF RunType, Unfinished
<1>4. TypeOK'
  BY <1>1, <1>2, <1>3 DEF IInv, TypeOK, Used
<1>5. /\ RunsGrow
      /\ \A q \in Runs : runs'[q].result = runs[q].result
      /\ \A q \in Runs : q # r => runs'[q] = runs[q]
      /\ runs'[r].status = "RUNNING"
  BY <1>1, <1>2, LeaseNumbers DEF RunsGrow, RunType, Terminal, IInv
<1>6. Holders'
  <2>1. \A q \in leases' : runs'[q].status \in Unfinished \cup {"SUCCESS"}
    BY <1>1, <1>5, LeaseNumbers DEF IInv, Holders, OneHolder, Unfinished
  <2>2. \A u \in Tasks : task[u].lease \in leases' \cup {NoRun}
    BY <1>1 DEF IInv, Holders, OneHolder
  <2> QED BY <1>1, <1>5, <2>1, <2>2, HoldersStay
<1>7. Admissions'
  BY <1>1, <1>5, AdmissionsStay DEF IInv, TypeOK, Admissions, WakesUsed
<1>8. Reviews'
  <2>1. \A q \in Used : ResultSound(q)'
    BY <1>5, LeaseNumbers, ResultStays DEF IInv, Reviews
  <2>2. \A u \in Tasks : Reviewed(u)'
    BY <1>1, <1>5, ReviewedStays DEF IInv, Reviews
  <2> QED BY <1>1, <2>1, <2>2 DEF Reviews, Used
<1> QED BY <1>1, <1>4, <1>5, <1>6, <1>7, <1>8, RunsKnownStay DEF IInv

\* The worker ended, and its process notes HEAD, or dies.
LEMMA ObserveStep ==
    ASSUME IInv, NEW r \in Used, Observe(r)
    PROVE  IInv'
<1>1. TypeOK'
  BY UsedTask DEF Observe, IInv, TypeOK, stateVars, Used
<1> QED BY <1>1, OtherStep DEF Observe, stateVars, IInv, TypeOK, Admissions, WakesUsed

LEMMA AbortStep ==
    ASSUME IInv, NEW r \in Used, Abort(r)
    PROVE  IInv'
<1>1. TypeOK'
  BY UsedTask, ControllerAssumption DEF Abort, Return, IInv, TypeOK, stateVars, Used
<1> QED BY <1>1, OtherStep DEF Abort, stateVars, IInv, TypeOK, Admissions, WakesUsed

\* A worker's end is recorded (completeRun).  Its lease stays with a run that
\* succeeded; an owner's is the implementation the task then stands at, and a
\* reviewer's judges the one it was shown.
LEMMA CompleteStep ==
    ASSUME IInv, NEW r \in Used, Complete(r)
    PROVE  IInv'
<1>0. PICK t : t = TaskOf(r)
  OBVIOUS
<1>1. PICK action \in Actions : Holds(r, action) /\ (action = "review" <=> act[r] = "review")
  BY Zenon DEF Complete
<1>2. PICK ok \in BOOLEAN, outcome \in {"APPROVED", "CHANGES_REQUESTED", "BLOCKED"} :
          LET status == IF seen[r] = head[t] /\ ok THEN "SUCCESS" ELSE "FAILED"
              judged == status = "SUCCESS" /\ act[r] = "review"
          IN /\ runs' = [runs EXCEPT
                   ![r].status = status,
                   ![r].head = IF status = "SUCCESS" THEN head[t] ELSE @,
                   ![r].result = IF judged THEN [outcome |-> outcome, impl |-> task[t].target.impl,
                                                 head |-> task[t].target.head]
                                 ELSE @]
             /\ IF status = "SUCCESS"
                THEN /\ task' = [task EXCEPT ![t] = IF runs[r].role = "owner"
                                                    THEN Implemented(t, r) ELSE @]
                     /\ UNCHANGED <<leases, lapsed>>
                ELSE RemoveLease(r) /\ task' = [task EXCEPT ![t] = WithoutLease(t)]
  BY <1>0, Zenon DEF Complete
<1>3. /\ r \in leases /\ r \in Runs /\ r \in Nat \ {0} /\ t \in Tasks /\ task[t].lease = r
      /\ task[t].current = r /\ task[t] \in TaskType /\ runs[r] \in RunType
      /\ runs \in [Runs -> RunType] /\ task \in [Tasks -> TaskType] /\ head[t] \in 0..MaxCommits
  BY <1>0, <1>1, HoldsFacts, UsedTask DEF IInv, TypeOK, Holds
<1>4. /\ runs[r].status \in Unfinished
      /\ UNCHANGED <<generation, quota, approval, closeout, plan, activated, pilot, woken, head>>
      /\ Return(r)
  BY Zenon DEF Complete
<1>5. act[r] = "review" => runs[r].role = "reviewer" /\ task[t].target # NoTarget
  BY <1>0, <1>1, HoldsFacts DEF RolesOf
<1>6. worker' \in [Runs -> {"none", "working", "observed"}] /\ act' \in [Runs -> {"none", "review", "work"}]
      /\ seen' \in [Runs -> 0..MaxCommits]
  <2>1. /\ worker' = [worker EXCEPT ![r] = "none"] /\ act' = [act EXCEPT ![r] = "none"]
        /\ seen' = [seen EXCEPT ![r] = 0] /\ MaxCommits \in Nat
    BY <1>4, ControllerAssumption DEF Return
  <2>2. /\ worker \in [Runs -> {"none", "working", "observed"}]
        /\ act \in [Runs -> {"none", "review", "work"}] /\ seen \in [Runs -> 0..MaxCommits]
    BY DEF IInv, TypeOK
  <2>3. 0 \in 0..MaxCommits
    BY <2>1
  <2> QED BY <2>1, <2>2, <2>3
<1>7. CASE seen[r] = head[t] /\ ok
  <2> DEFINE judged == act[r] = "review"
             result == IF judged THEN [outcome |-> outcome, impl |-> task[t].target.impl,
                                       head |-> task[t].target.head]
                       ELSE runs[r].result
  <2>1. /\ runs' = [runs EXCEPT ![r] = [@ EXCEPT !.status = "SUCCESS", !.head = head[t], !.result = result]]
        /\ task' = [task EXCEPT ![t] = IF runs[r].role = "owner" THEN Implemented(t, r) ELSE @]
        /\ UNCHANGED <<leases, lapsed>>
    BY <1>2, <1>3, <1>7 DEF RunType
  <2>2. result \in [outcome : {"none", "APPROVED", "CHANGES_REQUESTED", "BLOCKED"},
                    impl : Runs \cup {NoRun, Signed}, head : 0..MaxCommits]
    BY <1>3 DEF RunType, TaskType
  <2>3. judged => result.impl = task[t].target.impl /\ result.head = task[t].target.head
    OBVIOUS
  <2>4. ~judged => result = runs[r].result
    OBVIOUS
  <2>5. judged \in BOOLEAN
    OBVIOUS
  <2>6. judged => runs[r].role = "reviewer" /\ task[t].target # NoTarget
    BY <1>5
  <2> HIDE DEF judged, result
  <2>7. /\ runs'[r] \in RunType /\ runs'[r].task = t /\ runs'[r].role = runs[r].role
        /\ runs'[r].wake = runs[r].wake /\ runs'[r].pilot = runs[r].pilot
        /\ runs'[r].status = "SUCCESS" /\ runs'[r].head = head[t] /\ runs'[r].result = result
        /\ \A q \in Runs : q # r => runs'[q] = runs[q]
        /\ runs' \in [Runs -> RunType]
    BY <1>0, <1>3, <2>1, <2>2 DEF RunType, Terminal, TaskOf
  <2>8. RunsGrow
    BY <1>0, <1>4, <2>7, LeaseNumbers DEF RunsGrow, IInv, TaskOf, Unfinished, Terminal
  <2>9. /\ \A u \in Tasks : u # t => task'[u] = task[u]
        /\ task'[t].lease = r /\ task'[t].current = r
        /\ runs[r].role = "owner" => /\ task'[t].target = [impl |-> r, head |-> head[t]]
                                     /\ task'[t].phase = "INDEPENDENT_REVIEW"
        /\ runs[r].role # "owner" => task'[t] = task[t]
        /\ task' \in [Tasks -> TaskType]
    BY <1>3, <2>1 DEF Implemented, TaskType
  <2>10. TypeOK'
    BY <1>4, <1>6, <2>1, <2>7, <2>9 DEF IInv, TypeOK, Used
  <2>11. Holders'
    <3>1. \A q \in leases' : runs'[q].status \in Unfinished \cup {"SUCCESS"}
      BY <2>1, <2>7, LeaseNumbers DEF IInv, Holders, OneHolder
    <3>2. \A u \in Tasks : task[u].lease \in leases' \cup {NoRun}
                           /\ task'[u].lease = task[u].lease /\ task'[u].current = task[u].current
      BY <1>3, <2>1, <2>9 DEF IInv, Holders, OneHolder
    <3> QED BY <1>4, <2>1, <2>8, <3>1, <3>2, HoldersStay
  <2>12. Admissions'
    BY <1>4, <2>8, AdmissionsStay DEF IInv, TypeOK, Admissions, WakesUsed
  <2>13. ASSUME NEW q \in Used PROVE ResultSound(q)'
    <3>1. CASE q # r \/ ~judged
      <4>1. runs'[q].result = runs[q].result
        BY <2>4, <2>7, <3>1, LeaseNumbers DEF IInv
      <4> QED BY <2>8, <4>1, ResultStays DEF IInv, Reviews
    <3>2. CASE q = r /\ judged
      <4>1. Implements(t, task[t].target.impl, task[t].target.head) /\ task[t].target.impl <= r
        BY <1>3, <2>6, <3>2 DEF IInv, Reviews, Reviewed, TargetSound, NoRun
      <4>2. Implements(t, task[t].target.impl, task[t].target.head) /\ task[t].target.impl # r
        BY <2>6, <3>2, <4>1, <1>3 DEF Implements, Signed
      <4>3. PICK i, h : i = task[t].target.impl /\ h = task[t].target.head
        OBVIOUS
      <4>4. Implements(t, i, h)' /\ i < r
        <5>1. Implements(t, i, h)'
          BY <2>8, <4>1, <4>3, ImplementsStays DEF IInv
        <5>2. i \in Int
          BY <1>3, <4>3, ControllerAssumption DEF TaskType, Runs, NoRun, Signed
        <5> QED BY <1>3, <4>1, <4>2, <4>3, <5>1, <5>2
      <4>5. runs'[r].result.impl = i /\ runs'[r].result.head = h
        BY <2>3, <2>7, <3>2, <4>3
      <4> QED BY <2>6, <2>7, <3>2, <4>4, <4>5 DEF ResultSound, TaskOf
    <3> QED BY <2>5, <3>1, <3>2
  <2>14. ASSUME NEW u \in Tasks PROVE Reviewed(u)'
    <3>1. CASE u # t \/ runs[r].role # "owner"
      BY <1>4, <2>8, <2>9, <3>1, ReviewedStays DEF IInv, Reviews
    <3>2. CASE u = t /\ runs[r].role = "owner"
      <4>1. ApprovalEarned(t)'
        BY <1>3, <1>4, <2>8, EarnedStays DEF IInv, Reviews, Reviewed, ApprovalEarned, NoClosing
      <4>2. StandsApproved(t)'
        BY <2>9, <3>2 DEF StandsApproved
      <4>3. TargetSound(t)'
        <5>1. task'[t].target.impl = r /\ task'[t].target.head = head[t]
          BY <2>9, <3>2
        <5>2. (Implements(t, task[t].target.impl, task[t].target.head))'
          BY <1>4, <2>7, <3>2, <5>1 DEF Implements, TaskOf, Used
        <5> QED BY <1>3, <2>9, <5>1, <5>2 DEF TargetSound
      <4> QED BY <3>2, <4>1, <4>2, <4>3 DEF Reviewed
    <3> QED BY <3>1, <3>2
  <2> QED BY <1>4, <2>8, <2>10, <2>11, <2>12, <2>13, <2>14, RunsKnownStay DEF IInv, Reviews, Used
<1>8. CASE ~(seen[r] = head[t] /\ ok)
  <2>1. /\ runs' = [runs EXCEPT ![r].status = "FAILED", ![r].head = @, ![r].result = @]
        /\ RemoveLease(r) /\ task' = [task EXCEPT ![t] = WithoutLease(t)]
    BY <1>2, <1>8
  <2>2. /\ runs' \in [Runs -> RunType]
        /\ \A q \in Runs : q # r => runs'[q] = runs[q]
        /\ \A q \in Runs : runs'[q].result = runs[q].result
        /\ runs'[r].task = runs[r].task /\ runs'[r].role = runs[r].role
        /\ runs'[r].wake = runs[r].wake /\ runs'[r].pilot = runs[r].pilot
    BY <1>3, <2>1 DEF RunType, Terminal
  <2>3. RunsGrow
    BY <1>4, <2>2, LeaseNumbers DEF RunsGrow, IInv, Unfinished, Terminal
  <2>4. TypeOK'
    <3>1. task' \in [Tasks -> TaskType]
      BY <1>3, <2>1 DEF WithoutLease, TaskType
    <3>2. leases' \subseteq Used /\ lapsed' \subseteq leases'
      BY <2>1, LeaseNumbers DEF RemoveLease, IInv
    <3> QED BY <1>4, <1>6, <2>2, <3>1, <3>2 DEF IInv, TypeOK, Used
  <2> QED BY <1>0, <1>3, <1>4, <2>1, <2>2, <2>3, <2>4, LeaseEnds, LeaseNumbers DEF IInv
<1> QED BY <1>7, <1>8

\* A review that validates and approves earns its task the approval.
LEMMA JudgedEarned ==
    ASSUME IInv, NEW r \in Used, NEW t, t = TaskOf(r), ValidReview(t, r),
           runs[r].result.outcome = "APPROVED"
    PROVE  Approves(t, r)
<1>1. /\ r \in Nat \ {0} /\ runs[r].role = "reviewer" /\ runs[r].status = "SUCCESS"
      /\ runs[r].result.impl < r /\ Implements(t, runs[r].result.impl, runs[r].result.head)
  BY UsedTask DEF IInv, Reviews, ResultSound, ValidReview
<1>2. ASSUME runs[r].result.impl # Signed
      PROVE  /\ runs[r].result.impl \in 1..(r - 1) /\ TaskOf(runs[r].result.impl) = t
             /\ runs[runs[r].result.impl].role = "owner"
             /\ runs[runs[r].result.impl].status = "SUCCESS"
             /\ runs[runs[r].result.impl].head = runs[r].result.head
  <2>1. runs[r].result.impl \in Used
    BY <1>1, <1>2 DEF Implements
  <2>2. runs[r].result.impl \in Nat \ {0}
    BY <2>1, LeaseNumbers DEF IInv
  <2> QED BY <1>1, <1>2, <2>2 DEF Implements
<1>3. Earned(t, r)
  BY <1>1, <1>2 DEF Earned
<1> QED BY <1>3 DEF Approves, ValidReview

\* A review result is accepted (recordIndependentReview): the task is in CLOSEOUT
\* only on an APPROVED one, of the implementation it stands at.
LEMMA RecordStep ==
    ASSUME IInv, NEW r \in Used, RecordIndependentReview(r)
    PROVE  IInv'
<1>0. PICK t : t = TaskOf(r)
  OBVIOUS
<1>1. /\ Authorized(r, "review") /\ ValidReview(t, r)
      /\ task' = [task EXCEPT ![t] = Judged(t, r)]
      /\ UNCHANGED <<generation, runs, leases, quota, approval, closeout, plan, activated,
                     pilot, woken, worldVars>>
  BY <1>0, Zenon DEF RecordIndependentReview
<1>2. /\ r \in leases /\ r \in Runs /\ t \in Tasks /\ task[t] \in TaskType
      /\ task \in [Tasks -> TaskType] /\ runs[r].role = "reviewer"
  BY <1>0, <1>1, HoldsFacts DEF Authorized, Actions, RolesOf, IInv, TypeOK
<1>3. /\ task'[t].review = r /\ task'[t].target = task[t].target
      /\ task'[t].lease = task[t].lease /\ task'[t].current = task[t].current
      /\ task'[t].phase = "CLOSEOUT" => runs[r].result.outcome = "APPROVED"
      /\ task' \in [Tasks -> TaskType]
      /\ \A u \in Tasks : u # t => task'[u] = task[u]
  <2> DEFINE new == Judged(t, r)
  <2>1. /\ new.review = r /\ new.target = task[t].target /\ new.lease = task[t].lease
        /\ new.current = task[t].current
        /\ new.phase = "CLOSEOUT" => runs[r].result.outcome = "APPROVED"
    BY <1>2 DEF Judged, TaskType
  <2>2. task[t].reviewers \cup {r} \in SUBSET Runs
    BY <1>2 DEF TaskType
  <2>3. new \in TaskType
    BY <1>2, <2>2 DEF Judged, TaskType
  <2> HIDE DEF new
  <2> QED BY <1>1, <1>2, <2>1, <2>3 DEF new
<1>4. TypeOK'
  BY <1>1, <1>3 DEF IInv, TypeOK, worldVars, Used
<1>5. RunsGrow
  BY <1>1, RunsSame DEF IInv
<1>6. Reviewed(t)'
  <2>1. TargetSound(t)'
    BY <1>1, <1>3, <1>5, <1>2, ImplementsStays DEF IInv, Reviews, Reviewed, TargetSound, NoTarget
  <2>2. ApprovalEarned(t)'
    BY <1>1, <1>2, <1>5, EarnedStays DEF IInv, Reviews, Reviewed, ApprovalEarned, NoClosing
  <2>3. runs[r].result.outcome = "APPROVED" => Approves(t, r)
    BY <1>0, <1>1, <1>2, JudgedEarned DEF IInv
  <2>4. StandsApproved(t)'
    BY <1>3, <1>5, <2>3, EarnedStays DEF IInv, StandsApproved, Approves
  <2> QED BY <2>1, <2>2, <2>4 DEF Reviewed
<1> QED BY <1>1, <1>2, <1>3, <1>4, <1>6, TaskStep

\* An approval is issued on the stored review (issueApprovalRecord).
LEMMA ApprovalStep ==
    ASSUME IInv, NEW r \in Used, IssueApproval(r)
    PROVE  IInv'
<1>0. PICK t : t = TaskOf(r)
  OBVIOUS
<1>1. /\ Authorized(r, "approve") /\ ValidReview(t, r) /\ runs[r].result.outcome = "APPROVED"
      /\ approval' = [approval EXCEPT ![t] = r]
      /\ UNCHANGED <<generation, runs, leases, quota, task, closeout, plan, activated, pilot,
                     woken, worldVars>>
  BY <1>0, Zenon DEF IssueApproval
<1>2. r \in Runs /\ t \in Tasks /\ approval \in [Tasks -> Runs \cup {NoRun}]
  BY <1>0, UsedTask DEF IInv, TypeOK
<1>3. TypeOK'
  BY <1>1, <1>2 DEF IInv, TypeOK, worldVars, Used
<1>4. RunsGrow
  BY <1>1, RunsSame DEF IInv
<1>5. Reviewed(t)'
  <2>1. TargetSound(t)' /\ StandsApproved(t)'
    BY <1>1, <1>2, <1>4, ImplementsStays, EarnedStays
       DEF IInv, Reviews, Reviewed, TargetSound, StandsApproved, Approves, NoTarget
  <2>2. Earned(t, r)
    BY <1>0, <1>1, <1>2, JudgedEarned DEF IInv, Approves
  <2>3. ApprovalEarned(t)'
    BY <1>1, <1>2, <1>4, <2>2, EarnedStays DEF IInv, Reviews, Reviewed, ApprovalEarned, NoClosing
  <2> QED BY <2>1, <2>3 DEF Reviewed
<1> QED BY <1>1, <1>2, <1>3, <1>5, TaskStep

\* A correction is planned: the task stands at no implementation until the next,
\* and is not in CLOSEOUT.
LEMMA CorrectionStep ==
    ASSUME IInv, NEW r \in Used, PlanCorrection(r)
    PROVE  IInv'
<1>0. PICK t : t = TaskOf(r)
  OBVIOUS
<1>1. /\ Authorized(r, "correct") /\ task[t].corrections < MaxCorrections
      /\ task' = [task EXCEPT ![t].corrections = @ + 1, ![t].target = NoTarget]
      /\ UNCHANGED <<generation, runs, leases, quota, approval, closeout, plan, activated,
                     pilot, woken, worldVars>>
  BY <1>0, Zenon DEF PlanCorrection
<1>2. /\ r \in leases /\ r \in Runs /\ r \in Nat /\ t \in Tasks /\ task[t] \in TaskType
      /\ task \in [Tasks -> TaskType] /\ task[t].phase = "CORRECT" /\ task[t].lease = r
  BY <1>0, <1>1, HoldsFacts, UsedTask DEF Authorized, Actions, PhasesOf, IInv, TypeOK
<1>3. /\ task'[t].target = NoTarget /\ task'[t].phase = "CORRECT"
      /\ task'[t].lease = task[t].lease /\ task'[t].current = task[t].current
      /\ task' \in [Tasks -> TaskType]
      /\ \A u \in Tasks : u # t => task'[u] = task[u]
  <2> DEFINE new == [task[t] EXCEPT !.corrections = @ + 1, !.target = NoTarget]
  <2>1. task[t].corrections + 1 \in 0..MaxCorrections
    BY <1>1, <1>2, ControllerAssumption DEF TaskType
  <2>2. NoTarget \in [impl : Runs \cup {NoRun, Signed}, head : 0..MaxCommits]
    BY ControllerAssumption DEF NoTarget
  <2>3. /\ new.target = NoTarget /\ new.lease = task[t].lease /\ new.current = task[t].current
        /\ new.phase = task[t].phase
    BY <1>2 DEF TaskType
  <2>4. new \in TaskType
    BY <1>2, <2>1, <2>2 DEF TaskType
  <2>5. task' = [task EXCEPT ![t] = new]
    BY <1>1, <1>2
  <2> HIDE DEF new
  <2> QED BY <1>2, <2>3, <2>4, <2>5
<1>4. TypeOK'
  BY <1>1, <1>3 DEF IInv, TypeOK, worldVars, Used
<1>5. RunsGrow
  BY <1>1, RunsSame DEF IInv
<1>6. Reviewed(t)'
  <2>1. TargetSound(t)'
    BY <1>2, <1>3 DEF TargetSound, NoTarget, NoRun
  <2>2. StandsApproved(t)'
    BY <1>3 DEF StandsApproved
  <2>3. ApprovalEarned(t)'
    BY <1>1, <1>2, <1>5, EarnedStays DEF IInv, Reviews, Reviewed, ApprovalEarned, NoClosing
  <2> QED BY <2>1, <2>2, <2>3 DEF Reviewed
<1> QED BY <1>1, <1>2, <1>3, <1>4, <1>6, TaskStep

\* A closeout names the stored approval and a head other than the reviewed one.
LEMMA CloseoutStep ==
    ASSUME IInv, NEW r \in Used, FinalizeCloseout(r)
    PROVE  IInv'
<1>0. PICK t : t = TaskOf(r)
  OBVIOUS
<1>1. /\ approval[t] # NoRun /\ head[t] # runs[approval[t]].result.head
      /\ closeout' = [closeout EXCEPT ![t] = [approval |-> approval[t], head |-> head[t]]]
      /\ UNCHANGED <<generation, runs, leases, quota, task, approval, plan, activated, pilot,
                     woken, worldVars>>
  BY <1>0, Zenon DEF FinalizeCloseout, ReviewedHead
<1>2. t \in Tasks
  BY <1>0, UsedTask
<1>3. TypeOK'
  BY <1>1, <1>2 DEF IInv, TypeOK, worldVars, Used
<1>4. RunsGrow
  BY <1>1, RunsSame DEF IInv
<1>5. Reviewed(t)'
  <2>1. TargetSound(t)' /\ StandsApproved(t)'
    BY <1>1, <1>2, <1>4, ImplementsStays, EarnedStays
       DEF IInv, Reviews, Reviewed, TargetSound, StandsApproved, Approves, NoTarget
  <2>2. closeout'[t].approval = approval[t] /\ closeout'[t].head = head[t]
    BY <1>1, <1>2 DEF IInv, TypeOK
  <2>3. ApprovalEarned(t)'
    BY <1>1, <1>2, <1>4, <2>2, EarnedStays DEF IInv, Reviews, Reviewed, ApprovalEarned, NoClosing
  <2> QED BY <2>1, <2>3 DEF Reviewed
<1> QED BY <1>1, <1>2, <1>3, <1>5, TaskStep

\* Publishing writes its plan only.
LEMMA PublishingStep ==
    ASSUME IInv, NEW r \in Used, PlanPublishing(r) \/ CompletePublishing(r)
    PROVE  IInv'
<1>1. PICK t : t = TaskOf(r)
  OBVIOUS
<1>2. t \in Tasks /\ r \in Runs
  BY <1>1, UsedTask
<1>3. /\ UNCHANGED <<generation, runs, leases, quota, task, approval, closeout, activated,
                     pilot, woken, worldVars>>
      /\ \/ plan' = [plan EXCEPT ![t] = [run |-> r, head |-> head[t], status |-> "PLANNED"]]
         \/ plan' = [plan EXCEPT ![t].status = "COMPLETED"]
  BY <1>1, Zenon DEF PlanPublishing, CompletePublishing
<1>4. TypeOK'
  <2> DEFINE PlanType == [run : Runs \cup {NoRun}, head : 0..MaxCommits,
                          status : {"none", "PLANNED", "COMPLETED"}]
  <2>1. plan \in [Tasks -> PlanType] /\ head[t] \in 0..MaxCommits
    BY <1>2 DEF IInv, TypeOK
  <2>2. [run |-> r, head |-> head[t], status |-> "PLANNED"] \in PlanType
        /\ [plan[t] EXCEPT !.status = "COMPLETED"] \in PlanType
    BY <1>2, <2>1
  <2>3. plan' \in [Tasks -> PlanType]
    BY <1>2, <1>3, <2>1, <2>2
  <2> QED BY <1>3, <2>3 DEF IInv, TypeOK, worldVars, Used
<1> QED BY <1>3, <1>4, OtherStep DEF IInv, TypeOK, Admissions, WakesUsed

\* A lease is released, or recovered once it expired under a run that succeeded.
LEMMA ReleaseStep ==
    ASSUME IInv, NEW r \in Used, ReleaseTaskLease(r) \/ RecoverExpired(r)
    PROVE  IInv'
<1>1. r \in leases /\ TaskOf(r) \in Tasks /\ task \in [Tasks -> TaskType]
  BY UsedTask DEF ReleaseTaskLease, RecoverExpired, Authorized, Holds, IInv, TypeOK
<1>2. /\ RemoveLease(r) /\ task' = [task EXCEPT ![TaskOf(r)] = WithoutLease(TaskOf(r))]
      /\ UNCHANGED <<generation, runs, quota, approval, closeout, plan, activated, pilot,
                     woken, worker, act, seen, head>>
  BY Zenon DEF ReleaseTaskLease, RecoverExpired
<1>3. TypeOK'
  <2>1. task' \in [Tasks -> TaskType]
    BY <1>1, <1>2 DEF WithoutLease, TaskType
  <2>2. leases' \subseteq Used /\ lapsed' \subseteq leases'
    BY <1>2, LeaseNumbers DEF RemoveLease, IInv
  <2> QED BY <1>2, <2>1, <2>2 DEF IInv, TypeOK, Used
<1>4. RunsGrow
  BY <1>2, RunsSame DEF IInv
<1> QED BY <1>1, <1>2, <1>3, <1>4, LeaseEnds

\* The administration, the clock and the worktree.
LEMMA ActivationStep ==
    ASSUME IInv, NEW authorized \in BOOLEAN, SetActivation(authorized)
    PROVE  IInv'
<1>1. TypeOK'
  BY DEF SetActivation, IInv, TypeOK, worldVars, Used
<1> QED BY <1>1, OtherStep DEF SetActivation, worldVars, IInv, TypeOK, Admissions, WakesUsed

LEMMA EnablePilotStep ==
    ASSUME IInv, EnableSyntheticPilotOnce
    PROVE  IInv'
<1>1. pilot.id \in Nat /\ pilot'.id = pilot.id + 1 /\ pilot.id < MaxPilots
  BY DEF EnableSyntheticPilotOnce, IInv, TypeOK
<1>2. TypeOK'
  BY <1>1, ControllerAssumption DEF EnableSyntheticPilotOnce, IInv, TypeOK, worldVars, Used
<1> QED BY <1>1, <1>2, OtherStep DEF EnableSyntheticPilotOnce

LEMMA LapseStep ==
    ASSUME IInv, NEW r \in Used, Lapse(r)
    PROVE  IInv'
<1>1. TypeOK'
  BY DEF Lapse, IInv, TypeOK, stateVars, Used
<1> QED BY <1>1, OtherStep DEF Lapse, stateVars, IInv, TypeOK, Admissions, WakesUsed

LEMMA CommitStep ==
    ASSUME IInv, NEW t \in Tasks, Commit(t)
    PROVE  IInv'
<1>1. head' \in [Tasks -> 0..MaxCommits]
  BY ControllerAssumption DEF Commit, IInv, TypeOK
<1>2. TypeOK'
  BY <1>1 DEF Commit, IInv, TypeOK, stateVars, Used
<1> QED BY <1>2, OtherStep DEF Commit, stateVars, IInv, TypeOK, Admissions, WakesUsed

-----------------------------------------------------------------------------
(* The invariant, and what it gives. *)

\* The controller starts in it: nothing was admitted.
LEMMA InitIInv == Init => IInv
<1> SUFFICES ASSUME Init PROVE IInv
  OBVIOUS
<1>1. Used = {}
  BY DEF Init, Used
<1>2. TypeOK
  <2>1. NoResult = [outcome |-> "none", impl |-> NoRun, head |-> 0] /\ Absent \in RunType
    BY ControllerAssumption DEF Absent, NoResult, RunType, NoRun
  <2>2. \A t \in Tasks : ContractPhase(t) \in {"QUEUED", "INDEPENDENT_REVIEW"}
    BY DEF ContractPhase
  <2>3. task \in [Tasks -> TaskType]
    BY <2>2, ControllerAssumption DEF Init, TaskType, NoTarget, NoRun
  <2>4. /\ runs \in [Runs -> RunType] /\ quota \in [Runs -> Nat]
        /\ worker \in [Runs -> {"none", "working", "observed"}]
        /\ act \in [Runs -> {"none", "review", "work"}] /\ seen \in [Runs -> 0..MaxCommits]
    BY <2>1, ControllerAssumption DEF Init
  <2>5. /\ approval \in [Tasks -> Runs \cup {NoRun}]
        /\ closeout \in [Tasks -> [approval : Runs \cup {NoRun}, head : 0..MaxCommits]]
        /\ plan \in [Tasks -> [run : Runs \cup {NoRun}, head : 0..MaxCommits,
                               status : {"none", "PLANNED", "COMPLETED"}]]
        /\ head \in [Tasks -> 0..MaxCommits]
    BY ControllerAssumption DEF Init, NoClosing, NoPlan
  <2>6. /\ generation \in 0..MaxRuns /\ leases \subseteq Used /\ lapsed \subseteq leases
        /\ activated \in BOOLEAN
    <3>1. 0 \in 0..MaxRuns
      BY ControllerAssumption
    <3>2. generation = 0 /\ leases = {} /\ lapsed = {} /\ activated = FALSE
      BY DEF Init
    <3>3. generation \in 0..MaxRuns
      BY <3>1, <3>2
    <3>4. activated \in BOOLEAN
      BY <3>2
    <3> QED BY <3>2, <3>3, <3>4
  <2>7. woken \subseteq (-MaxPilots)..MaxWakeups
    BY DEF Init
  <2>8. pilot \in [status : {"DISABLED", "READY", "CONSUMED"}, id : 0..MaxPilots,
                   run : Runs \cup {NoRun}]
    <3>1. 0 \in 0..MaxPilots
      BY ControllerAssumption
    <3> QED BY <3>1 DEF Init
  <2> QED BY <2>3, <2>4, <2>5, <2>6, <2>7, <2>8 DEF TypeOK
<1>3. RunsKnown /\ Admissions
  BY <1>1 DEF RunsKnown, Admissions, WakesUsed, AdmittedOnce, Init
<1>4. \A t \in Tasks : /\ task[t].lease = NoRun /\ task[t].target = NoTarget
                       /\ task[t].phase # "CLOSEOUT"
                       /\ approval[t] = NoRun /\ closeout[t] = NoClosing
  BY DEF Init, ContractPhase
<1>5. Holders
  BY <1>4 DEF Holders, OneHolder, LeaseNamesTask, Exclusive, Init
<1>6. Reviews
  BY <1>1, <1>4 DEF Reviews, Reviewed, TargetSound, StandsApproved, ApprovalEarned
<1> QED BY <1>2, <1>3, <1>5, <1>6 DEF IInv

\* Stuttering keeps it.
LEMMA StutterStep == IInv /\ UNCHANGED vars => IInv'
<1> SUFFICES ASSUME IInv, UNCHANGED vars PROVE IInv'
  OBVIOUS
<1>1. TypeOK'
  BY DEF IInv, TypeOK, vars, stateVars, worldVars, Used
<1> QED BY <1>1, OtherStep DEF vars, stateVars, IInv, TypeOK, Admissions, WakesUsed

\* Every step keeps it.
LEMMA NextIInv == IInv /\ [Next]_vars => IInv'
<1> SUFFICES ASSUME IInv, [Next]_vars PROVE IInv'
  OBVIOUS
<1>1. CASE \E t \in Tasks, wake \in UNION {WakeIds(u) : u \in Tasks}, byPilot \in BOOLEAN,
              role \in {"owner", "reviewer"} :
              wake \in WakeIds(t) /\ byPilot \in ByPilot(t) /\ Admit(t, role, wake, byPilot)
  BY <1>1, AdmitStep
<1>2. CASE \E t \in Tasks : Commit(t)
  BY <1>2, CommitStep
<1>3. CASE \E wake \in UNION {WakeIds(t) : t \in Tasks} : Refuse(wake)
  BY <1>3, RefuseStep
<1>4. CASE \E r \in Used, action \in Actions : Begin(r, action)
  BY <1>4, BeginStep
<1>5. CASE \E r \in Used : \/ Observe(r) \/ Complete(r) \/ Abort(r)
                           \/ RecordIndependentReview(r) \/ IssueApproval(r) \/ PlanCorrection(r)
                           \/ FinalizeCloseout(r) \/ PlanPublishing(r) \/ CompletePublishing(r)
                           \/ ReleaseTaskLease(r) \/ RecoverExpired(r) \/ Lapse(r)
  BY <1>5, ObserveStep, CompleteStep, AbortStep, RecordStep, ApprovalStep, CorrectionStep,
     CloseoutStep, PublishingStep, ReleaseStep, LapseStep
<1>6. CASE \E authorized \in BOOLEAN : SetActivation(authorized)
  BY <1>6, ActivationStep
<1>7. CASE EnableSyntheticPilotOnce
  BY <1>7, EnablePilotStep
<1>8. CASE UNCHANGED vars
  BY <1>8, StutterStep
<1>9. \A t \in Tasks : ByPilot(t) \subseteq BOOLEAN
  BY PilotCall
<1> QED BY <1>1, <1>2, <1>3, <1>4, <1>5, <1>6, <1>7, <1>8, <1>9, Zenon DEF Next

\* The inductive invariant, of every reachable state.
THEOREM Invariance == Spec => []IInv
  BY InitIInv, NextIInv, PTL DEF Spec

\* Every variable keeps its type, and a correction count its limit
\* (correction-engine.mjs, controller-state-engine.mjs).
THEOREM TypeCorrect == Spec => []TypeOK
<1>1. IInv => TypeOK
  BY DEF IInv
<1> QED BY <1>1, Invariance, PTL

\* Whatever is swept, released or recovered in between, the lease table and the
\* tasks agree on who may act for a task (lease-engine.mjs:31-55, 472-517).
THEOREM OneHolderAlways == Spec => []OneHolder
<1>1. IInv => OneHolder
  BY DEF IInv, Holders
<1> QED BY <1>1, Invariance, PTL

\* Leases held together never conflict, and never exceed the strictest quota
\* among them, for any conflicts and any grants (lease-engine.mjs:215-232).
THEOREM ExclusiveAlways == Spec => []Exclusive
<1>1. IInv => Exclusive
  BY DEF IInv, Holders
<1> QED BY <1>1, Invariance, PTL

\* No wakeup and no activation of the pilot makes a second run, although a tick
\* may come back (lease-engine.mjs:140-213, scheduler-engine.mjs).
THEOREM AdmittedOnceAlways == Spec => []AdmittedOnce
<1>1. IInv => AdmittedOnce
  BY DEF IInv, Admissions
<1> QED BY <1>1, Invariance, PTL

\* No order of runs, corrections, crashes and late calls yields an approval or a
\* closeout that no independent review earned (review-engine.mjs:12-135,
\* closeout-engine.mjs:20-56).
THEOREM ApprovalsEarnedAlways == Spec => []ApprovalsEarned
<1>1. IInv => ApprovalsEarned
  BY DEF IInv, Reviews, Reviewed, ApprovalEarned, ApprovalsEarned
<1> QED BY <1>1, Invariance, PTL

\* What one step may not do to a run whose lease is gone or that ended, and by
\* whom the records of a task are written.
LEMMA FencedStep ==
    ASSUME IInv, Next
    PROVE  /\ \A r \in Used : /\ r \notin leases => r \notin leases' /\ runs'[r] = runs[r]
                              /\ runs[r].status \in Terminal => runs'[r] = runs[r]
           /\ \A t \in Tasks :
                 /\ approval'[t] # approval[t] => approval'[t] \in leases
                 /\ closeout'[t] # closeout[t] => task[t].lease \in leases
                 /\ plan'[t] # plan[t] => plan'[t].run \in leases
<1> DEFINE RunsFenced ==
              \A r \in Used : /\ r \notin leases => r \notin leases' /\ runs'[r] = runs[r]
                              /\ runs[r].status \in Terminal => runs'[r] = runs[r]
           RecordsFenced ==
              \A t \in Tasks : /\ approval'[t] # approval[t] => approval'[t] \in leases
                               /\ closeout'[t] # closeout[t] => task[t].lease \in leases
                               /\ plan'[t] # plan[t] => plan'[t].run \in leases
<1>1. ASSUME NEW t \in Tasks, NEW wake \in WakeIds(t), NEW byPilot \in ByPilot(t),
             NEW role \in {"owner", "reviewer"}, Admit(t, role, wake, byPilot)
      PROVE  RunsFenced /\ RecordsFenced
  <2>1. leases' = Live \cup {generation + 1} /\ UNCHANGED <<approval, closeout, plan>>
    BY <1>1, Zenon DEF Admit
  <2>2. \A r \in Used : r # generation + 1 /\ r \in Runs
    BY LeaseNumbers DEF IInv, Used
  <2>3. \A r \in Used : runs'[r] = SweptRuns[r]
    BY <1>1, <2>2, AdmitRecords
  <2>4. RunsFenced
    BY <2>1, <2>2, <2>3, SweepRuns, LeaseNumbers DEF IInv, Live
  <2> QED BY <2>1, <2>4
<1>2. ASSUME NEW wake, Refuse(wake) PROVE RunsFenced /\ RecordsFenced
  BY <1>2, SweepRuns, LeaseNumbers DEF Refuse, IInv, Live
<1>3. ASSUME NEW r \in Used, Complete(r) PROVE RunsFenced /\ RecordsFenced
  <2>1. r \in leases /\ runs[r].status \in Unfinished /\ UNCHANGED <<approval, closeout, plan>>
    BY <1>3 DEF Complete, Holds
  <2>2. \A q \in Used : q # r => runs'[q] = runs[q]
    <3>1. runs \in [Runs -> RunType] /\ Used \subseteq Runs
      BY LeaseNumbers DEF IInv, TypeOK
    <3>2. PICK ok \in BOOLEAN, outcome \in {"APPROVED", "CHANGES_REQUESTED", "BLOCKED"} :
            LET status == IF seen[r] = head[TaskOf(r)] /\ ok THEN "SUCCESS" ELSE "FAILED"
                judged == status = "SUCCESS" /\ act[r] = "review"
            IN runs' = [runs EXCEPT
                   ![r].status = status,
                   ![r].head = IF status = "SUCCESS" THEN head[TaskOf(r)] ELSE @,
                   ![r].result = IF judged THEN [outcome |-> outcome,
                                                 impl |-> task[TaskOf(r)].target.impl,
                                                 head |-> task[TaskOf(r)].target.head]
                                 ELSE @]
      BY <1>3, Zenon DEF Complete
    <3> QED BY <3>1, <3>2
  <2>3. leases' \subseteq leases
    BY <1>3 DEF Complete, RemoveLease
  <2> QED BY <2>1, <2>2, <2>3 DEF Unfinished, Terminal
<1>4. ASSUME NEW r \in Used, NEW action \in Actions, Begin(r, action) PROVE RunsFenced /\ RecordsFenced
  BY <1>4, UsedTask DEF Begin, Authorized, Holds, Terminal, IInv, TypeOK
<1>5. ASSUME NEW r \in Used, IssueApproval(r) PROVE RunsFenced /\ RecordsFenced
  BY <1>5, UsedTask DEF IssueApproval, Authorized, Holds, worldVars, IInv, TypeOK
<1>6. ASSUME NEW r \in Used, FinalizeCloseout(r) PROVE RunsFenced /\ RecordsFenced
  BY <1>6, UsedTask DEF FinalizeCloseout, Authorized, Holds, worldVars, IInv, TypeOK
<1>7. ASSUME NEW r \in Used, PlanPublishing(r) PROVE RunsFenced /\ RecordsFenced
  BY <1>7, UsedTask DEF PlanPublishing, Authorized, Holds, worldVars, IInv, TypeOK
<1>8. ASSUME NEW r \in Used, CompletePublishing(r) PROVE RunsFenced /\ RecordsFenced
  BY <1>8, UsedTask DEF CompletePublishing, Authorized, Holds, worldVars, IInv, TypeOK
<1>9. ASSUME NEW r \in Used, \/ Observe(r) \/ Abort(r) \/ RecordIndependentReview(r) \/ PlanCorrection(r)
                             \/ ReleaseTaskLease(r) \/ RecoverExpired(r) \/ Lapse(r)
      PROVE  RunsFenced /\ RecordsFenced
  <2>1. runs' = runs /\ leases' \subseteq leases /\ UNCHANGED <<approval, closeout, plan>>
    BY <1>9 DEF Observe, Abort, RecordIndependentReview, PlanCorrection, ReleaseTaskLease,
                RecoverExpired, Lapse, RemoveLease, stateVars
  <2> QED BY <2>1
<1>10. ASSUME \/ \E t \in Tasks : Commit(t)
              \/ \E authorized \in BOOLEAN : SetActivation(authorized)
              \/ EnableSyntheticPilotOnce
       PROVE  RunsFenced /\ RecordsFenced
  BY <1>10 DEF Commit, SetActivation, EnableSyntheticPilotOnce, stateVars
<1> HIDE DEF RunsFenced, RecordsFenced
<1>11. RunsFenced /\ RecordsFenced
  BY <1>1, <1>2, <1>3, <1>4, <1>5, <1>6, <1>7, <1>8, <1>9, <1>10 DEF Next
<1> QED BY <1>11 DEF RunsFenced, RecordsFenced

\* A run whose lease is gone never gets it back and records nothing any more,
\* and how a run ended never changes (capability-engine.mjs:67-120,
\* lease-engine.mjs:472-517).
THEOREM FencedOutAlways == Spec => FencedOut
<1>1. IInv /\ [Next]_vars =>
      [/\ \A r \in Used : /\ r \notin leases => r \notin leases' /\ runs'[r] = runs[r]
                          /\ runs[r].status \in Terminal => runs'[r] = runs[r]
       /\ \A t \in Tasks :
             /\ approval'[t] # approval[t] => approval'[t] \in leases
             /\ closeout'[t] # closeout[t] => task[t].lease \in leases
             /\ plan'[t] # plan[t] => plan'[t].run \in leases]_vars
  BY FencedStep, Zenon
<1> QED BY <1>1, Invariance, PTL DEF Spec, FencedOut

\* A plan names a reviewed or a closed out head, and the implementation the task
\* stands at was approved by an independent review.
LEMMA PlanStep ==
    ASSUME IInv, NEW r \in Used, PlanPublishing(r), NEW t \in Tasks, plan'[t] # plan[t]
    PROVE  /\ \E q \in Used :
                 /\ Earned(t, q)
                 /\ \/ plan'[t].head = runs[q].result.head
                    \/ closeout[t] = [approval |-> q, head |-> plan'[t].head]
           /\ \E q \in Used : Approves(t, q)
<1>1. /\ Authorized(r, "publish") /\ approval[TaskOf(r)] # NoRun
      /\ head[TaskOf(r)] = ApprovedHead(TaskOf(r))
      /\ plan' = [plan EXCEPT ![TaskOf(r)] = [run |-> r, head |-> head[TaskOf(r)], status |-> "PLANNED"]]
  BY Zenon DEF PlanPublishing
<1>2. t = TaskOf(r) /\ plan'[t].head = head[t]
  BY <1>1, UsedTask DEF IInv, TypeOK
<1>3. task[t].phase = "CLOSEOUT"
  BY <1>1, <1>2 DEF Authorized, Holds, PhasesOf
<1>4. Approves(t, task[t].review) /\ task[t].review \in Used
  BY <1>3 DEF IInv, Reviews, Reviewed, StandsApproved, Approves, Earned
<1>5. CASE closeout[t] # NoClosing
  <2>1. Earned(t, closeout[t].approval) /\ closeout[t].approval \in Used
    BY <1>5 DEF IInv, Reviews, Reviewed, ApprovalEarned, Earned
  <2>2. closeout[t] = [approval |-> closeout[t].approval, head |-> closeout[t].head]
    BY DEF IInv, TypeOK
  <2>3. closeout[t].head = head[t]
    BY <1>1, <1>2, <1>5 DEF ApprovedHead
  <2> QED BY <1>2, <1>4, <2>1, <2>2, <2>3
<1>6. CASE closeout[t] = NoClosing
  <2>1. Earned(t, approval[t]) /\ approval[t] \in Used
    BY <1>1, <1>2 DEF IInv, Reviews, Reviewed, ApprovalEarned, Earned
  <2>2. head[t] = runs[approval[t]].result.head
    BY <1>1, <1>2, <1>6 DEF ApprovedHead, ReviewedHead
  <2> QED BY <1>2, <1>4, <2>1, <2>2
<1> QED BY <1>5, <1>6

\* Nothing else plans.
LEMMA OnlyPlansPlan ==
    ASSUME IInv, Next, NEW t \in Tasks, plan'[t] # plan[t], plan'[t].status = "PLANNED"
    PROVE  \E r \in Used : PlanPublishing(r)
<1>1. ASSUME NEW r \in Used, CompletePublishing(r) PROVE FALSE
  BY <1>1, UsedTask DEF CompletePublishing, IInv, TypeOK
<1>2. \/ \E r \in Used : PlanPublishing(r) \/ CompletePublishing(r)
      \/ plan' = plan
  BY Zenon DEF Next, Admit, Refuse, Begin, Observe, Complete, Abort, RecordIndependentReview, IssueApproval,
         PlanCorrection, FinalizeCloseout, ReleaseTaskLease, RecoverExpired, Lapse, Commit,
         SetActivation, EnableSyntheticPilotOnce, stateVars
<1> QED BY <1>1, <1>2

\* What is planned for publishing was reviewed, or closed out on a review, and
\* the implementation the task stands at was approved (publishing-engine.mjs:53-63).
THEOREM PublishesReviewedAlways == Spec => PublishesReviewed
<1>1. IInv /\ [Next]_vars =>
      [\A t \in Tasks :
          plan'[t] # plan[t] /\ plan'[t].status = "PLANNED" =>
             /\ \E q \in Used :
                   /\ Earned(t, q)
                   /\ \/ plan'[t].head = runs[q].result.head
                      \/ closeout[t] = [approval |-> q, head |-> plan'[t].head]
             /\ \E q \in Used :
                   /\ Earned(t, q)
                   /\ runs[q].result.impl = task[t].target.impl
                   /\ runs[q].result.head = task[t].target.head]_vars
  BY PlanStep, OnlyPlansPlan, Zenon DEF Approves
<1> QED BY <1>1, Invariance, PTL DEF Spec, PublishesReviewed
=============================================================================
