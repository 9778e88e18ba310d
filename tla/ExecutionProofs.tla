-------------------------- MODULE ExecutionProofs ---------------------------
(***************************************************************************)
(* Proofs about Execution, for any tasks, bundles, processes and limits.   *)
(*                                                                         *)
(* IInv ties what each execution believes to what is recorded: an execution*)
(* takes a plan for completed only when its mapping is, a completed mapping*)
(* has a turn that succeeded, and no mapping is made before those of the   *)
(* plan's dependencies under the one binding have completed.               *)
(***************************************************************************)
EXTENDS Execution, TLAPS

\* What each execution knows: it works with the accepted bundle, keeps the
\* order of its dependencies, and takes for completed only what is recorded so.
Knows(p) ==
    /\ pc[p] = "persisting" => plans[p] \in Bundles
    /\ pc[p] \in {"preparing", "running", "returned"} =>
          binding # NoBundle /\ plans[p] = binding
    /\ \A t \in Tasks :
          /\ at[p][t] \in {"dispatch", "await"} => pc[p] = "running"
          /\ at[p][t] \in {"dispatch", "await"} =>
                \A d \in binding.deps[t] : at[p][d] = "COMPLETED"
          /\ at[p][t] = "COMPLETED" => mapping[t] = "COMPLETED"
    /\ verdict[p] = "PUBLISHABLE" => \A t \in Tasks : mapping[t] = "COMPLETED"

\* What is recorded of each task: a turn has a mapping, a completed mapping has
\* a turn that succeeded, and a mapping was made under a binding, after those of
\* the tasks it depends on had completed.
Recorded(t) ==
    /\ turn[t] # "none" => mapping[t] # "none"
    /\ mapping[t] = "COMPLETED" => turn[t] = "succeeded"
    /\ mapping[t] # "none" =>
          /\ binding # NoBundle
          /\ \A d \in binding.deps[t] : mapping[d] = "COMPLETED"

\* The inductive invariant.
IInv ==
    /\ TypeOK
    /\ \A p \in Procs : Knows(p)
    /\ \A t \in Tasks : Recorded(t)

\* The dependencies in a bundle are tasks.
LEMMA DepsAreTasks ==
    ASSUME NEW b \in Bundles, NEW t \in Tasks
    PROVE  b.deps[t] \subseteq Tasks
BY ExecutionAssumption

\* Nothing is bound, mapped or under way at the start.
LEMMA InitIInv == Init => IInv
<1> SUFFICES ASSUME Init PROVE IInv
  OBVIOUS
<1>1. MaxClaims \in Nat
  BY ExecutionAssumption
<1>2. TypeOK
  <2>1. at \in [Procs -> [Tasks -> {"pending", "dispatch", "await"} \cup Over]]
    BY DEF Init, Pending
  <2>2. claims \in 0..MaxClaims
    BY <1>1 DEF Init
  <2>3. /\ plans \in [Procs -> Bundles \cup {NoBundle}]
        /\ verdict \in [Procs -> {"none", "PUBLISHABLE", "FAILED"}]
        /\ mapping \in [Tasks -> {"none", "AMBIGUOUS", "TURN_STARTED"} \cup Over]
        /\ turn \in [Tasks -> {"none", "running", "succeeded", "failed"}]
        /\ pc \in [Procs -> {"idle", "planning", "persisting", "preparing", "running",
                             "returned", "thrown"}]
    BY DEF Init
  <2> QED BY <2>1, <2>2, <2>3 DEF Init, TypeOK, Open
<1>3. ASSUME NEW p \in Procs PROVE Knows(p)
  BY DEF Init, Knows, Pending
<1>4. ASSUME NEW t \in Tasks PROVE Recorded(t)
  BY DEF Init, Recorded
<1> QED BY <1>2, <1>3, <1>4 DEF IInv

\* Steps that change nothing durable but the batch and its claim, and take no
\* local step forward.
LEMMA ServiceSteps ==
    ASSUME IInv, NEW p \in Procs,
           Claim(p) \/ Record(p) \/ Throw(p) \/ Crash(p)
    PROVE  IInv'
<1> USE ExecutionAssumption DEF IInv, TypeOK, Open, Over, durable, local, vars, Goto, Leave, Pending
<1>1. CASE Claim(p)
  BY <1>1 DEF Claim, Knows, Recorded
<1>2. CASE Record(p)
  BY <1>2 DEF Record, Knows, Recorded
<1>3. CASE Throw(p)
  BY <1>3 DEF Throw, Knows, Recorded
<1>4. CASE Crash(p)
  BY <1>4 DEF Crash, Knows, Recorded
<1> QED BY <1>1, <1>2, <1>3, <1>4

\* The lapse of a claim disturbs nothing an execution relies on.
LEMMA LapseStep == IInv /\ Lapse => IInv'
  BY DEF IInv, TypeOK, Open, local, Lapse, Knows, Recorded

\* Planning: the only steps that write the binding or choose a bundle.
LEMMA PlanningSteps ==
    ASSUME IInv, NEW p \in Procs,
           \/ UseBinding(p) \/ Persist(p) \/ Prepare(p)
           \/ \E b \in Bundles : AskPlanner(p, b)
    PROVE  IInv'
<1> USE ExecutionAssumption DEF IInv, TypeOK, Open, Over, durable, Goto
<1>1. CASE UseBinding(p)
  BY <1>1 DEF UseBinding, Knows, Recorded
<1>2. CASE Prepare(p)
  BY <1>2 DEF Prepare, Knows, Recorded
<1>3. CASE \E b \in Bundles : AskPlanner(p, b)
  BY <1>3 DEF AskPlanner, Knows, Recorded
<1>4. CASE Persist(p)
  BY <1>4 DEF Persist, Knows, Recorded
<1> QED BY <1>1, <1>2, <1>3, <1>4

\* Scheduling: nothing durable changes.
LEMMA SchedulingSteps ==
    ASSUME IInv, NEW p \in Procs, NEW t \in Tasks,
           FailDependent(p, t) \/ StartNext(p, t) \/ Refused(p, t) \/ GiveUp(p, t)
              \/ AlreadyOver(p, t)
    PROVE  IInv'
<1> USE ExecutionAssumption, DepsAreTasks DEF IInv, TypeOK, Open, Over, durable, Goto, Settle
<1>1. CASE FailDependent(p, t)
  BY <1>1 DEF FailDependent, Knows, Recorded
<1>2. CASE StartNext(p, t)
  BY <1>2 DEF StartNext, Ready, Knows, Recorded
<1>3. CASE Refused(p, t)
  BY <1>3 DEF Refused, Knows, Recorded
<1>4. CASE GiveUp(p, t)
  BY <1>4 DEF GiveUp, Knows, Recorded
<1>5. CASE AlreadyOver(p, t)
  BY <1>5 DEF AlreadyOver, Knows, Recorded
<1> QED BY <1>1, <1>2, <1>3, <1>4, <1>5

\* A verdict is about what is recorded.
LEMMA ValidateStep ==
    ASSUME IInv, NEW p \in Procs, Validate(p)
    PROVE  IInv'
  BY DEF IInv, TypeOK, Over, durable, Goto, Validate, Verdict, Validated, Knows, Recorded

\* Workers: the steps that write mappings and turns.
LEMMA WorkerSteps ==
    ASSUME IInv, NEW t \in Tasks,
           \/ \E p \in Procs : StartTurn(p, t) \/ StartAmbiguous(p, t) \/ Join(p, t) \/ Await(p, t)
           \/ StartLate(t) \/ TurnEnds(t)
    PROVE  IInv'
<1> USE ExecutionAssumption, DepsAreTasks DEF IInv, TypeOK, Open, Over, local, Settle
<1>1. CASE \E p \in Procs : StartTurn(p, t)
  BY <1>1 DEF StartTurn, Knows, Recorded
<1>2. CASE \E p \in Procs : StartAmbiguous(p, t)
  BY <1>2 DEF StartAmbiguous, Knows, Recorded
<1>3. CASE \E p \in Procs : Join(p, t)
  BY <1>3 DEF Join, Knows, Recorded
<1>4. CASE \E p \in Procs : Await(p, t)
  BY <1>4 DEF Await, Knows, Recorded
<1>5. CASE StartLate(t)
  BY <1>5 DEF StartLate, Knows, Recorded
<1>6. CASE TurnEnds(t)
  BY <1>6 DEF TurnEnds, Knows, Recorded
<1> QED BY <1>1, <1>2, <1>3, <1>4, <1>5, <1>6

\* The invariant is inductive.
LEMMA NextIInv == IInv /\ [Next]_vars => IInv'
<1> SUFFICES ASSUME IInv, [Next]_vars PROVE IInv'
  OBVIOUS
<1>1. CASE \E p \in Procs : Claim(p) \/ Crash(p)
  BY <1>1, ServiceSteps
<1>2. CASE \E p \in Procs : Step(p)
  <2> PICK p \in Procs : Step(p)
    BY <1>2
  <2>1. CASE Record(p) \/ Throw(p)
    BY <2>1, ServiceSteps
  <2>2. CASE UseBinding(p) \/ (\E b \in Bundles : AskPlanner(p, b)) \/ Persist(p) \/ Prepare(p)
    BY <2>2, PlanningSteps
  <2>3. CASE Validate(p)
    BY <2>3, ValidateStep
  <2>4. ASSUME NEW t \in Tasks,
               FailDependent(p, t) \/ StartNext(p, t) \/ Refused(p, t) \/ GiveUp(p, t)
                  \/ AlreadyOver(p, t)
        PROVE  IInv'
    BY <2>4, SchedulingSteps
  <2>5. ASSUME NEW t \in Tasks,
               StartTurn(p, t) \/ StartAmbiguous(p, t) \/ Join(p, t) \/ Await(p, t)
        PROVE  IInv'
    BY <2>5, WorkerSteps
  <2> QED BY <2>1, <2>2, <2>3, <2>4, <2>5 DEF Step
<1>3. CASE \E t \in Tasks : StartLate(t) \/ TurnEnds(t)
  BY <1>3, WorkerSteps
<1>4. CASE Lapse
  BY <1>4, LapseStep
<1>5. CASE UNCHANGED vars
  BY <1>5 DEF vars, durable, local, IInv, TypeOK, Knows, Recorded
<1> QED BY <1>1, <1>2, <1>3, <1>4, <1>5 DEF Next

\* IInv holds of every behaviour: what the theorems below rest on.
THEOREM Invariance == Spec => []IInv
BY InitIInv, NextIInv, PTL DEF Spec

-----------------------------------------------------------------------------
\* Every variable keeps its type, for any tasks, bundles, processes and limits.
THEOREM TypeCorrect == Spec => []TypeOK
<1>1. IInv => TypeOK
  BY DEF IInv
<1> QED BY <1>1, Invariance, PTL

\* A task is worked on only after those it depends on in the one accepted
\* bundle succeeded, whatever executions, planner answers, crashes and late
\* starts there were (runReadyPlans, persistPlanBinding).
THEOREM DependenciesAlwaysFirst == Spec => []DependenciesFirst
<1>1. IInv => DependenciesFirst
  BY DepsAreTasks DEF IInv, TypeOK, Recorded, DependenciesFirst
<1> QED BY <1>1, Invariance, PTL

\* PUBLISHABLE is said only of a batch whose tasks all succeeded and are
\* recorded so (executeBatch).
THEOREM PublishableMeansDone == Spec => []PublishableIsDone
<1>1. IInv => PublishableIsDone
  BY DEF IInv, Knows, Recorded, PublishableIsDone
<1> QED BY <1>1, Invariance, PTL

-----------------------------------------------------------------------------
(* Overlapping scopes. *)

\* The plans an execution has under way share no scope.
Apart(p) == \A t, u \in Active(p) : t # u => <<t, u>> \notin binding.overlap

\* As long as nothing was forsaken there is one claim, its process is the only
\* one that executes, and it waits for every turn that runs.
Attended ==
    /\ \A p \in Procs : pc[p] # "idle" => Owns(p)
    /\ \A t \in Tasks : /\ mapping[t] # "AMBIGUOUS"
                        /\ turn[t] = "running" => \E p \in Procs : at[p][t] = "await"

OInv == (\A p \in Procs : Apart(p)) /\ (~forsaken => Attended)

\* An execution starts no plan that shares its scope with one under way.
LEMMA ApartStep ==
    ASSUME IInv, \A p \in Procs : Apart(p), [Next]_vars, NEW q \in Procs
    PROVE  Apart(q)'
<1> SUFFICES ASSUME NEW t \in Active(q)', NEW u \in Active(q)', t # u
             PROVE  <<t, u>> \notin binding'.overlap
  BY DEF Apart
<1> USE DEF IInv, TypeOK, Active, Apart, Goto, Settle, durable, local, vars
<1>1. ASSUME NEW p \in Procs, Claim(p) \/ Crash(p) \/ Record(p) \/ Throw(p)
      PROVE  <<t, u>> \notin binding'.overlap
  <2>1. t \in Active(q) /\ u \in Active(q)
    <3>1. CASE Claim(p) \/ Throw(p)
      BY <3>1 DEF Claim, Throw
    <3>2. CASE Crash(p) \/ Record(p)
      <4>1. at' = [at EXCEPT ![p] = [v \in Tasks |-> "pending"]]
        BY <3>2 DEF Crash, Record, Leave, Pending
      <4>2. p # q
        BY <4>1
      <4>3. at'[q] = at[q]
        BY <4>1, <4>2
      <4> QED BY <4>3
    <3> QED BY <1>1, <3>1, <3>2
  <2>2. binding' = binding
    BY <1>1 DEF Claim, Crash, Record, Throw
  <2> QED BY <2>1, <2>2
<1>2. ASSUME NEW p \in Procs, UseBinding(p) \/ Prepare(p) \/ Validate(p)
                                \/ \E b \in Bundles : AskPlanner(p, b)
      PROVE  <<t, u>> \notin binding'.overlap
  BY <1>2 DEF UseBinding, Prepare, Validate, AskPlanner
<1>3. ASSUME NEW p \in Procs, Persist(p)
      PROVE  <<t, u>> \notin binding'.overlap
  BY <1>3 DEF Persist, Knows
<1>4. ASSUME NEW p \in Procs, NEW v \in Tasks, StartNext(p, v)
      PROVE  <<t, u>> \notin binding'.overlap
  <2>1. CASE p = q /\ (t = v \/ u = v)
    <3>1. binding \in Bundles /\ plans[q] = binding
      BY <1>4, <2>1 DEF StartNext, Knows
    <3>2. \A w \in Active(q) : <<w, v>> \notin binding.overlap
      BY <1>4, <2>1, <3>1 DEF StartNext, Clashes
    <3>3. \A w \in Active(q) : <<v, w>> \notin binding.overlap
      BY <3>1, <3>2, ExecutionAssumption
    <3> QED BY <1>4, <2>1, <3>2, <3>3 DEF StartNext
  <2>2. CASE ~(p = q /\ (t = v \/ u = v))
    BY <1>4, <2>2 DEF StartNext
  <2> QED BY <2>1, <2>2
<1>5. ASSUME NEW p \in Procs, NEW v \in Tasks,
             \/ FailDependent(p, v) \/ Refused(p, v) \/ GiveUp(p, v) \/ AlreadyOver(p, v)
             \/ StartTurn(p, v) \/ StartAmbiguous(p, v) \/ Join(p, v) \/ Await(p, v)
      PROVE  <<t, u>> \notin binding'.overlap
  BY <1>5 DEF FailDependent, Refused, GiveUp, AlreadyOver, StartTurn, StartAmbiguous, Join, Await, Over
<1>6. ASSUME NEW v \in Tasks, StartLate(v) \/ TurnEnds(v)
      PROVE  <<t, u>> \notin binding'.overlap
  BY <1>6 DEF StartLate, TurnEnds
<1>7. CASE Lapse \/ UNCHANGED vars
  BY <1>7 DEF Lapse
<1> QED BY <1>1, <1>2, <1>3, <1>4, <1>5, <1>6, <1>7 DEF Next, Step

\* Nothing but a lapse, a crash, an unconfirmed start or a wait given up ends
\* the attention of the one execution.
LEMMA AttendedStep ==
    ASSUME IInv, ~forsaken => Attended, [Next]_vars, ~forsaken'
    PROVE  Attended'
<1> USE DEF IInv, TypeOK, Owns, Goto, Settle, durable, local, vars
<1>0. Attended
  BY DEF Next, Step, Claim, Crash, Record, Throw, UseBinding, Prepare, Validate, AskPlanner, Persist,
         FailDependent, StartNext, Refused, GiveUp, AlreadyOver, StartTurn, StartAmbiguous, Join, Await,
         StartLate, TurnEnds, Lapse
<1>1. ASSUME NEW p \in Procs, Claim(p) PROVE Attended'
  BY <1>0, <1>1 DEF Claim, Attended
<1>2. ASSUME NEW p \in Procs, Record(p) PROVE Attended'
  <2>1. \A t \in Tasks : at[p][t] # "await"
    BY <1>2 DEF Record, Knows
  <2> QED BY <1>0, <1>2, <2>1 DEF Record, Leave, Attended
<1>3. ASSUME NEW p \in Procs, Throw(p) \/ UseBinding(p) \/ Prepare(p) \/ Validate(p) \/ Persist(p)
                                \/ \E b \in Bundles : AskPlanner(p, b)
      PROVE  Attended'
  BY <1>0, <1>3 DEF Throw, UseBinding, Prepare, Validate, Persist, AskPlanner, Attended
<1>4. ASSUME NEW p \in Procs, NEW t \in Tasks,
             \/ FailDependent(p, t) \/ StartNext(p, t) \/ Refused(p, t) \/ AlreadyOver(p, t)
             \/ StartTurn(p, t) \/ Join(p, t) \/ Await(p, t)
      PROVE  Attended'
  <2>1. CASE FailDependent(p, t) \/ StartNext(p, t) \/ Refused(p, t) \/ AlreadyOver(p, t)
    <3>1. UNCHANGED <<batch, owner, mapping, turn, pc>>
      BY <2>1 DEF FailDependent, StartNext, Refused, AlreadyOver
    <3>2. at[p][t] # "await" /\ \E s \in {"FAILED", "COMPLETED", "dispatch"} : at' = [at EXCEPT ![p][t] = s]
      BY <2>1 DEF FailDependent, StartNext, Ready, Refused, AlreadyOver, Over
    <3>3. \A r \in Procs, v \in Tasks : at[r][v] = "await" => at'[r][v] = "await"
      BY <3>2
    <3> QED BY <1>0, <3>1, <3>3 DEF Attended
  <2>2. CASE StartTurn(p, t) \/ Join(p, t)
    BY <1>0, <2>2 DEF StartTurn, Join, Attended
  <2>3. CASE Await(p, t)
    BY <1>0, <2>3 DEF Await, Attended
  <2> QED BY <1>4, <2>1, <2>2, <2>3
<1>5. ASSUME NEW t \in Tasks, StartLate(t) \/ TurnEnds(t) PROVE Attended'
  BY <1>0, <1>5 DEF StartLate, TurnEnds, Attended
<1>6. CASE UNCHANGED vars
  BY <1>0, <1>6 DEF Attended
<1>7. ASSUME NEW p \in Procs, NEW t \in Tasks, Crash(p) \/ Lapse \/ StartAmbiguous(p, t) \/ GiveUp(p, t)
      PROVE  FALSE
  BY <1>7 DEF Crash, Lapse, StartAmbiguous, GiveUp
<1>8. Lapse => FALSE
  BY DEF Lapse
<1>9. \A p \in Procs : Crash(p) => FALSE
  BY DEF Crash
<1> QED BY <1>1, <1>2, <1>3, <1>4, <1>5, <1>6, <1>7, <1>8, <1>9 DEF Next, Step

\* Plans with overlapping scopes run one after the other as long as every
\* execution attends to its turns (runReadyPlans).
THEOREM OverlapsAlwaysSerialized == Spec => []OverlapsSerialized
<1>1. Init => OInv
  BY DEF Init, Pending, OInv, Apart, Active, Attended
<1>2. IInv /\ OInv /\ [Next]_vars => OInv'
  BY ApartStep, AttendedStep DEF OInv
<1>3. IInv /\ OInv => OverlapsSerialized
  <2> SUFFICES ASSUME IInv, OInv, ~forsaken, NEW t \in Tasks, NEW u \in Tasks, t # u,
                      turn[t] = "running", turn[u] = "running"
               PROVE  <<t, u>> \notin binding.overlap
    BY DEF OverlapsSerialized
  <2>1. PICK p \in Procs, q \in Procs : at[p][t] = "await" /\ at[q][u] = "await"
    BY DEF OInv, Attended
  <2>2. p = q
    BY <2>1 DEF OInv, Attended, IInv, Knows, Owns
  <2> QED BY <2>1, <2>2 DEF OInv, Apart, Active
<1> QED BY <1>1, <1>2, <1>3, Invariance, PTL DEF Spec

-----------------------------------------------------------------------------
(* Refinement. *)

\* Every step of an execution is a step of the task graph, or none at all.
LEMMA StepRefines == IInv /\ [Next]_vars => [TG!Next]_(TG!vars)
<1> SUFFICES ASSUME IInv, [Next]_vars PROVE [TG!Next]_(TG!vars)
  OBVIOUS
<1>1. ASSUME NEW p \in Procs, Persist(p)
      PROVE  (TG!Accept(plans[p]) /\ plans[p] \in Bundles) \/ UNCHANGED TG!vars
  BY <1>1 DEF IInv, Knows, Persist, TG!Accept, TG!vars
<1>2. ASSUME NEW p \in Procs, NEW t \in Tasks, StartTurn(p, t)
      PROVE  TG!Begin(t)
  BY <1>2, DepsAreTasks DEF IInv, TypeOK, Knows, Recorded, StartTurn, TG!Begin
<1>3. ASSUME NEW t \in Tasks, StartLate(t)
      PROVE  TG!Begin(t)
  BY <1>3, DepsAreTasks DEF IInv, TypeOK, Recorded, StartLate, TG!Begin
<1>4. ASSUME NEW t \in Tasks, TurnEnds(t)
      PROVE  TG!End(t)
  BY <1>4 DEF TurnEnds, TG!End
<1>5. ASSUME NEW p \in Procs,
             \/ Claim(p) \/ Crash(p) \/ Record(p) \/ Throw(p) \/ UseBinding(p) \/ Prepare(p)
             \/ Validate(p) \/ \E b \in Bundles : AskPlanner(p, b)
      PROVE  UNCHANGED TG!vars
  BY <1>5 DEF Claim, Crash, Record, Throw, UseBinding, Prepare, Validate, AskPlanner, durable, TG!vars
<1>6. ASSUME NEW p \in Procs, NEW t \in Tasks,
             \/ FailDependent(p, t) \/ StartNext(p, t) \/ StartAmbiguous(p, t) \/ Join(p, t)
             \/ AlreadyOver(p, t) \/ Refused(p, t) \/ Await(p, t) \/ GiveUp(p, t)
      PROVE  UNCHANGED TG!vars
  BY <1>6 DEF FailDependent, StartNext, StartAmbiguous, Join, AlreadyOver, Refused, Await, GiveUp,
              durable, TG!vars
<1>7. CASE Lapse \/ UNCHANGED vars
  BY <1>7 DEF Lapse, vars, durable, TG!vars
<1> QED BY <1>1, <1>2, <1>3, <1>4, <1>5, <1>6, <1>7 DEF Next, Step, TG!Next

\* All executions of a batch together are one pass over one task graph: one
\* bundle, each task worked on at most once and in its order.
THEOREM Refinement == Spec => ImplementsTaskGraph
<1>1. Init => TG!Init
  BY DEF Init, TG!Init
<1> QED BY <1>1, StepRefines, Invariance, PTL DEF Spec, ImplementsTaskGraph, TG!Spec
=============================================================================
