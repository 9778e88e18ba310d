----------------------------- MODULE Execution ------------------------------
(***************************************************************************)
(* How a submitted batch is executed (night-worker executor, planner and   *)
(* agent runner): plan it once, prepare the worktrees, start the workers   *)
(* of plans that are ready as slots free up, wait for their turns, and     *)
(* validate what they did.                                                 *)
(*                                                                         *)
(* Services claim the batch one after another, and one whose claim lapsed  *)
(* goes on until its next heartbeat, so several executions may be under    *)
(* way.  They share what is durable: the binding in the batch record, the  *)
(* worker mappings and the App Server's turns.  What a worker start leaves *)
(* behind is ThreadBroker's subject; here a start is one step, with the    *)
(* outcomes ThreadBroker shows to be the only ones.  Git, the SOL planner  *)
(* and the validation commands may refuse at every step they are used in.  *)
(***************************************************************************)
EXTENDS Integers, FiniteSets

CONSTANTS Tasks,       \* the tasks of the batch
          Bundles,     \* plan bundles the SOL planner may answer with
          NoBundle,
          Procs,       \* service processes
          NoProc,
          MaxParallel, \* max_parallel_implementation_workers
          MaxClaims    \* bound: claims of the batch

\* A bundle: what each plan depends on, which plans' scopes overlap, and the
\* position of each plan.  validateTaskPlans refuses unknown dependencies and
\* cycles.
BundleType ==
    [deps : [Tasks -> SUBSET Tasks], overlap : SUBSET (Tasks \X Tasks), position : [Tasks -> Nat]]

ASSUME ExecutionAssumption ==
    /\ MaxParallel \in Nat \ {0} /\ MaxClaims \in Nat
    /\ NoBundle \notin Bundles /\ NoProc \notin Procs
    /\ \A b \in Bundles :
          /\ b.deps \in [Tasks -> SUBSET Tasks]
          /\ b.overlap \subseteq Tasks \X Tasks
          /\ b.position \in [Tasks -> Nat]
          /\ \A t, u \in Tasks : <<t, u>> \in b.overlap => <<u, t>> \in b.overlap
          /\ \A t, u \in Tasks : b.position[t] = b.position[u] => t = u
          /\ \E depth \in [Tasks -> 0..Cardinality(Tasks)] :
                \A t \in Tasks : \A d \in b.deps[t] : depth[d] < depth[t]

VARIABLES
    \* durable
    batch,     \* state of the batch
    owner,     \* the process of its claim
    claims,    \* claims so far
    binding,   \* the accepted bundle in the batch's reply metadata
    mapping,   \* lifecycle of each task's worker mapping and reservation
    turn,      \* the turns of the App Server
    \* of each process
    pc,        \* where executeBatch stands
    plans,     \* the bundle it works with
    at,        \* where runReadyPlans has each plan
    verdict,   \* the status executeBatch returns
    \* history
    forsaken   \* an execution under way was left, or lost its claim

durable == <<batch, owner, claims, binding, mapping, turn>>
local   == <<pc, plans, at, verdict>>
vars    == <<durable, local, forsaken>>

Open    == {"QUEUED", "RUNNING"}       \* batch states in which workers are dispatched
Over    == {"COMPLETED", "FAILED"}     \* results of a plan in runReadyPlans
Pending == [t \in Tasks |-> "pending"]

Init ==
    /\ batch = "QUEUED" /\ owner = NoProc /\ claims = 0
    /\ binding = NoBundle
    /\ mapping = [t \in Tasks |-> "none"]
    /\ turn = [t \in Tasks |-> "none"]
    /\ pc = [p \in Procs |-> "idle"]
    /\ plans = [p \in Procs |-> NoBundle]
    /\ at = [p \in Procs |-> Pending]
    /\ verdict = [p \in Procs |-> "none"]
    /\ forsaken = FALSE

\* A heartbeat of process p goes through.
Owns(p) == batch = "RUNNING" /\ owner = p

Goto(p, label) == pc' = [pc EXCEPT ![p] = label]

\* executeBatch of process p is over, with its locals.
Leave(p) ==
    /\ Goto(p, "idle")
    /\ plans' = [plans EXCEPT ![p] = NoBundle]
    /\ at' = [at EXCEPT ![p] = Pending]
    /\ verdict' = [verdict EXCEPT ![p] = "none"]

-----------------------------------------------------------------------------
(* The service around executeBatch. *)

Claim(p) ==
    /\ pc[p] = "idle"
    /\ batch = "QUEUED"
    /\ claims < MaxClaims
    /\ batch' = "RUNNING" /\ owner' = p /\ claims' = claims + 1
    /\ Goto(p, "planning")
    /\ UNCHANGED <<binding, mapping, turn, plans, at, verdict, forsaken>>

\* The claim lapses and the batch is swept: requeued, or expired.
Lapse ==
    /\ batch \in Open
    /\ \/ batch = "RUNNING" /\ batch' = "QUEUED"
       \/ batch' = "EXPIRED"
    /\ owner' = NoProc
    /\ forsaken' = TRUE
    /\ UNCHANGED <<claims, binding, mapping, turn, local>>

\* complete or fail of the queue; a heartbeat of the service's timer that
\* failed turns the one into the other.  The verdict itself is not recorded.
Record(p) ==
    /\ pc[p] \in {"returned", "thrown"}
    /\ \/ /\ Owns(p)
          /\ \/ pc[p] = "returned" /\ batch' = "COMPLETED"
             \/ batch' = "FAILED"
          /\ owner' = NoProc
       \/ ~Owns(p) /\ UNCHANGED <<batch, owner>>
    /\ Leave(p)
    /\ UNCHANGED <<claims, binding, mapping, turn, forsaken>>

\* executeBatch throws: a heartbeat, the planner, git or the store refused.
\* The failures of workers are results of runReadyPlans and throw nothing.
Throw(p) ==
    /\ \/ pc[p] \in {"planning", "persisting", "preparing"}
       \/ pc[p] = "running" /\ \A t \in Tasks : at[p][t] \in Over
    /\ Goto(p, "thrown")
    /\ UNCHANGED <<durable, plans, at, verdict, forsaken>>

\* The process dies; the turns of its workers go on.
Crash(p) ==
    /\ pc[p] # "idle"
    /\ Leave(p)
    /\ forsaken' = TRUE
    /\ UNCHANGED durable

-----------------------------------------------------------------------------
(* planBatch: the bundle is read, or asked for and then bound to the batch. *)

UseBinding(p) ==
    /\ pc[p] = "planning"
    /\ binding # NoBundle
    /\ plans' = [plans EXCEPT ![p] = binding]
    /\ Goto(p, "preparing")
    /\ UNCHANGED <<durable, at, verdict, forsaken>>

\* The SOL planner is asked only when no binding was read.
AskPlanner(p, b) ==
    /\ pc[p] = "planning"
    /\ binding = NoBundle
    /\ plans' = [plans EXCEPT ![p] = b]
    /\ Goto(p, "persisting")
    /\ UNCHANGED <<durable, at, verdict, forsaken>>

\* Mutant: the last answer is bound.
PersistOver(p) ==
    /\ pc[p] = "persisting"
    /\ binding' = plans[p]
    /\ Goto(p, "preparing")
    /\ UNCHANGED <<batch, owner, claims, mapping, turn, plans, at, verdict, forsaken>>

\* persistPlanBinding: a binding made meanwhile is kept; another answer throws.
Persist(p) ==
    /\ pc[p] = "persisting"
    /\ binding' = IF binding = NoBundle THEN plans[p] ELSE binding
    /\ Goto(p, IF binding' = plans[p] THEN "preparing" ELSE "thrown")
    /\ UNCHANGED <<batch, owner, claims, mapping, turn, plans, at, verdict, forsaken>>

\* prepareTaskWorktrees, with a heartbeat before the workers run.
Prepare(p) ==
    /\ pc[p] = "preparing"
    /\ Owns(p)
    /\ Goto(p, "running")
    /\ UNCHANGED <<durable, plans, at, verdict, forsaken>>

-----------------------------------------------------------------------------
(* runReadyPlans. *)

Active(p) == {t \in Tasks : at[p][t] \in {"dispatch", "await"}}

\* Mutants: a dependency need not have succeeded; scopes are not compared; a
\* plan whose dependency failed is kept.
ReadyWhenOver(p, t) == at[p][t] = "pending" /\ \A d \in plans[p].deps[t] : at[p][d] \in Over

Ready(p, t) == at[p][t] = "pending" /\ \A d \in plans[p].deps[t] : at[p][d] = "COMPLETED"

ClashesAnyway(p, t) == FALSE

\* The scope of t overlaps that of a plan under way.
Clashes(p, t) == \E u \in Active(p) : <<u, t>> \in plans[p].overlap

FailDependentNever(p, t) == FALSE /\ UNCHANGED vars

FailDependent(p, t) ==
    /\ pc[p] = "running"
    /\ at[p][t] = "pending"
    /\ \E d \in plans[p].deps[t] : at[p][d] = "FAILED"
    /\ at' = [at EXCEPT ![p][t] = "FAILED"]
    /\ UNCHANGED <<durable, pc, plans, verdict, forsaken>>

\* The first plan that is ready and clashes with none takes a free slot.
StartNext(p, t) ==
    /\ pc[p] = "running"
    /\ Cardinality(Active(p)) < MaxParallel
    /\ Ready(p, t) /\ ~Clashes(p, t)
    /\ \A u \in Tasks : plans[p].position[u] < plans[p].position[t] =>
          ~Ready(p, u) \/ Clashes(p, u)
    /\ at' = [at EXCEPT ![p][t] = "dispatch"]
    /\ UNCHANGED <<durable, pc, plans, verdict, forsaken>>

\* The runner's promise for plan t settles and the race goes to it.
Settle(p, t, result) == at' = [at EXCEPT ![p][t] = result]

-----------------------------------------------------------------------------
(* dispatchImplementation: start the worker or join it, and wait for its turn. *)

\* A turn is started for a task that had none.
StartTurn(p, t) ==
    /\ at[p][t] = "dispatch"
    /\ batch \in Open
    /\ mapping[t] = "none"
    /\ mapping' = [mapping EXCEPT ![t] = "TURN_STARTED"]
    /\ turn' = [turn EXCEPT ![t] = "running"]
    /\ Settle(p, t, "await")
    /\ UNCHANGED <<batch, owner, claims, binding, pc, plans, verdict, forsaken>>

\* The start is not confirmed: it is marked ambiguous, and the App Server may
\* carry it out, now or later.
StartAmbiguous(p, t) ==
    /\ at[p][t] = "dispatch"
    /\ batch \in Open
    /\ mapping[t] = "none"
    /\ mapping' = [mapping EXCEPT ![t] = "AMBIGUOUS"]
    /\ Settle(p, t, "FAILED")
    /\ forsaken' = TRUE
    /\ UNCHANGED <<batch, owner, claims, binding, turn, pc, plans, verdict>>

StartLate(t) ==
    /\ mapping[t] = "AMBIGUOUS"
    /\ turn[t] = "none"
    /\ turn' = [turn EXCEPT ![t] = "running"]
    /\ UNCHANGED <<batch, owner, claims, binding, mapping, local, forsaken>>

\* The worker has a turn already, recorded or found by its message id.
Join(p, t) ==
    /\ at[p][t] = "dispatch"
    /\ batch \in Open
    /\ \/ mapping[t] = "TURN_STARTED"
       \/ mapping[t] = "AMBIGUOUS" /\ turn[t] # "none"
    /\ mapping' = [mapping EXCEPT ![t] = "TURN_STARTED"]
    /\ Settle(p, t, "await")
    /\ UNCHANGED <<batch, owner, claims, binding, turn, pc, plans, verdict, forsaken>>

\* The worker's mapping is terminal.
AlreadyOver(p, t) ==
    /\ at[p][t] = "dispatch"
    /\ batch \in Open
    /\ mapping[t] \in Over
    /\ Settle(p, t, mapping[t])
    /\ UNCHANGED <<durable, pc, plans, verdict, forsaken>>

\* A check before the start, the reservation or the start itself refuses.
Refused(p, t) ==
    /\ at[p][t] = "dispatch"
    /\ Settle(p, t, "FAILED")
    /\ UNCHANGED <<durable, pc, plans, verdict, forsaken>>

TurnEnds(t) ==
    /\ turn[t] = "running"
    /\ \E outcome \in {"succeeded", "failed"} : turn' = [turn EXCEPT ![t] = outcome]
    /\ UNCHANGED <<batch, owner, claims, binding, mapping, local, forsaken>>

\* awaitImplementationCompletion reads a terminal turn.
Await(p, t) ==
    /\ at[p][t] = "await"
    /\ turn[t] \in {"succeeded", "failed"}
    /\ LET result == IF turn[t] = "succeeded" THEN "COMPLETED" ELSE "FAILED" IN
          /\ mapping' = [mapping EXCEPT ![t] = result]
          /\ Settle(p, t, result)
    /\ UNCHANGED <<batch, owner, claims, binding, turn, pc, plans, verdict, forsaken>>

\* Reading fails, the wait times out or is cancelled: the plan failed, and its
\* turn goes on.
GiveUp(p, t) ==
    /\ at[p][t] = "await"
    /\ Settle(p, t, "FAILED")
    /\ forsaken' = TRUE
    /\ UNCHANGED <<durable, pc, plans, verdict>>

-----------------------------------------------------------------------------
(* Validation. *)

\* validateTaskPlanExecution finds the worker's mapping and turn complete; git
\* and the validation commands may still object.
Validated(t) == mapping[t] = "COMPLETED" /\ turn[t] = "succeeded"

\* Mutant: the plans whose worker failed are not looked at.
VerdictOfWorkers(p, status) ==
    status = "PUBLISHABLE" => \A t \in Tasks : at[p][t] = "COMPLETED" => Validated(t)

\* The statuses executeBatch may return.
Verdict(p, status) ==
    status = "PUBLISHABLE" => \A t \in Tasks : at[p][t] = "COMPLETED" /\ Validated(t)

Validate(p) ==
    /\ pc[p] = "running"
    /\ \A t \in Tasks : at[p][t] \in Over
    /\ Owns(p)
    /\ \E status \in {"PUBLISHABLE", "FAILED"} :
          /\ Verdict(p, status)
          /\ verdict' = [verdict EXCEPT ![p] = status]
    /\ Goto(p, "returned")
    /\ UNCHANGED <<durable, plans, at, forsaken>>

-----------------------------------------------------------------------------
\* What process p itself does next.
Step(p) ==
    \/ Record(p) \/ Throw(p)
    \/ UseBinding(p) \/ (\E b \in Bundles : AskPlanner(p, b)) \/ Persist(p) \/ Prepare(p)
    \/ /\ pc[p] = "running"
       /\ \E t \in Tasks :
             \/ Refused(p, t) \/ GiveUp(p, t)
             \/ FailDependent(p, t) \/ StartNext(p, t)
             \/ StartTurn(p, t) \/ StartAmbiguous(p, t) \/ Join(p, t) \/ AlreadyOver(p, t)
             \/ Await(p, t)
    \/ Validate(p)

Next ==
    \/ \E p \in Procs : Claim(p) \/ Step(p) \/ Crash(p)
    \/ \E t \in Tasks : StartLate(t) \/ TurnEnds(t)
    \/ Lapse

Fairness == \A p \in Procs : WF_vars(Step(p))

Spec == Init /\ [][Next]_vars /\ Fairness

-----------------------------------------------------------------------------
(* Properties. *)

\* Every variable keeps its type.
TypeOK ==
    /\ batch \in Open \cup Over \cup {"EXPIRED"}
    /\ owner \in Procs \cup {NoProc}
    /\ claims \in 0..MaxClaims
    /\ binding \in Bundles \cup {NoBundle}
    /\ mapping \in [Tasks -> {"none", "AMBIGUOUS", "TURN_STARTED"} \cup Over]
    /\ turn \in [Tasks -> {"none", "running", "succeeded", "failed"}]
    /\ pc \in [Procs -> {"idle", "planning", "persisting", "preparing", "running",
                         "returned", "thrown"}]
    /\ plans \in [Procs -> Bundles \cup {NoBundle}]
    /\ at \in [Procs -> [Tasks -> {"pending", "dispatch", "await"} \cup Over]]
    /\ verdict \in [Procs -> {"none", "PUBLISHABLE", "FAILED"}]
    /\ forsaken \in BOOLEAN

\* No task is worked on, by any execution of the batch, before the tasks it
\* depends on in the accepted bundle have succeeded: not after a crash, a
\* second claim, a second planner answer or a start that landed late
\* (agent-runner.mjs:328-333, planner.mjs:427-437).
DependenciesFirst ==
    \A t \in Tasks : turn[t] # "none" =>
        /\ binding # NoBundle
        /\ \A d \in binding.deps[t] : turn[d] = "succeeded"

\* Plans with overlapping scopes are never worked on at the same time, as long
\* as every execution waits for the turns it started and keeps its claim
\* (agent-runner.mjs:377-380).
OverlapsSerialized ==
    ~forsaken => \A t, u \in Tasks :
        t # u /\ turn[t] = "running" /\ turn[u] = "running" => <<t, u>> \notin binding.overlap

\* An execution says PUBLISHABLE only of a batch whose tasks all succeeded and
\* are recorded so, whichever execution did the work (executor.mjs:122-148).
PublishableIsDone ==
    \A p \in Procs : verdict[p] = "PUBLISHABLE" =>
        \A t \in Tasks : turn[t] = "succeeded" /\ mapping[t] = "COMPLETED"

TG == INSTANCE TaskGraph WITH graph <- binding, work <- turn

\* All executions of a batch together implement one pass over one task graph.
ImplementsTaskGraph == TG!Spec

\* Every execution ends: no dependency, overlap or failure of a worker leaves
\* the scheduler waiting for ever (agent-runner.mjs:364-424).
EveryExecutionEnds == \A p \in Procs : pc[p] # "idle" ~> pc[p] = "idle"
=============================================================================
