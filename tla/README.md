# Night Worker, workflow controller and language routing: a TLA+ model

The repository is a website together with two programs that run its
development: the **Night Worker** (`night-worker/`), a service that takes
batches of tasks, has Codex threads implement them and publishes the result,
and the **workflow controller** (`workflow/`), which admits runs of agents under
leases and fencing tokens and guards review, approval, closeout and publishing.
Both keep durable state that several processes change, survive crashes and talk
to workers that may be slow or gone. The **website** (`src/`) is mostly pages and
content, but which language a visitor gets, and which language a page may
claim, is decided by a protocol between browser, proxy, cookie and deployed
records. This directory models these three.

Line numbers below and in the modules are those of the repository's files.

## 1. The system

### Night Worker

| Part | State it keeps | Operations | What is hard |
| --- | --- | --- | --- |
| Runtime store records (`runtime-store.mjs`) | one JSON document: batches with claim and expiry, `active_batch_id`, `next_queue_sequence`, worker mappings, reservations | `load` (validates), `mutate` (load, change, validate, replace the file, under the lock) | a change that `validateState` rejects is refused each time it is tried, so what it was to record never is; a mutation may be written and its lock release still throw |
| Runtime store lock (`runtime-store.mjs:849-1049`) | a directory `lock_path` holding `owner.json`; a second one, the recovery marker | acquire by rename, release, removal of a dead owner's lock | single file operations of several processes in any order, deaths between any two of them |
| Queue (`queue.mjs`) | none of its own | `submit`, `claimNext`, `begin`, `heartbeat`, `complete`, `fail`, `requeueStale`; all but the first sweep expired claims and batches | the clock is read before the wait for the lock |
| Service (`service.mjs`, `cli.mjs`) | the claim it runs, `heartbeatError` | `serve` polls `runOnce`: claim, begin, handler with a heartbeat timer, complete or fail | crash, restart, blocked event loop, errors in the error path |
| Planner (`planner.mjs`) | the binding of a plan bundle in the batch record | `planBatch`: read the binding, or ask the SOL planner and bind its answer | two executions ask and get different answers |
| Executor (`executor.mjs`) | none of its own | `executeBatch`: plan, prepare worktrees, run ready plans, validate, with a heartbeat between | an execution whose claim lapsed goes on beside the next one |
| Agent runner (`agent-runner.mjs`, `task-plan.mjs`) | per run: pending, active and finished plans | start ready plans, wait for their turns, record how they ended | completions in any order, overlapping file scopes, failed dependencies, a wait that is given up while the turn goes on |
| Thread broker (`thread-broker.mjs`) | `inflight` starts; durable state in the store | `startImplementation`/`startReview`: reserve, `thread/start`, map, `turn/start`, record; recovery of ambiguous turns | a request carried out after its caller gave up; death between asking and recording |
| App Server client (`app-server-client.mjs`) | pending requests by id, handshake | request, notification, timeout, close | late and unmatched answers |
| Validation (`validation.mjs`) | evidence in the memory of a process | validate a batch or a task, capture and re-check an exact head | evidence outlives what it was given for |
| Review runner (`review-runner.mjs`) | role batches in the queue, `correction_cycles` | draft, update, review, correct | callers at once, a head that moves between its check and its push |
| Publishing policy, GitHub (`publishing-policy.mjs`, `github.mjs`) | none; branches, pull requests, main | gate, mark ready, gate again, merge | everything checked may change before the merge |
| Worktrees (`worktrees.mjs`) | git worktrees | allocate, inspect, remove | partial failure of git |

They interact through the store only: the service claims a batch and calls the
executor, which plans it, has the agent runner start one worker per task
through the broker, and validates; drafting, reviewing, correcting and merging
are separate calls over the same store. Two services, or a service and the
command line, are two processes on one store file.

### Workflow controller

| Part | State it keeps | Operations | What is hard |
| --- | --- | --- | --- |
| Admission and leases (`internal/lease-engine.mjs`, `scheduler-engine.mjs`) | `fencing_generation`, runs, leases, reservations, tasks, wakeups | reserve a dispatch (sweeping expired leases), mark a run started, complete, release, recover an expired successful run | repeated wakeups, quotas of different grants, stale leases, late completions |
| Capabilities (`capability-engine.mjs`) | none; a signed statement is checked against the state | every privileged mutation | a check made against a state that has moved on |
| Review, approval, correction, closeout, publishing (`review-`, `correction-`, `closeout-`, `publishing-engine.mjs`) | review results, approvals, counters, closeouts, plans | one transaction each | records that refer to an implementation replaced since |
| Run engine (`run-engine.mjs`) | a child process | start, run, observe HEAD, validate, complete | an hour passes between two of its steps; it may throw or die anywhere |
| Controller state, journal, mutex (`controller-state-engine.mjs`, `recovery-engine.mjs`) | state file, journal, mutex directory | transactions, replay, activation, one-time pilot | crash between the journal append and the state write |
| Pilot administration (`pilot-admin-engine.mjs`, `admin/authority-admin.mjs`) | canonical grant, archive, three histories of human authorizations | install, enable, retire, rotate | a crash between several file moves; a grant read before the mutex is taken |
| Contracts, grants, schemas, paths (`contract.mjs`, `authority.mjs`, `schemas.mjs`, ...) | none | validation of documents | none across steps: functions of one input, covered by the unit tests |

Every operation of the controller is one transaction under its mutex, so the
interleavings that matter are those of whole transactions with the world:
workers, clocks, HEAD, deaths. How the transactions themselves survive deaths is
a subject of its own (`ControllerJournal`).

### Website

| Part | State it keeps | Operations | What is hard |
| --- | --- | --- | --- |
| Locale routing policy (`content/locale-routing.ts`) | none: a function of path, hint, cookie and kind of request | `routeFor` by six rules | rules whose answers other rules send on; retired prefixes and hints put together by hand |
| Proxy (`proxy.ts`) | the language cookie, in the visitor's browser | serve or redirect, and record the language | background requests answered late; redirects the browser follows from its cache without asking |
| Picker, notice, links (`components/layout/`) | none | links to another language (documents) and within one (client router, with prefetch) | the same page keeps asking while the visitor switches |
| Translation evidence (`content/translation-evidence.ts`) | records with copy, source, reviewer, status; fixed in a build | the gate: approved records move claims, complete drafts are shown | a record that names too few fields, a twin, a copy that is English again |
| Availability and rendering (`translation-availability.ts`, `availability.ts`, `lib/seo.tsx`) | none | canonical, hreflang, sitemap; copy of a page | claims and rendering read different lists |
| Pages, components, content tables, inquiry form | none | rendering; one stateless handler | data |

The proxy asks the policy for every request that is not an asset; pages ask
availability when they are built. Browser and proxy share the cookie only.

What makes each part correct, in a line: no call is refused for
the store it would leave; the lock
excludes and only dead owners lose it; batches run one at a time, in order,
each to an end, and only the last claimant reports it; a batch is worked on
along one accepted plan, each task once and after those it depends on; a worker
gets one thread and one turn and neither is forgotten; what is pushed was
validated and what is merged was approved, on that very head; at most one run
acts for a task, never after it lost its lease; nothing is approved, closed out
or published that an independent review did not earn; no act of the pilot's
administration is lost, repeated or undone; a visitor who picked a language
stays in it, a redirect leads to an address that is not redirected again (one
exception, named below), and an address the site claims shows what was
claimed. `PROJECT.json` lists the places
where each of these could go wrong ("hazards").

## 2. The modules

| Module | Models | Runs |
| --- | --- | --- |
| `SerialQueue` | what the queue promises: one line of batches, served one at a time | (abstract) |
| `NightQueue` | queue, its records in the store, services and clocks | `MCNightQueue`: `NightQueue` |
| `NightQueueProofs` | proofs about `NightQueue` | tlapm |
| `StoreLock` | the lock of the store, one file operation per step | `MCStoreLock`: `StoreLock`, `StoreLockRace` |
| `StoreLockProofs` | proofs about `StoreLock` | tlapm |
| `ThreadBroker` | starts of implementation workers over mappings and reservations, with an App Server | `MCThreadBroker`: `ThreadBroker`, `ThreadBrokerResume` |
| `TaskGraph` | what executing a batch promises: one plan bundle, each task once, dependencies first | (abstract) |
| `Execution` | planner, executor, agent runner over several claims of one batch | `MCExecution`: `Execution` |
| `ExecutionProofs` | proofs about `Execution` | tlapm |
| `Publishing` | validation evidence, draft, update, review, correction, merge | `MCPublishing`: `Publishing` |
| `PublishingProofs` | proofs about `Publishing` | tlapm |
| `Controller` | admission, capabilities, runs, review to publishing, the one-time pilot | `MCController`: `Controller`, `ControllerExpiry`, `ControllerCorrections` |
| `ControllerProofs` | proofs about `Controller` | tlapm |
| `PilotLedger` | what the pilot's administration promises: whole acts, each authorization used once | (abstract) |
| `ControllerJournal` | mutex, journal, state file; install, enable, dispatch, retire and rotate | `MCControllerJournal`: `ControllerJournal` |
| `JournalProofs` | proofs about `ControllerJournal` | tlapm |
| `SiteLocales` | the website's languages and their addresses | (used by `Website`) |
| `LocaleRouting` | the routing policy, as operators | (used by `Website`) |
| `TranslationEvidence` | the evidence gate, rendered copy and claims, as operators | (used by `Website`) |
| `Website` | a visitor's browser, the proxy's answers and the deployed site | `MCWebsite`: `Website` |
| `ThreadBrokerProofs` | proofs about `ThreadBroker` | tlapm |
| `WebsiteProofs` | proofs about `Website` | tlapm |

How they fit together. `StoreLock` shows what makes a `mutate` one step
(`MutualExclusion`, `NoLostUpdate`), and when it is none: after a live process's
recovery marker was moved aside (section 3). The Night Worker modules above it
take it as one step that may be refused and may throw after it wrote, so what
they show is of stores to which that did not happen. `NightQueue`
and `Execution` meet at the claim: `Execution` takes the claims, lapses and
heartbeats of one batch, and what `NightQueue` shows of all batches is that
there is one at a time. `Execution` takes a worker start as one step with the
outcomes `ThreadBroker` leaves (started, ambiguous, refused). `Publishing` begins
where `Execution` says PUBLISHABLE. `ControllerJournal` shows what makes a
transaction of `Controller` one step. `Website` stands by itself: it composes the
policy, the proxy and the evidence.

Definitions that begin a comment with "Mutant" are wrong variants of the
definition below them; no specification uses them. They show that each
property can fail, and how.

### NightQueue

State: `state`, `sequence`, `nextSequence`, `active`, `owner` are the fields of
the runtime document; `ttl` and `left` are `expires_at` and `lease_expires_at`
relative to now. A service is a `pc` through `serve`/`runOnce`, its claim
(`job`, `token`) and `beatFailed` (`heartbeatError !== null`).

A queue call reads its clock, then waits up to `lock_timeout_ms` for the lock.
Each is therefore two steps: the one that enters it (`Poll`, `StartBeat`,
`HandlerDone`, ...) and the one that runs the mutator (`ClaimNext`, `Begin`,
`Heartbeat`, `Complete`, `Fail`), which decides with a reading `lag[s]` units
old; `Refused` and `Busy` are the calls that throw, and every mutator but
submission includes the sweep, as in the code. `RequeueStale` is the
command-line call with a reading of any age. `Crash` and `Restart` act at any
place. The handler is a choice between success and failure; while it runs its
event loop may be blocked for as long as the other actions like, since nothing
makes a heartbeat happen. Tokens are numbered by the claim they were drawn for:
`makeOwnerToken` draws a fresh random one each time.

Left out: the fields a batch carries for the planner, the order of the JSON
arrays, polling intervals.

### StoreLock

A directory is what its path shows: nothing, an empty directory (between the
unlink of `owner.json` and the `rmdir`), or a record. Each action is one file
operation of `withLock`, `recoverDeadOwnerLock`, `reclaimDeadRecoveryMarker`,
`tryAcquireRecoveryMarker` or `releaseRecoveryMarker`, with POSIX rename
(replaces an empty directory, fails on a full one). The callback is
`mutate`'s: read a revision, maybe write the next. A process exits between any
two file operations. `disturbed` is history: some process moved a live process's marker
aside (`Quarantine`). The code lets that happen, and nothing protects the lock from
then on, so the properties say what holds until then; `OnlyDeadLocksRemoved`,
without that condition, is what `StoreLockRace` refutes. Left out: Windows,
malformed records, foreign files in the directory, a pid given to another process.

### ThreadBroker

State: per worker its mapping (`mapping`, `turned`) and reservation (`owner`,
`startState`, `turnState`); per process and worker the place of the call; the
App Server as the threads and turns it created and the requests it still has
to carry out. `others` counts the places that workers outside the model take;
`OthersMove` lets them take and leave places, under the limit `reserveWorker`
enforces. `Reserve` is the whole of `reserveWorker`; each further step is
one store call or one request of `#startOnce`, with its `catch` block
(`CleanUp`), the heartbeat that loses a reservation (`Abandon`) and the
recovery of ambiguous turns. A request may be answered, be carried out after
its caller gave up (`AnswerLate`), or never. A store call is done, refused, or
written and thrown (`Outcomes`). `Await` is the agent runner's wait for the
turn. Processes die and do not come back; another process is a restart.

Left out: model and effort fields (they only end the call), review workers
(the same code without the limit), `readWorker`.

### Execution

State: of the batch its state, claimant and binding; per task the lifecycle of
its worker (`mapping`) and the App Server's turn; per service where
`executeBatch` stands, the bundle it works with, where `runReadyPlans` has each
plan (`at`) and the verdict it returns. `forsaken` is history: an execution was
left by a crash, a lapsed claim or a wait that was given up.

`planBatch` is three steps: the binding is there (`UseBinding`), or the planner is
asked (`AskPlanner`) and its answer bound (`Persist`, which refuses one that
differs from what was bound meanwhile). `StartNext` is one turn of the scheduler
loop (position order, dependencies, overlap, limit); `FailDependent` fails what
waits for a failed plan; `StartTurn`, `StartAmbiguous`, `StartLate`, `Join`,
`AlreadyOver` and `Refused` are the outcomes of `dispatchImplementation`; `Await`
and `GiveUp` its wait. `Throw`, `Crash` and `Lapse` (the claim's lease or the
batch runs out) may come at any await. A claim that lapsed does not stop its
execution: the next heartbeat does.

Left out: what a plan says, the prompt, the planner's own thread (an answer or an
error), allocation of worktrees (`Prepare` passes or throws).

### Publishing

State: the source batch (over or not, `correction_cycles`), each task's HEAD,
pushed branch and pull request, the role batches of the queue, each caller's
evidence and operation. Each action is the code between two awaits: `Capture`
(`capturePublishableTaskHead`, with which every operation begins), then for a
draft `Push`, `List`, `Create`; for an update `Look`, `Push`; for a review or a
correction `VerifyFindings`, `Reserve`, `Enqueue`, `Start`, `Wait`, `Record`; for a
merge `VerifyApproval`, `FirstGate`, `MarkReady`, `SecondGate`, `Reverify`,
`FinalGate`, `MergePullRequest`. `Throw` and `Crash` end an operation anywhere.
Around them, correction workers commit (`Commit`), turns end, the service claims
queued role batches (`Poll`), the source batch ends and main moves.

Heads of a task are numbers that grow: workers commit on what they find. GitHub's
`--match-head-commit` is the guard on `remote` in `MergePullRequest`.

### Controller

Each admission creates one run, one lease and one fencing token in the same
step; a number stands for all three. `reserveTaskDispatch` is an admission
(`Admit`) or a refusal that still keeps its sweep and its wakeup (`Refuse`);
`ByPilot` is the pilot's dispatch. A capability is the condition under which it
is accepted (`Holds`, `Authorized`); its own expiry can only refuse, so it is the
choice of whoever calls. `runCodexExec` is `Begin`, `Observe` and `Complete`, with
`Abort` for an exception or death between them; only `Complete` uses the clock
reading of the beginning, so it checks `Holds` instead of `Authorized`.
`RecordIndependentReview`, `IssueApproval`, `PlanCorrection`,
`FinalizeCloseout`, `PlanPublishing`, `CompletePublishing`, `ReleaseTaskLease`
and `RecoverExpired` are one transaction each. `Lapse` lets a lease run out,
`Commit` moves HEAD, and the administration sets the activation or enables the
pilot at any time.

An approval is never withdrawn: one of an earlier implementation still closes out
a later one, if a review approved that one too, and its closeout carries the new
head. `PublishesReviewed` therefore says two things: what is planned was itself
reviewed, or closed out on a review, and the implementation the task stands at
was approved by some review.

Abstractions: contracts and grants do not change; HEAD is a number that only
grows; lock requests are a conflict relation between tasks; one
approval-gated action stands for commit, push and pr; `FAILED` stands for STALE
and all failing completions; signatures, digests and path scopes pass or end
the call. `SetActivation(TRUE)` is reached by the tests only (the production
entry can set it to false); it is kept because admission, publishing and start
all read it. The task reducer of `workflow/state.mjs` is not called by the
engines and not modelled.

### ControllerJournal

State: the mutex directory, the journal with the snapshot each event carries, the
state file, the canonical grant and its archive, and per process its call. `Call`
reads what the code reads before it takes the mutex: enabling the grant, a
dispatch the grant and the activation, the others the clock. `Acquire`,
`TimeOut`, `Release` are the mutex; `Commit` is the transaction up to the journal
append (which may tear its line: `Tear`), `Save` the write of the state file;
`Archive`, `Install` and `RollBack` are the rotation around it. `Fail` is an
exception of any of them and `Crash` a death; a mutex left by a dead process
stays until somebody removes it by hand (`Reclaim`, which the code leaves to a
"separately authorized recovery path").

One operation of a call fails: the rollback after a first error meets no second.
With a second one `rotationRecorded` (`pilot-admin-engine.mjs:573`) would answer
false for a journal it could not read and undo a recorded rotation; that is
outside the model.

### Website

`LocaleRouting.DecideRoute` is `decideRoute` rule by rule, over addresses that are
the locale segments a path begins with, a page and the `_locale` parameter.
`TranslationEvidence.Reasons` is `evidenceDecisionFor` reason by reason; of a text
only its kind counts (the locale's own, the English again, blank). A site is what
a registry of records makes the pages claim and show, if it builds
(`PageCopyThrows`).

State: the language cookie, the permanent redirects the browser remembers, the
navigation under way, the background requests, the page on screen, the deployed
site, and history: `chosen`, the language of the visitor's last choice while it
binds, and, of the navigation, the address it began with (`asked`), its redirects
(`hops`) and those of them the proxy answered (`answered`). A request carries the cookie of the moment it is sent and
its answer writes the cookie when it arrives (`AnswerRedirect`, `AnswerPage`,
`AnswerBackground`); a remembered redirect is followed at once (`Load`).
`AnswerOtherLayout` is the client router finding that a link leads to another
root layout, so that the browser loads the document. A new navigation drops the
answer of the one before. `Init` has any cookie, those of retired languages too.

What ends a choice: going back and another tab (both may show or record any
language), an unprefixed address while something is under way, and an address
whose hint contradicts one of several prefixes, such as `/zh/de/x?_locale=en`,
where the proxy takes off the first prefix and the second decides. A click on
the language of the page does nothing in the code, not even when a switch to
another one is under way, and is therefore no choice here.

Left out: the client router's cache of fetched pages, which lives no longer than
the document; section surfaces (`page-surfaces.ts` ships an empty registry); the
assembly of records from the content tables: the gate is given any record
instead; the notice's own storage. The site does not change during a visit.

## 3. What is checked

| Run | Shows | Bounds |
| --- | --- | --- |
| `NightQueue` | no call leads to a store that `validateState` rejects (`StoreValid`); nobody overtakes (`HeadOfLine`); only the last claimant records an outcome (`OutcomeByLastClaim`); only stale claims are taken away (`OnlyStaleClaimsEnd`); it implements `SerialQueue` (`ImplementsSerialQueue`); every submitted batch ends (`EverySubmissionSettles`) when one of two services keeps being restarted and the other may do anything | 2 batches, 2 services, lease 2, expiry 2, readings up to 1 unit old |
| `StoreLock` | until a live process's marker is moved aside: one callback at a time (`MutualExclusion`), no revision lost (`NoLostUpdate`), the owner record of a live process is unlinked by that process only (`RemovedByOwner`) | one process died with the lock, one with the marker; 3 live ones, 2 calls each, 2 directories each |
| `ThreadBroker` | at most one thread and one turn (`StartedOnce`), neither forgotten (`StartsRemembered`), without a change of the store that validation rejects (`StoreLoads`); a reservation is its living owner's alone (`OwnersOwn`); no more places are taken than the limit allows (`Capacity`) | 1 worker beside any others, 4 processes, room for 2 |
| `Execution` | dependencies first (`DependenciesFirst`), no two overlapping plans at once (`OverlapsSerialized`), PUBLISHABLE only of finished work (`PublishableIsDone`), one pass over one task graph (`ImplementsTaskGraph`), every execution ends (`EveryExecutionEnds`) | 3 tasks, 2 bundles, 2 services, 2 claims, 2 workers at once |
| `Publishing` | what is merged is the head a recorded review approved, for one task of a base at most (`MergedAsReviewed`), what is pushed was validated (`PushedWasValidated`), corrections answer a review each and stay within the limit (`CorrectionsEarned`) | 2 callers, 1 task with 3 role batches or 2 tasks with one review each; 2 heads, 2 cycles |
| `Controller` | `ApprovalsEarned`, `OneHolder`, `Exclusive`, `AdmittedOnce`, `FencedOut`, `PublishesReviewed` and `TypeOK` with the correction limit | 3 runs; 1 task with 2 commits and 1 correction, or 5 tasks (2 in conflict, 2 free, one the pilot's) and 2 wakeups or ticks before the last; quota 2, the pilot's ceiling 1 |
| `ControllerJournal` | the journal replays and the state file is never ahead of it (`JournalReplays`), no recorded grant is gone (`RotatedGrantsKept`), no rotation is half done (`RotationsWhole`), it implements `PilotLedger` (`ImplementsPilotLedger`), every call ends (`EveryCallEnds`) | 2 processes, 3 authorizations, 3 grants |
| `Website` | a picked language holds (`PickHolds`), the proxy sends a navigation on once, or twice where rule 1 uncovers a hidden prefix, and no chain is longer (`RedirectsEnd`), every claimed address is served in place and whole in its language (`ClaimsHonoured`) | 4 languages, 1 retired; 19 addresses, 2 pages, 1 background request; 2 body fields, any record, alone or beside a signed one |

The type invariants of `NightQueue`, `Execution`, `ControllerJournal` and
`Publishing` are proved for all constants (section 4) and not checked again.

Why these bounds suffice for the interesting cases. Two services and two
batches are what overtaking, a claim taken over and an outcome reported late
need; with lease 2 and lag 1 a lease can be renewed in time, just in time with
an old reading, and too late, and with expiry 2 a batch can expire while queued
and while claimed, be claimed again after its lease and be reported late by
the first claimant. The safety properties are proved for any lease and expiry. Three live processes are a recoverer, a second recoverer and
a new owner, and two calls let each be both; with both directories left behind
every path through both recoveries is taken, the one that breaks them included. Four processes let a
worker be left, retried, left and retried again while a last one looks on;
workers share nothing but the limit, so one is checked beside a number of places
that others take and leave. Three tasks are one that waits for another and one
that shares its files; the second bundle turns the dependency around, so that
working along the wrong bundle breaks `DependenciesFirst`; two claims by two
services give executions beside each other, after each other and after a crash.
In `Publishing` one task lets two callers meet in drafting, reviewing,
correcting and merging the same pull request, with a review, a correction and a
further review; two tasks let one merge move main under the other. Three runs
of the controller are implementation, review and a third that is a correction, a
second review or a publisher, and starting a task at a signed review saves the
first of them. Of the five tasks two conflict, so that the lock check alone
refuses the second of them; two are free, so that with one of the former they are
three that only the quota keeps from being leased at once; and the pilot's ceiling
decides between the pilot and everybody. Three grants are two rotations in a row; three authorizations are
an enable, a retirement and a rotation, or one act repeated with a used one.
Four languages are English, one with copy everywhere and two that need records,
so that a visitor can leave one prefixed language for another; the addresses
hold every rule of the policy and the combinations of two that a redirect could
carry on. Cookies outlive a visit, so a run of any length meets all of them.

The constants `MaxCalls`, `MaxDraws`, `MaxWakeups`, `MaxRuns`, `MaxPilots`,
`MaxCommits`, `MaxClaims`, `MaxHeads`, `MaxRoles`, `MaxGrants` and `MaxBackground` bound counters
that the code lets grow; they stand in guards and are not part of the code. The
`CONSTRAINT`s of the MC modules leave out combinations of independent things:

* `OneOrAll` (`MCController`): what becomes of one reviewed task, activated for
  good, or what admission does with five tasks whose HEAD stays, not both in one behaviour;
* `Bounds` (`MCPublishing`): one task with all operations, or two tasks with
  fewer;
* `InOrder` (`MCControllerJournal`): one of the two processes dispatches and
  rotates only, authorizations are taken in order, the last grant is the first
  process's. At its border a call can still fail or die inside, so it hides no
  call that hangs;
* `VisitsOneSite` (`MCWebsite`): no action reads the deployed site, so visits are
  explored on one of them and `ClaimsHonoured` is checked of each.

Deadlock is checked except where the system may really stop: processes only ever
die or have a bounded number of calls (`StoreLock*`, `ThreadBroker*`), the batch
is over and its claims are used up (`Execution`), everything is merged or no
evidence can be had any more (`Publishing`), the journal is torn for good
(`ControllerJournal`). Symmetry is used with safety properties only.

### Fairness

`NightQueue` assumes: time passes (`WF` of `Tick`); a queue call ends
(`WF` of `EndCall`: `mutate` is synchronous and waits a bounded time for the
lock); and, of one service only, that it keeps polling and is started again
after it stopped (`WF` of `Poll` and `Restart`: the loop of `serve`, a process
manager) and that its handlers finish (`SF` of `HandlerDone`: a heartbeat tick
takes the service out of the handler's place again and again, as a timer takes
the event loop, so weak fairness would not do; turns have a fixed timeout,
`agent-runner.mjs:219-252`). The steady service also never meets a lock error:
one is enough to stop it. Nothing is assumed of the other service. The model is
then finite without a bound on the clock, because times are relative.

`Execution` and `ControllerJournal` assume only `WF` of each process's own
`Step`: a process that is neither dead nor finished goes on. In `Execution` that
contains no turn of the App Server: `Step` has `GiveUp`, because every wait has a
timeout (`agent-runner.mjs:219-252`). In `ControllerJournal` it contains no
release by anybody else: a call that waits for an orphaned mutex times out
(`controller-state-engine.mjs:73-104`). Deaths, lapses, clocks, humans and the
App Server are under no fairness anywhere.

### Where code and documents differ

Each of these is a run that TLC finds violated by what the code does:

* `StoreLockRace` - a dead process left the recovery marker as well. Its
  reclaim (`runtime-store.mjs:853-900`) reads the marker, checks its owner and
  then renames whatever is at the path, so it can move a live recoverer's marker
  aside; two recoveries run at once and one of them unlinks the `owner.json` of
  a new, live owner, after which two callbacks may overlap. The worklog says a lock is removed only after its owner is
  proved dead.
* `ThreadBrokerResume` - a retry after the thread was mapped and before
  `turn/start` is promised to resume the thread; at the limit, `reserveWorker`
  counts the worker's own mapping and refuses it.
* `ControllerExpiry` - `completeRun` gets the clock reading with which
  `runCodexExec` began, so a run whose lease expired meanwhile still succeeds.
* `ControllerCorrections` - three correction cycles are the documented maximum,
  but an owner dispatched in phase CORRECT may complete without
  `planCorrection`, which is where cycles are counted and limited.

Met while modelling, kept in the model where it has the state for it, with no
run of its own:

* `service.mjs:64-70` passes its handler `batch`, `batch_id` and `owner_token`
  beside `signal` and `heartbeat`; `createExecutionHandler` (`executor.mjs:193`)
  accepts the last two only. Wired together without an adapter every batch would
  fail.
* `planner.mjs:215` reads the planner's turn once, right after starting it: one
  that still runs is refused and the batch fails.
* A batch whose execution returns FAILED is recorded COMPLETED: `runOnce` looks
  only at whether its handler threw (`Record` of `Execution`).
* Two overlapping plans may run at once after all when an execution was left: by
  a crash, a second claim or a wait that timed out while its turn went on
  (`tasks/62-night-worker-execution.md:46-48,127-128` promises they do not).
  `OverlapsSerialized` says so of executions that were not left.
* Evidence names the paths a task changed, not their contents, so it survives
  further commits on the same paths; `PushedWasValidated` holds because every
  operation validates the head it captures. Evidence given while the batch runs
  is void once the batch is COMPLETED, and each correction voids all evidence of
  the batch, for `correction_cycles` is counted per batch.
* Two callers can start two corrections for one review, each counted; a retry
  after an aborted wait starts a second correction worker in the same worktree.
* Role batches stand QUEUED in the queue the service polls: it may claim one,
  and its own caller then cannot record it.
* `markReady` followed by a gate that fails leaves a pull request that is no
  draft any more, and an update of it is refused for good. A lost answer of
  `gh pr create` makes the retry refuse as well. Once one merge moved main, no
  other task planned on the same base can be published.
* Enabling the pilot reads the grant before it has the mutex: after a rotation
  in between, READY names a grant that can be neither dispatched nor retired,
  and READY blocks the next rotation. The ledger stays true, but nothing further
  can be done with it.
* A rotation that was rolled back leaves its archive entry, and the next
  rotation of the same grant is refused because of it.
* The comment on `switchHref` (`site-header.tsx:105-113`) still says that the `/en`
  alias "consolidates permanently"; the policy makes it temporary since a cached
  redirect lost the cookie (`locale-routing.ts:229-237`). With a permanent alias
  `PickHolds` fails at the second click.
* `/de/en/x?_locale=en` takes two answers of the proxy: rule 1 takes off the one
  live prefix (`locale-routing.ts:211-221`), and rule 2 sends `/en/x` on to `/x`.
  The single hop that `englishOwnerOf` is for (`locale-routing.ts:153-156`) holds of
  every address without a live prefix in front of the dead one; `RedirectsEnd`
  names the exception (`HidesPrefix`).
* `/en/de/x` is consolidated onto `/de/x` while the answer records English; the
  page then records German, so nothing remains of it.
* The notice (`locale-suggestion.tsx:103`) does not call `markLocaleChosen` as the
  picker does, so it may offer another language to a visitor who followed it.
* An evidence record takes its English source from the live entity
  (`translation-records.ts:113-125`) and nothing compares `sourceRevision`: an
  approved record stays approved when the English text changes.
* `heartbeatError` (`service.mjs:60`) stays set after later heartbeats succeed; a
  pid given to another process (`runtime-store.mjs:356`) keeps a dead owner
  "alive"; `planCorrection` called twice by one run counts two cycles
  (`correction-engine.mjs:24`); recovery of an expired successful run is refused
  once a sweep cleared `current_run_id` (`lease-engine.mjs:534`).

## 4. What is proved

`NightQueueProofs` proves, for every set of batches and services and every
lease, expiry and lock timeout (`QueueAssumption`: the lease and the expiry are
positive, the timeout a natural number, `NoBatch` is no batch):

* `TypeCorrect`, `StoreAlwaysValid`, `Fifo`, `OutcomesFenced`: `TypeOK`,
  `StoreValid`, `HeadOfLine` and `OutcomeByLastClaim` always hold;
* `StaleClaimsOnly`: every step satisfies `OnlyStaleClaimsEnd`;
* `Refinement`: the store, the clocks and the services implement `SerialQueue`,
  initial state and every step.

They rest on `Invariance`, that `IInv` is invariant. `IInv` adds to these
properties what makes them inductive: a service inside a claim's calls knows
its batch (`JobHeld`); sequence numbers lie below the next one
(`SequencesBelow`), so that a new batch joins behind all others; only a
submitted batch was ever claimed (`ClaimedIfGranted`), so that a new batch does
not owe anything to those before it; and the owner in the store is the one of
the last claim (`OwnerIsLastClaim`), which is what fences a late outcome. The
argument for FIFO: a claim picks the least sequence number among the queued and
unexpired batches after its own sweep, and takes place only when no other
batch is active, so every earlier batch is terminal; terminal states are never
left. There is one lemma per action; the lemmas about the sweep are shared.
For the refinement the line is who waits and, of each that waits, who is ahead of
it (`Queued`, `AheadOf`). A sweep drops the expired from it, and a batch it requeues
is ahead of everybody (`ActiveIsHead`), because `HeadOfLine` leaves no earlier batch
unfinished; a claim takes the batch that nobody is ahead of.

`StoreLockProofs` proves, for any processes, any bounds and whoever died holding the
lock or the marker (`LockAssumption`: the bounds are natural numbers, `NoProc` is no
process, one process did not die with both):

* `TypeCorrect`, `MutualExclusionAlways` and `NoLostUpdateAlways`: `TypeOK`,
  `MutualExclusion` and `NoLostUpdate` always hold;
* `RemovedByOwnerAlways`: every step satisfies `RemovedByOwner`.

`IInv` says of each process that what it decided is right, and stays right, because
the dead stay dead (`Sound`); and, while no live process's marker was moved, that the
paths show what it believes they show (`Held`): in its callback the lock holds its
record, while it removes a lock the marker holds its record, and the lock is still
the dead owner's it read under the marker. Deaths are free: a process may die at any
file operation. A step of one process keeps what the others know (`OthersKeep`)
because it changes a path only when the path is free, its own, or a dead process's.

`ControllerProofs` proves, for any tasks, grants, conflicts and limits
(`ControllerAssumption`: the bounds are natural numbers, quotas positive, conflicts
symmetric, the pilot's task needs an implementation first):

* `TypeCorrect`, `OneHolderAlways`, `ExclusiveAlways`, `AdmittedOnceAlways` and
  `ApprovalsEarnedAlways`: `TypeOK`, `OneHolder`, `Exclusive`, `AdmittedOnce` and
  `ApprovalsEarned` always hold;
* `FencedOutAlways`, `PublishesReviewedAlways`: every step satisfies `FencedOut` and
  `PublishesReviewed`.

`IInv` has three parts that steps disturb separately. `Holders`: a lease and the task
it is for name each other, so a run that lost its lease passes no capability again.
For the quotas, an admission stores the least ceiling among the leases held
(`EffectiveMaximum`), which exists by well-foundedness (`NatMinimum`). `Admissions`:
a wakeup that was used is remembered, and a pilot's tick carries the activation that
admitted its run, so it cannot admit another. `Reviews`: a run that ended is written
no more, so what a review result says of an implementation stays true (`ResultSound`);
a task is in CLOSEOUT only while its stored review approves the implementation it
stands at (`StandsApproved`), for every step that replaces the implementation also
leaves CLOSEOUT.

`ExecutionProofs` proves, for any tasks, bundles, services and limits
(`ExecutionAssumption`: what `validateTaskPlans` leaves of a bundle, that is
symmetric overlaps, distinct positions and no cycle, and that `NoBundle` and
`NoProc` are not values):

* `TypeCorrect`, `DependenciesAlwaysFirst`, `PublishableMeansDone` and
  `OverlapsAlwaysSerialized`: `TypeOK`, `DependenciesFirst`, `PublishableIsDone` and
  `OverlapsSerialized` always hold;
* `Refinement`: the executions implement `TaskGraph`, initial state and every
  step.

`IInv` says, beside types, what an execution may rely on (`Knows`): once past the
planner it works with the accepted bundle, the plans it has active had their
dependencies completed, and what it takes for completed, its verdict included,
is recorded so; and what is recorded (`Recorded`): a turn has a mapping, a mapping
that says COMPLETED has a turn that succeeded, and a mapping was made under a
binding after those of the dependencies were completed. Bindings
are never replaced and ended turns never change, which is why what one execution
saw stays true for another. `OInv` adds, while nothing is forsaken, that every
running turn is attended by the one execution there is and that the plans it has
active do not overlap (`Attended`, `Apart`).

`JournalProofs` proves, for any processes and authorizations and any number of
grants (`JournalAssumption`: `NoProc`, `Orphan` and `NoHuman` are not values, there
is a grant):

* `TypeCorrect`, `JournalAlwaysReplays`, `GrantsAlwaysKept` and
  `RotationsAlwaysWhole`: `TypeOK`, `JournalReplays`, `RotatedGrantsKept` and
  `RotationsWhole` always hold;
* `Refinement`: the files implement `PilotLedger`, initial state and every step.

The argument: only the process that holds the mutex changes the journal, the
state file or the canonical grant (`Calling`), so what a call found stays true
until it lets go, and what a dead one left is what the next holder finds. While a process
rotates, `Rotating` says place by place which of the archive, the histories, the
new grant and the journal are written. Grants are numbered (`Numbered`,
`Granted`), so a fresh one is named by no recorded rotation until its own is
recorded, and undoing an unfinished rotation removes nothing that a finished one
left. The ledger changes with the append to the journal and at no other step.

`PublishingProofs` proves, for any tasks, callers, cycles, commits and role
batches (`PublishingAssumption`: the bounds are natural numbers, `NoTask` is no
task):

* `TypeCorrect`, `PushesValidated`, `MergesReviewed` and
  `CorrectionsAlwaysEarned`: `TypeOK`, `PushedWasValidated`, `MergedAsReviewed`
  and `CorrectionsEarned` always hold.

`IInv` says what a caller may rely on while it waits (`Known`): the head it
captured was validated and is no later than the worktree's (`Captured`); the
review it refers to is of no later head than that (`Refers`), so when
`verifyIndependentReview` finds it to be of the worktree's head, all three are the
same; what it verified is still recorded (`Earned`); and its role batch is its own
(`Owns`, `Distinct`). All of it stays true because heads only grow, validations are
kept and a recorded role batch changes no more (`Grows`). For the limit, the
corrections started and those reserved but not started are together no more than
the cycles counted (`Counted`), whatever is thrown or dies in between. At most one
merge: a merge needs a main that did not move, and moves it.

`WebsiteProofs` proves, for any languages, pages, evidence, addresses typed and
number of background requests (`LocalesDistinct`, `RoutingAssumption`: no language
is two of English, modelled, promotable and retired, `NoLocale` is none;
`EvidenceAssumption`: an entity renders some body field; `VisitAssumption`,
`RegistriesAreSequences`: values that mean nothing are no records, registries are
sequences):

* `TypeCorrect`, `PicksHold`, `RedirectsAlwaysEnd` and `ClaimsAlwaysHonoured`:
  `TypeOK`, `PickHolds`, `RedirectsEnd` and `ClaimsHonoured` always hold.

There is one lemma per rule of `decideRoute` (`Hinted`, `Consolidates`, `Strips`,
`Selects`), of what the answer says. The browser remembers consolidations of
retired prefixes only (`Remembers`), and these lead to addresses that only the
cookie can redirect (`ConsolidatedIsFinal`). Hence `OnItsWay`: what one redirect
leads to is such an address, or a consolidation after a hint that asked for
English; what two lead to is served with the cookie then held, because the first
one recorded the language, and a request that records nothing begins at a plain
address (`Closer`). The navigation carries the address it began with and how many
of its redirects the proxy answered, so `OnItsWay` also says when the second one is
the proxy's: rule 1 was asked for English and left a dead prefix in front, which
means that the address hid it behind a live one (`OwnerIsTheRest`, `HiddenBehind`). `Bound` carries `PickHolds`: while a choice binds, the address
under way leads to it with the cookie sent along (`Leads`), and when the answer
shows the page the cookie says so as well (`LeadsOn`). The claims need no steps: of
two records for one page and language neither is approved (`ApprovedAlone`), and
an approved one covers the whole body or the build stops (`ClaimHolds`).

`ThreadBrokerProofs` proves, for any finite set of workers, any batches and
processes and any limit (`BrokerAssumption`: every worker has a batch, `NoProc` is no
process, the limit is positive):

* `TypeCorrect`, `AtMostOnce`, `NothingForgotten`, `StoreAlwaysLoads` and
  `WithinCapacity`: `TypeOK`, `StartedOnce`, `StartsRemembered`, `StoreLoads` and
  `Capacity` always hold;
* `OwnersAlwaysOwn`: every step satisfies `OwnersOwn`.

`IInv` says of each worker how its mapping and its reservation go together (`Stored`),
and that what was asked of the App Server is remembered and was asked once (`Asked`): a
worker without mapping and reservation has no thread and none on its way; one whose
turn is not recorded and not marked has no turn and none on its way. `Call` says what
a call relies on, place by place: its reservation is its own (`Holds`), before
`thread/start` no thread was asked for (`BeforeThread`), before `turn/start` no turn
(`BeforeTurn`). The argument: a reservation is granted only when it hides nothing
(`Grantable`), for a dead owner's goes to another only if its worker is mapped and
its turn was not marked; so whoever asks is the first to ask. A turn that may exist
(`TurnDoubt`) stays so until it is recorded, which is why a recovery may name a
reservation it read before. The proof also shows that a call which holds a
reservation and reads its thread finds no turn: `recording` is never reached. For the
limit, a place is taken only by `reserveWorker`, which counts (`PlaceGranted`); every
other step leaves or keeps places (`PlacesShrink`).

Only model-checked, and why:

* `EverySubmissionSettles`, `EveryExecutionEnds`, `EveryCallEnds`: liveness is
  beyond the prover.
* `OnlyDeadLocksRemoved`, `MappedWorkerResumes`, `ExpiredRunsStop` and
  `CorrectionsLimited` are false of the code and are the four violated runs.

## 5. What is not modelled

* Of the website everything but language routing and translation evidence: pages,
  components, content and translation tables, one stateless inquiry handler. It is
  by far the largest part of the repository and is rendering and data, where
  nothing is shared or ordered; so the modules here cover the larger part of the
  queue, store, broker, executor, publishing, controller and routing code and a
  small share of the repository's lines.
* Pure validation of documents, signatures, digests and paths
  (`schemas.mjs`, `contract.mjs`, `authority.mjs`, `pilot-security.mjs`, most of
  `validation.mjs`): functions of one input. In the models they pass or end the
  call. Their cases are those of the unit tests; nothing is shared or ordered.
* The text of prompts and logs; git, gh and validation commands, which pass or
  refuse; `allocate` and `remove` of worktrees.
* The supervision of the child process in `run-engine.mjs` (pipes, output limits,
  signals): for the state it is an outcome or an exception.
* The App Server client's handshake and correlation: an id is used once, so an
  answer reaches its request or nobody.
* The Windows branch of the lock; the replacement of a state file itself
  (temporary file, fsync, rename), taken as atomic.

The components and reasons are in `PROJECT.json`.

## 6. Plan

Done: the queue first, for it is what every batch goes through (`SerialQueue`,
`NightQueue`, `NightQueueProofs` with its refinement); the lock below it and the
broker above it (`StoreLock`, `StoreLockProofs`, `ThreadBroker`,
`ThreadBrokerProofs`); the execution of a batch (`TaskGraph`, `Execution`,
`ExecutionProofs`) and its publishing (`Publishing`, `PublishingProofs`); the
controller (`Controller`, `ControllerProofs`) and what its transactions rest on
(`PilotLedger`, `ControllerJournal`, `JournalProofs`); the website's languages
(`LocaleRouting`, `TranslationEvidence`, `Website`, `WebsiteProofs`). Every safety
invariant, action property and refinement that a passing run checks is proved.

Next, in this order:

1. An abstract specification of `Publishing` (one approved head of one task is
   merged) and its refinement.
2. An abstract lock that `StoreLock` implements until a marker is moved, and one
   that `Controller`'s transactions see.
3. As far as it is worth it: the App Server client's life cycle below
   `ThreadBroker`.
