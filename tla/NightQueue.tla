----------------------------- MODULE NightQueue -----------------------------
(***************************************************************************)
(* The Night Worker batch queue: the batches of the RuntimeStore           *)
(* (night-worker/runtime-store.mjs), the FifoQueue that claims them        *)
(* (night-worker/queue.mjs) and the service processes that run them        *)
(* (night-worker/service.mjs).                                             *)
(*                                                                         *)
(* Every queue operation reads its clock BEFORE RuntimeStore.mutate waits  *)
(* for the store lock, so the time it decides with may be up to            *)
(* lock_timeout_ms old.  A call is therefore two steps: one that enters it *)
(* (and reads the clock) and one that runs the mutator.                    *)
(*                                                                         *)
(* Time is kept as what is left of it: ttl[b] is the batch's expires_at    *)
(* and left[b] its claim's lease_expires_at, both relative to now, and     *)
(* lag[s] is the age of the clock reading of the call service s is in.     *)
(* The test `now >= expires_at` of a call is then ttl[b] + lag[s] <= 0.    *)
(* Values below -MaxLag are not told apart by any call and are not kept.   *)
(***************************************************************************)
EXTENDS Integers

CONSTANTS Batches,   \* batches that may be submitted
          Services,  \* service processes (each runs one serve() loop)
          Steady,    \* services that neither crash nor hit a lock error
          NoBatch,   \* active_batch_id === null
          Lease,     \* claim_lease_ms
          Expiry,    \* batch_expiry_ms
          MaxLag     \* lock_timeout_ms: the oldest clock reading in use

ASSUME QueueAssumption ==
    /\ NoBatch \notin Batches
    /\ Steady \subseteq Services
    /\ Lease \in Nat \ {0}
    /\ Expiry \in Nat \ {0}
    /\ MaxLag \in Nat

VARIABLES
    \* the durable runtime state
    state,         \* batch.state; "ABSENT" before submission
    sequence,      \* batch.queue_sequence (0 while absent)
    nextSequence,  \* next_queue_sequence
    active,        \* active_batch_id
    ttl,           \* batch.expires_at - now
    owner,         \* batch.claim.owner_token; 0 when batch.claim is null
    left,          \* batch.claim.lease_expires_at - now
    \* the service processes
    pc,            \* where serve()/runOnce() stands
    job,           \* the batch of the claim runOnce holds
    token,         \* the owner token of that claim
    lag,           \* age of the clock reading of the call in progress
    beatFailed,    \* heartbeatError !== null
    \* observation
    granted,       \* the token of the batch's last claim (makeOwnerToken never
                   \* repeats: the n-th claim of a batch has token n)
    settledBy      \* the token that recorded COMPLETED or FAILED

storeVars   == <<state, sequence, nextSequence, active, ttl, owner, left>>
serviceVars == <<pc, job, token, lag, beatFailed>>
history     == <<granted, settledBy>>
vars        == <<storeVars, serviceVars, history>>

Active   == {"CLAIMED", "RUNNING"}
Terminal == {"COMPLETED", "FAILED", "EXPIRED"}

\* Places of runOnce that are inside a queue call, waiting for the store lock.
Calls == {"claiming", "beginning", "beating", "completing", "failing"}

-----------------------------------------------------------------------------
(* What a mutator decides from the store and its clock reading. *)

\* Mutants, used by no action: a lease over one unit early, a sweep that only
\* looks at running batches, one that leaves active_batch_id alone, a claim of
\* any queued batch, and calls accepted from whoever knows the batch.
LapsedEarly(b, age) == left[b] + age <= 1

Expired(b, age) == ttl[b] + age <= 0
Lapsed(b, age)  == left[b] + age <= 0

SweptRunningOnly(b, age) ==
    IF \/ state[b] = "QUEUED" /\ Expired(b, age)
       \/ state[b] = "RUNNING" /\ Lapsed(b, age) /\ Expired(b, age)
    THEN "EXPIRED"
    ELSE IF state[b] = "RUNNING" /\ Lapsed(b, age) THEN "QUEUED" ELSE state[b]

SweptActiveKept(age) == active

ClaimsAny(b, S) == b \in S

ClaimedByAnyone(b, tok, age) ==
    state[b] \in Active /\ owner[b] # 0 /\ ~Lapsed(b, age) /\ ~Expired(b, age)

\* sweep: the state it leaves batch b in.
Swept(b, age) ==
    IF \/ state[b] = "QUEUED" /\ Expired(b, age)
       \/ state[b] \in Active /\ owner[b] # 0 /\ Lapsed(b, age) /\ Expired(b, age)
    THEN "EXPIRED"
    ELSE IF state[b] \in Active /\ owner[b] # 0 /\ Lapsed(b, age)
    THEN "QUEUED"
    ELSE state[b]

\* sweep: what it leaves in the claim and in active_batch_id.
SweptOwner(b, age) == IF Swept(b, age) = state[b] THEN owner[b] ELSE 0
SweptLeft(b, age)  == IF Swept(b, age) = state[b] THEN left[b] ELSE 0
SweptActive(age)   == IF active \in Batches /\ Swept(active, age) # state[active]
                      THEN NoBatch ELSE active

\* claimNext: the queued batches it may pick, and the one it picks.
Candidates(age) == {b \in Batches : Swept(b, age) = "QUEUED" /\ ~Expired(b, age)}
IsFirst(b, S)   == b \in S /\ \A c \in S : sequence[b] <= sequence[c]

\* claimedBatch: the checks of heartbeat, begin, complete and fail.
Claimed(b, tok, age) ==
    /\ state[b] \in Active
    /\ owner[b] # 0
    /\ owner[b] = tok
    /\ ~Lapsed(b, age)
    /\ ~Expired(b, age)

-----------------------------------------------------------------------------
Init ==
    /\ state = [b \in Batches |-> "ABSENT"]
    /\ sequence = [b \in Batches |-> 0]
    /\ nextSequence = 1
    /\ active = NoBatch
    /\ ttl = [b \in Batches |-> 0]
    /\ owner = [b \in Batches |-> 0]
    /\ left = [b \in Batches |-> 0]
    /\ pc = [s \in Services |-> "polling"]
    /\ job = [s \in Services |-> NoBatch]
    /\ token = [s \in Services |-> 0]
    /\ lag = [s \in Services |-> 0]
    /\ beatFailed = [s \in Services |-> FALSE]
    /\ granted = [b \in Batches |-> 0]
    /\ settledBy = [b \in Batches |-> 0]

\* submitBatch: createBatch reads the clock, enqueueBatch assigns the place.
Submit(b) ==
    /\ state[b] = "ABSENT"
    /\ state' = [state EXCEPT ![b] = "QUEUED"]
    /\ sequence' = [sequence EXCEPT ![b] = nextSequence]
    /\ nextSequence' = nextSequence + 1
    /\ \E age \in 0..MaxLag : ttl' = [ttl EXCEPT ![b] = Expiry - age]
    /\ UNCHANGED <<active, owner, left, serviceVars, history>>

\* What a sweep alone writes.
Sweep(age) ==
    /\ state' = [b \in Batches |-> Swept(b, age)]
    /\ owner' = [b \in Batches |-> SweptOwner(b, age)]
    /\ left' = [b \in Batches |-> SweptLeft(b, age)]
    /\ active' = SweptActive(age)

\* Mutant: a requeued batch goes to the back of the queue.
RequeueStaleAtBack(age) ==
    /\ Sweep(age)
    /\ sequence' = [b \in Batches |->
                       IF state[b] \in Active /\ Swept(b, age) = "QUEUED"
                       THEN nextSequence ELSE sequence[b]]
    /\ nextSequence' = nextSequence + 1
    /\ UNCHANGED <<ttl, serviceVars, history>>

\* requeueStale: a sweep on its own.
RequeueStale(age) ==
    /\ Sweep(age)
    /\ UNCHANGED <<sequence, nextSequence, ttl, serviceVars, history>>

-----------------------------------------------------------------------------
(* The service.  The claim, its token and heartbeatError are locals of       *)
(* runOnce: they are gone once it returned or its process stopped.           *)

Outside == {"polling", "stopped"}

\* Service s moves to p, entering a call if p is one.
Move(s, p, failed) ==
    /\ pc' = [pc EXCEPT ![s] = p]
    /\ lag' = [lag EXCEPT ![s] = 0]
    /\ job' = [job EXCEPT ![s] = IF p \in Outside THEN NoBatch ELSE @]
    /\ token' = [token EXCEPT ![s] = IF p \in Outside THEN 0 ELSE @]
    /\ beatFailed' = [beatFailed EXCEPT ![s] = p \notin Outside /\ failed]

Goto(s, p) == Move(s, p, beatFailed[s])

\* Where an exception thrown by the call in progress takes the service: out of
\* serve() from claimNext, begin and fail, into the catch from complete, and
\* back to the handler from a heartbeat: into heartbeatError if the timer made
\* the call, to the handler itself if it did.
ErrorPc(s) ==
    CASE pc[s] = "completing" -> "failing"
      [] pc[s] = "beating"    -> "handling"
      [] OTHER                -> "stopped"

Throw(s) ==
    \E failed \in {beatFailed[s], beatFailed[s] \/ pc[s] = "beating"} :
        Move(s, ErrorPc(s), failed)

\* The call returns to p, or its lock release throws after the write.
ReturnTo(s, p) == Goto(s, p) \/ (s \notin Steady /\ Throw(s))

Poll(s) ==
    /\ pc[s] = "polling"
    /\ Goto(s, "claiming")
    /\ UNCHANGED <<storeVars, history>>

\* claimNext finds nothing to claim, but its sweep is written.
ClaimNothing(s) ==
    /\ pc[s] = "claiming"
    /\ SweptActive(lag[s]) # NoBatch \/ Candidates(lag[s]) = {}
    /\ Sweep(lag[s])
    /\ ReturnTo(s, "polling")
    /\ UNCHANGED <<sequence, nextSequence, ttl, history>>

\* claimNext claims b; runOnce calls begin in the same turn of the event loop.
ClaimNext(s, b) ==
    /\ pc[s] = "claiming"
    /\ SweptActive(lag[s]) = NoBatch
    /\ IsFirst(b, Candidates(lag[s]))
    /\ state' = [c \in Batches |-> IF c = b THEN "CLAIMED" ELSE Swept(c, lag[s])]
    /\ owner' = [c \in Batches |-> IF c = b THEN granted[b] + 1 ELSE SweptOwner(c, lag[s])]
    /\ left' = [c \in Batches |-> IF c = b THEN Lease - lag[s] ELSE SweptLeft(c, lag[s])]
    /\ active' = b
    /\ granted' = [granted EXCEPT ![b] = granted[b] + 1]
    /\ \/ /\ pc' = [pc EXCEPT ![s] = "beginning"]
          /\ lag' = [lag EXCEPT ![s] = 0]
          /\ job' = [job EXCEPT ![s] = b]
          /\ token' = [token EXCEPT ![s] = granted[b] + 1]
          /\ UNCHANGED beatFailed
       \/ s \notin Steady /\ Throw(s)
    /\ UNCHANGED <<sequence, nextSequence, ttl, settledBy>>

Begin(s) ==
    /\ pc[s] = "beginning"
    /\ Claimed(job[s], token[s], lag[s])
    /\ state' = [state EXCEPT ![job[s]] = "RUNNING"]
    /\ ReturnTo(s, "handling")
    /\ UNCHANGED <<sequence, nextSequence, active, ttl, owner, left, history>>

\* The heartbeat timer fires, or the handler calls its heartbeat.
StartBeat(s) ==
    /\ pc[s] = "handling"
    /\ Goto(s, "beating")
    /\ UNCHANGED <<storeVars, history>>

Heartbeat(s) ==
    /\ pc[s] = "beating"
    /\ Claimed(job[s], token[s], lag[s])
    /\ left' = [left EXCEPT ![job[s]] = Lease - lag[s]]
    /\ ReturnTo(s, "handling")
    /\ UNCHANGED <<state, sequence, nextSequence, active, ttl, owner, history>>

\* The handler's promise settles: complete if it resolved and no heartbeat
\* failed, otherwise fail.
HandlerDone(s) ==
    /\ pc[s] = "handling"
    /\ \E resolved \in BOOLEAN :
          Goto(s, IF resolved /\ ~beatFailed[s] THEN "completing" ELSE "failing")
    /\ UNCHANGED <<storeVars, history>>

\* complete and fail: the outcome is recorded and the claim cleared.
Settle(s, call, outcome) ==
    /\ pc[s] = call
    /\ Claimed(job[s], token[s], lag[s])
    /\ state' = [state EXCEPT ![job[s]] = outcome]
    /\ owner' = [owner EXCEPT ![job[s]] = 0]
    /\ left' = [left EXCEPT ![job[s]] = 0]
    /\ active' = IF active = job[s] THEN NoBatch ELSE active
    /\ settledBy' = [settledBy EXCEPT ![job[s]] = token[s]]
    /\ ReturnTo(s, "polling")
    /\ UNCHANGED <<sequence, nextSequence, ttl, granted>>

Complete(s) == Settle(s, "completing", "COMPLETED")
Fail(s)     == Settle(s, "failing", "FAILED")

\* claimedBatch refuses the call of a service that lost its claim.
Refused(s) ==
    /\ pc[s] \in Calls \ {"claiming"}
    /\ ~Claimed(job[s], token[s], lag[s])
    /\ Throw(s)
    /\ UNCHANGED <<storeVars, history>>

\* "Runtime store is busy", or any other error before the write.
Busy(s) ==
    /\ s \notin Steady
    /\ pc[s] \in Calls
    /\ Throw(s)
    /\ UNCHANGED <<storeVars, history>>

\* The process dies; whether its mutation was written is the choice between
\* this step before or after the one that runs the mutator.
Crash(s) ==
    /\ s \notin Steady
    /\ pc[s] # "stopped"
    /\ Goto(s, "stopped")
    /\ UNCHANGED <<storeVars, history>>

Restart(s) ==
    /\ pc[s] = "stopped"
    /\ Goto(s, "polling")
    /\ UNCHANGED <<storeVars, history>>

-----------------------------------------------------------------------------
(* Time.  It does not pass a call beyond its lock timeout. *)

Older(t) == IF t > -MaxLag THEN t - 1 ELSE t

Tick ==
    /\ \A s \in Services : pc[s] \in Calls => lag[s] < MaxLag
    /\ ttl' = [b \in Batches |-> Older(ttl[b])]
    /\ left' = [b \in Batches |-> IF owner[b] = 0 THEN left[b] ELSE Older(left[b])]
    /\ lag' = [s \in Services |-> IF pc[s] \in Calls THEN lag[s] + 1 ELSE lag[s]]
    /\ UNCHANGED <<state, sequence, nextSequence, active, owner, pc, job, token,
                   beatFailed, history>>

\* The call service s is in ends.
EndCall(s) ==
    \/ ClaimNothing(s)
    \/ \E b \in Batches : ClaimNext(s, b)
    \/ Begin(s) \/ Heartbeat(s) \/ Complete(s) \/ Fail(s)
    \/ Refused(s) \/ Busy(s)

Next ==
    \/ \E b \in Batches : Submit(b)
    \/ \E age \in 0..MaxLag : RequeueStale(age)
    \/ \E s \in Services :
          Poll(s) \/ EndCall(s) \/ StartBeat(s) \/ HandlerDone(s)
             \/ Crash(s) \/ Restart(s)
    \/ Tick

Spec == Init /\ [][Next]_vars

\* Time passes, a call ends (mutate is synchronous and its lock wait bounded)
\* and a steady service keeps polling, finishes its handlers and is started
\* again.  Nothing is assumed of the other services' handlers and restarts.
Fairness ==
    /\ WF_vars(Tick)
    /\ \A s \in Services : WF_vars(EndCall(s))
    /\ \A s \in Steady : WF_vars(Poll(s)) /\ WF_vars(Restart(s)) /\ SF_vars(HandlerDone(s))

FairSpec == Spec /\ Fairness

-----------------------------------------------------------------------------
(* Properties. *)

StoreType ==
    /\ state \in [Batches -> {"ABSENT", "QUEUED"} \cup Active \cup Terminal]
    /\ sequence \in [Batches -> Nat]
    /\ nextSequence \in Nat \ {0}
    /\ active \in Batches \cup {NoBatch}
    /\ ttl \in [Batches -> (-MaxLag)..Expiry]
    /\ owner \in [Batches -> Nat]
    /\ left \in [Batches -> (-MaxLag)..Lease]

ServiceType ==
    /\ pc \in [Services -> Outside \cup {"handling"} \cup Calls]
    /\ job \in [Services -> Batches \cup {NoBatch}]
    /\ token \in [Services -> Nat]
    /\ lag \in [Services -> 0..MaxLag]
    /\ beatFailed \in [Services -> BOOLEAN]

\* Every variable keeps its type; a reading is never older than MaxLag.
TypeOK ==
    /\ StoreType
    /\ ServiceType
    /\ granted \in [Batches -> Nat]
    /\ settledBy \in [Batches -> Nat]

\* No sequence of queue operations, whatever the age of the clock readings
\* they decide with, leaves a store that validateState would reject: one
\* active batch at most, named by active_batch_id, a claim exactly on it, and
\* no queue_sequence given twice.  (mutate validates what it is about to write,
\* runtime-store.mjs:453-463: a call that led to such a store would throw, now and
\* each time it is tried again, and what happened would never be recorded.)
StoreValid ==
    /\ \A b \in Batches : state[b] \in Active <=> active = b
    /\ \A b \in Batches : owner[b] # 0 <=> state[b] \in Active
    /\ \A b \in Batches : state[b] = "ABSENT" <=> sequence[b] = 0
    /\ \A b, c \in Batches :
          sequence[b] = sequence[c] /\ sequence[b] # 0 => b = c

\* FIFO (tasks/61-night-worker-runtime.md:35): a batch is first claimed only
\* when every batch submitted before it has ended, and requeueing never lets
\* a later batch past an earlier one.
HeadOfLine ==
    \A b, c \in Batches :
        /\ granted[b] # 0
        /\ sequence[c] \in 1..(sequence[b] - 1)
        => state[c] \in Terminal

\* A service whose claim was requeued and given to another can never record
\* the batch's outcome: COMPLETED and FAILED are written by the owner of the
\* last claim.
OutcomeByLastClaim ==
    \A b \in Batches :
        state[b] \in {"COMPLETED", "FAILED"} => settledBy[b] = granted[b]

\* Only a stale claim is taken away (tasks/61-night-worker-runtime.md:64 "only
\* stale claims can be requeued"): a claim that ends without its owner
\* recording an outcome had a lease that was over.
OnlyStaleClaimsEnd ==
    [][\A b \in Batches :
          owner[b] # 0 /\ owner'[b] # owner[b]
          => \/ left[b] <= 0
             \/ settledBy'[b] = owner[b]]_vars

\* The queued batches are the line, ordered by their sequence numbers, and the
\* active one is being served.
Queued     == {b \in Batches : state[b] = "QUEUED"}
AheadOf(b) == IF b \in Queued THEN {c \in Queued : sequence[c] < sequence[b]} ELSE {}
Outcome(b) == IF state[b] \in Terminal THEN state[b] ELSE "NONE"

Serial == INSTANCE SerialQueue WITH
    waiting <- Queued,
    ahead   <- [b \in Batches |-> AheadOf(b)],
    serving <- active,
    outcome <- [b \in Batches |-> Outcome(b)]

\* The store, the clocks and the services together implement one serial queue
\* (night-worker/queue.mjs, tasks/61-night-worker-runtime.md:35 "claims batches
\* FIFO, processes one batch at a time").
ImplementsSerialQueue == Serial!Spec

\* With one service that keeps being started again, every accepted batch
\* ends, whatever the other services do, crash or leave behind.
EverySubmissionSettles ==
    \A b \in Batches : state[b] # "ABSENT" ~> state[b] \in Terminal
=============================================================================
