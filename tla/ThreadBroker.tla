---------------------------- MODULE ThreadBroker ----------------------------
(***************************************************************************)
(* The Thread Broker (night-worker/thread-broker.mjs): how a process turns *)
(* a durable worker - one task of one batch in the IMPLEMENTATION role -   *)
(* into one Codex thread and one turn, over worker mappings and            *)
(* reservations kept in the RuntimeStore (night-worker/runtime-store.mjs)  *)
(* and an App Server that may be slow, silent or gone.                     *)
(*                                                                         *)
(* A process is one pid; it runs at most one start per worker (the         *)
(* broker's inflight map), so the owner token of a reservation is named by *)
(* the process that drew it.  Processes only ever die: a restart is        *)
(* another process.  Store calls that throw either wrote nothing (the      *)
(* store was busy) or wrote first (the lock's release threw).              *)
(***************************************************************************)
EXTENDS Integers, FiniteSets

CONSTANTS Workers,  \* durable workers: (batch, task) pairs, role IMPLEMENTATION
          Batches,  \* batches
          BatchOf,  \* the batch of a worker
          Procs,    \* processes
          NoProc,
          Limit     \* max_parallel_implementation_workers

ASSUME BrokerAssumption ==
    /\ BatchOf \in [Workers -> Batches]
    /\ NoProc \notin Procs
    /\ Limit \in Nat \ {0}
    /\ IsFiniteSet(Workers)

VARIABLES
    \* the runtime store
    mapping,    \* lifecycle_state of the worker mapping, "NONE" without one
    turned,     \* mapping.turn_id is set
    owner,      \* reservation.owner_token, NoProc without a reservation
    startState, \* reservation.thread_start_state
    turnState,  \* reservation.turn_start_state
    closed,     \* batches no longer QUEUED, CLAIMED or RUNNING
    others,     \* places taken by further workers, of which nothing else matters
    \* the processes
    alive,
    pc,         \* where the start of worker w stands in process p
    knows,      \* whether that call's `mapping` local has a thread_id
    \* the App Server
    request,    \* the request a call waits for: none, sent or answered
    late,       \* requests whose caller gave up, still to be carried out
    threads,    \* threads it created for each worker
    turns       \* turns it started for each worker

storeVars  == <<mapping, turned, owner, startState, turnState, closed, others>>
serverVars == <<request, late, threads, turns>>
vars       == <<storeVars, alive, pc, knows, serverVars>>

Terminal == {"COMPLETED", "FAILED"}
Active   == {"THREAD_STARTED", "TURN_STARTED"}
Calls    == Procs \X Workers

Init ==
    /\ mapping = [w \in Workers |-> "NONE"]
    /\ turned = [w \in Workers |-> FALSE]
    /\ owner = [w \in Workers |-> NoProc]
    /\ startState = [w \in Workers |-> "THREAD_START_IN_FLIGHT"]
    /\ turnState = [w \in Workers |-> "TURN_START_NOT_STARTED"]
    /\ closed = {}
    /\ others = 0
    /\ alive = [p \in Procs |-> TRUE]
    /\ pc = [c \in Calls |-> "idle"]
    /\ knows = [c \in Calls |-> FALSE]
    /\ request = [c \in Calls |-> "none"]
    /\ late = [w \in Workers |-> {}]
    /\ threads = [w \in Workers |-> 0]
    /\ turns = [w \in Workers |-> 0]

-----------------------------------------------------------------------------
(* reserveWorker. *)

\* Mutants stand before what they change.  Only mapped workers take a place.
PlacedMapped == {w \in Workers : mapping[w] \in Active}

\* Workers that take a place: an unfinished mapping, or a reservation.
Placed == {w \in Workers : mapping[w] \in Active \/ owner[w] # NoProc}

\* Places taken over all processes and batches.
PlacesTaken == Cardinality(Placed) + others

OwnerDead(w) == owner[w] # NoProc /\ ~alive[owner[w]]

\* Mutant: a dead owner's thread/start is taken to have done nothing.
AmbiguousTurns(w) == owner[w] # NoProc /\ turnState[w] # "TURN_START_NOT_STARTED"

\* The reservation may hide a thread or a turn nobody recorded: it is left for
\* a human, or for the reconciliation of the turn.
Ambiguous(w) ==
    /\ owner[w] # NoProc
    /\ \/ turnState[w] = "TURN_START_AMBIGUOUS"
       \/ turnState[w] = "TURN_START_IN_FLIGHT" /\ OwnerDead(w)
       \/ /\ turnState[w] = "TURN_START_NOT_STARTED"
          /\ \/ startState[w] = "THREAD_START_AMBIGUOUS"
             \/ startState[w] = "THREAD_START_IN_FLIGHT" /\ mapping[w] = "NONE" /\ OwnerDead(w)
             \/ startState[w] = "LIFECYCLE_ACTIVE" /\ mapping[w] = "NONE"

\* Mutant: a mapped worker is up for grabs.
BusyUnmapped(w) == owner[w] # NoProc /\ ~OwnerDead(w) /\ mapping[w] = "NONE"

Busy(w) == owner[w] # NoProc /\ ~Ambiguous(w) /\ ~OwnerDead(w)

\* What reserveWorker answers an owner that holds no reservation of w yet.
\* Only a dead owner's reservation of a mapped worker is taken over; it is gone
\* when the places are counted, but the mapping still takes one.
ReserveAnswer(w) ==
    CASE BatchOf[w] \in closed -> "CLOSED"
      [] BatchOf[w] \notin closed /\ turned[w] -> "MAPPED"
      [] OTHER -> IF Ambiguous(w) THEN "AMBIGUOUS"
                  ELSE IF Busy(w) THEN "BUSY"
                  ELSE IF PlacesTaken >= Limit THEN "LIMIT"
                  ELSE "RESERVED"

-----------------------------------------------------------------------------
(* One call of startImplementation. *)

At(p, w, here) == alive[p] /\ pc[<<p, w>>] = here

Goto(p, w, there) == pc' = [pc EXCEPT ![<<p, w>>] = there]

\* How a store call ends: done, refused before the write, or written and then
\* thrown.
Outcomes == {"done", "refused", "thrown"}

\* Places of one call of the broker.
Places == {"idle", "reserving", "validating", "starting", "reading", "resuming", "marking",
           "turning", "recording", "release", "threadAmbiguous", "turnAmbiguous",
           "recovering", "recovered", "awaiting"}

\* Places of #startOnce that a failed step is cleaned up at (the catch block).
Cleanup == {"release", "threadAmbiguous", "turnAmbiguous"}

\* The reads of the mapping and of the reservation before reserveWorker.  What
\* another process writes between the two only ends the call, or is seen by
\* reserveWorker.
Start(p, w) ==
    /\ At(p, w, "idle")
    /\ \/ turned[w] /\ mapping[w] = "TURN_STARTED" /\ Goto(p, w, "awaiting")
                    /\ UNCHANGED knows
       \/ /\ ~turned[w]
          /\ knows' = [knows EXCEPT ![<<p, w>>] = mapping[w] # "NONE"]
          /\ Goto(p, w, IF owner[w] # NoProc /\ turnState[w] = "TURN_START_AMBIGUOUS"
                        THEN "recovering" ELSE "reserving")
    /\ UNCHANGED <<storeVars, alive, serverVars>>

\* The call throws, or returns a worker that has ended.
End(p, w) ==
    /\ Goto(p, w, "idle")
    /\ knows' = [knows EXCEPT ![<<p, w>>] = FALSE]

\* The reservation reserveWorker pushes.
Held(p, w) ==
    /\ owner' = [owner EXCEPT ![w] = p]
    /\ startState' = [startState EXCEPT ![w] =
          IF mapping[w] # "NONE" THEN "LIFECYCLE_ACTIVE" ELSE "THREAD_START_IN_FLIGHT"]
    /\ turnState' = [turnState EXCEPT ![w] = "TURN_START_NOT_STARTED"]

Reserve(p, w) ==
    /\ At(p, w, "reserving")
    /\ LET answer == ReserveAnswer(w) IN
       \/ /\ answer = "RESERVED"
          /\ Held(p, w)
          /\ knows' = [knows EXCEPT ![<<p, w>>] = mapping[w] # "NONE"]
          /\ Goto(p, w, "validating")
       \/ \* written, then thrown: the token is lost with the call
          /\ answer = "RESERVED"
          /\ Held(p, w)
          /\ End(p, w)
       \/ /\ answer = "AMBIGUOUS" /\ knows[<<p, w>>]
          /\ turnState[w] # "TURN_START_NOT_STARTED"
          /\ Goto(p, w, "recovering")
          /\ UNCHANGED <<knows, owner, startState, turnState>>
       \/ /\ answer = "MAPPED" /\ mapping[w] = "TURN_STARTED"
          /\ Goto(p, w, "awaiting")
          /\ UNCHANGED <<knows, owner, startState, turnState>>
       \/ \* BUSY, the refusals, and reserveWorker failing
          /\ ~(answer = "AMBIGUOUS" /\ knows[<<p, w>>] /\ turnState[w] # "TURN_START_NOT_STARTED")
          /\ ~(answer = "MAPPED" /\ mapping[w] = "TURN_STARTED")
          /\ End(p, w)
          /\ UNCHANGED <<owner, startState, turnState>>
    /\ UNCHANGED <<mapping, turned, closed, others, alive, serverVars>>

\* An await or a store read fails before any start was sent: the reservation
\* is given up.
Abandon(p, w) ==
    /\ \E here \in {"validating", "reading", "resuming", "marking"} : At(p, w, here)
    /\ Goto(p, w, "release")
    /\ UNCHANGED <<storeVars, alive, knows, serverVars>>

\* model/list succeeds: thread/start is sent, or the mapped thread is read.
Validate(p, w) ==
    /\ At(p, w, "validating")
    /\ owner[w] = p
    /\ \/ /\ ~knows[<<p, w>>]
          /\ request' = [request EXCEPT ![<<p, w>>] = "sent"]
          /\ Goto(p, w, "starting")
       \/ knows[<<p, w>>] /\ Goto(p, w, "reading") /\ UNCHANGED request
    /\ UNCHANGED <<storeVars, alive, knows, late, threads, turns>>

\* thread/start is answered: the mapping is put before anything else is sent.
PutMapping(p, w) ==
    /\ At(p, w, "starting")
    /\ request[<<p, w>>] = "answered"
    /\ request' = [request EXCEPT ![<<p, w>>] = "none"]
    /\ \E outcome \in Outcomes :
          /\ IF outcome # "refused" /\ owner[w] = p
             THEN /\ mapping' = [mapping EXCEPT ![w] = "THREAD_STARTED"]
                  /\ startState' = [startState EXCEPT ![w] = "LIFECYCLE_ACTIVE"]
             ELSE UNCHANGED <<mapping, startState>>
          /\ Goto(p, w, IF outcome = "done" /\ owner[w] = p THEN "marking" ELSE "threadAmbiguous")
    /\ UNCHANGED <<turned, owner, turnState, closed, others, alive, knows, late, threads, turns>>

\* A request's caller gives up: the request is carried out later or never.
GiveUp(p, w, kind) ==
    /\ late' = [late EXCEPT ![w] = IF request[<<p, w>>] = "sent" THEN @ \cup {kind} ELSE @]
    /\ request' = [request EXCEPT ![<<p, w>>] = "none"]

StartThrows(p, w) ==
    /\ At(p, w, "starting")
    /\ GiveUp(p, w, "thread")
    /\ Goto(p, w, "threadAmbiguous")
    /\ UNCHANGED <<storeVars, alive, knows, threads, turns>>

\* thread/read of a mapped worker under its reservation: the turn it finds is
\* recorded, without one the thread is resumed.
ReadThread(p, w) ==
    /\ At(p, w, "reading")
    /\ \/ turns[w] = 0 /\ Goto(p, w, "resuming")
       \/ turns[w] = 1 /\ Goto(p, w, "recording")
       \/ turns[w] > 1 /\ Goto(p, w, "release")
    /\ UNCHANGED <<storeVars, alive, knows, serverVars>>

Resume(p, w) ==
    /\ At(p, w, "resuming")
    /\ Goto(p, w, "marking")
    /\ UNCHANGED <<storeVars, alive, knows, serverVars>>

\* The turn is marked in flight, then turn/start is sent.
MarkInFlight(p, w) ==
    /\ At(p, w, "marking")
    /\ owner[w] = p
    /\ startState[w] = "LIFECYCLE_ACTIVE"
    /\ turnState[w] = "TURN_START_NOT_STARTED"
    /\ turnState' = [turnState EXCEPT ![w] = "TURN_START_IN_FLIGHT"]
    /\ \/ request' = [request EXCEPT ![<<p, w>>] = "sent"] /\ Goto(p, w, "turning")
       \/ Goto(p, w, "release") /\ UNCHANGED request
    /\ UNCHANGED <<mapping, turned, owner, startState, closed, others, alive, knows, late, threads,
                   turns>>

\* Mutants: the reservation stays; the mapping gets the reservation's state.
RecordTurnReserved(w, holder) ==
    /\ owner[w] = holder
    /\ mapping' = [mapping EXCEPT ![w] = "TURN_STARTED"]
    /\ turned' = [turned EXCEPT ![w] = TRUE]
    /\ UNCHANGED <<owner, startState, turnState, closed, others>>

RecordTurnInFlight(w, holder) ==
    /\ owner[w] = holder
    /\ mapping' = [mapping EXCEPT ![w] = "TURN_START_IN_FLIGHT"]
    /\ turned' = [turned EXCEPT ![w] = TRUE]
    /\ owner' = [owner EXCEPT ![w] = NoProc]
    /\ UNCHANGED <<startState, turnState, closed, others>>

\* patchWorkerMapping with a turn id and the token of `holder`: the turn is
\* recorded and the reservation gone.
RecordTurn(w, holder) ==
    /\ owner[w] = holder
    /\ mapping' = [mapping EXCEPT ![w] = "TURN_STARTED"]
    /\ turned' = [turned EXCEPT ![w] = TRUE]
    /\ owner' = [owner EXCEPT ![w] = NoProc]
    /\ UNCHANGED <<startState, turnState, closed, others>>

\* turn/start is answered, or thread/read under the reservation found a turn.
PatchTurn(p, w) ==
    /\ \/ /\ At(p, w, "turning") /\ request[<<p, w>>] = "answered"
          /\ request' = [request EXCEPT ![<<p, w>>] = "none"]
       \/ At(p, w, "recording") /\ UNCHANGED request
    /\ LET catch == IF pc[<<p, w>>] = "turning" THEN "turnAmbiguous" ELSE "release" IN
       \/ RecordTurn(w, p) /\ \E there \in {"awaiting", catch} : Goto(p, w, there)
       \/ Goto(p, w, catch) /\ UNCHANGED storeVars
    /\ UNCHANGED <<alive, knows, late, threads, turns>>

\* Mutant: a turn/start that failed is taken to have started nothing.
TurnThrowsReleased(p, w) ==
    /\ At(p, w, "turning")
    /\ GiveUp(p, w, "turn")
    /\ Goto(p, w, "release")
    /\ UNCHANGED <<storeVars, alive, knows, threads, turns>>

TurnThrows(p, w) ==
    /\ At(p, w, "turning")
    /\ GiveUp(p, w, "turn")
    /\ Goto(p, w, "turnAmbiguous")
    /\ UNCHANGED <<storeVars, alive, knows, threads, turns>>

\* The catch block: mark the start ambiguous or release the reservation.  The
\* store call may itself fail, with nothing written, and is not repeated.
CleanUp(p, w) ==
    /\ \E here \in Cleanup : At(p, w, here)
    /\ End(p, w)
    /\ \/ UNCHANGED <<owner, startState, turnState>>
       \/ /\ owner[w] = p
          /\ CASE pc[<<p, w>>] = "release" ->
                    owner' = [owner EXCEPT ![w] = NoProc] /\ UNCHANGED <<startState, turnState>>
               [] pc[<<p, w>>] = "threadAmbiguous" ->
                    /\ startState' = [startState EXCEPT ![w] = "THREAD_START_AMBIGUOUS"]
                    /\ UNCHANGED <<owner, turnState>>
               [] OTHER ->
                    /\ turnState[w] \in {"TURN_START_IN_FLIGHT", "TURN_START_AMBIGUOUS"}
                    /\ turnState' = [turnState EXCEPT ![w] = "TURN_START_AMBIGUOUS"]
                    /\ UNCHANGED <<owner, startState>>
    /\ UNCHANGED <<mapping, turned, closed, others, alive, serverVars>>

\* recoverAmbiguousTurn: thread/read, and record the turn it finds.
Recover(p, w) ==
    /\ At(p, w, "recovering")
    /\ \/ turns[w] = 1 /\ Goto(p, w, "recovered") /\ UNCHANGED knows
       \/ End(p, w)
    /\ UNCHANGED <<storeVars, alive, serverVars>>

\* The reservation is named by the owner the call read it with; it has not
\* changed hands, for an ambiguous turn is never reserved again.
RecordRecovered(p, w) ==
    /\ At(p, w, "recovered")
    /\ \/ /\ owner[w] # NoProc
          /\ RecordTurn(w, owner[w])
          /\ \/ Goto(p, w, "awaiting") /\ UNCHANGED knows
             \/ End(p, w)
       \/ End(p, w) /\ UNCHANGED storeVars
    /\ UNCHANGED <<alive, serverVars>>

\* awaitImplementationCompletion: the turn ended, or the wait was given up.
Await(p, w) ==
    /\ At(p, w, "awaiting")
    /\ End(p, w)
    /\ \/ \E end \in Terminal : /\ mapping[w] \in {"TURN_STARTED", end}  \* a turn ends one way
                              /\ mapping' = [mapping EXCEPT ![w] = end]
       \/ UNCHANGED mapping
    /\ UNCHANGED <<turned, owner, startState, turnState, closed, others, alive, serverVars>>

-----------------------------------------------------------------------------
(* The App Server, the batches and the processes. *)

Answer(p, w) ==
    /\ request[<<p, w>>] = "sent"
    /\ request' = [request EXCEPT ![<<p, w>>] = "answered"]
    /\ \/ pc[<<p, w>>] = "starting" /\ threads' = [threads EXCEPT ![w] = @ + 1] /\ UNCHANGED turns
       \/ pc[<<p, w>>] = "turning" /\ turns' = [turns EXCEPT ![w] = @ + 1] /\ UNCHANGED threads
    /\ UNCHANGED <<storeVars, alive, pc, knows, late>>

AnswerLate(w, kind) ==
    /\ kind \in late[w]
    /\ late' = [late EXCEPT ![w] = @ \ {kind}]
    /\ \/ kind = "thread" /\ threads' = [threads EXCEPT ![w] = @ + 1] /\ UNCHANGED turns
       \/ kind = "turn" /\ turns' = [turns EXCEPT ![w] = @ + 1] /\ UNCHANGED threads
       \/ UNCHANGED <<threads, turns>>
    /\ UNCHANGED <<storeVars, alive, pc, knows, request>>

CloseBatch(b) ==
    /\ b \notin closed
    /\ closed' = closed \cup {b}
    /\ UNCHANGED <<mapping, turned, owner, startState, turnState, others, alive, pc, knows,
                   serverVars>>

\* A further worker gets a place under the same limit, or leaves one.
OthersMove ==
    /\ \/ PlacesTaken < Limit /\ others' = others + 1
       \/ others > 0 /\ others' = others - 1
    /\ UNCHANGED <<mapping, turned, owner, startState, turnState, closed, alive, pc, knows,
                   serverVars>>

\* Requests a dying process had sent are carried out later or never.
Die(p) ==
    /\ alive[p]
    /\ alive' = [alive EXCEPT ![p] = FALSE]
    /\ late' = [w \in Workers |->
                  late[w] \cup (IF request[<<p, w>>] # "sent" THEN {}
                                ELSE IF pc[<<p, w>>] = "starting" THEN {"thread"} ELSE {"turn"})]
    /\ request' = [c \in Calls |-> IF c[1] = p THEN "none" ELSE request[c]]
    /\ pc' = [c \in Calls |-> IF c[1] = p THEN "idle" ELSE pc[c]]
    /\ knows' = [c \in Calls |-> IF c[1] = p THEN FALSE ELSE knows[c]]
    /\ UNCHANGED <<storeVars, threads, turns>>

Step(p, w) ==
    \/ Start(p, w) \/ Reserve(p, w) \/ Abandon(p, w) \/ Validate(p, w)
    \/ PutMapping(p, w) \/ StartThrows(p, w) \/ ReadThread(p, w) \/ Resume(p, w)
    \/ MarkInFlight(p, w) \/ PatchTurn(p, w) \/ TurnThrows(p, w) \/ CleanUp(p, w)
    \/ Recover(p, w) \/ RecordRecovered(p, w) \/ Await(p, w)

Next ==
    \/ \E p \in Procs, w \in Workers : Step(p, w) \/ Answer(p, w)
    \/ \E w \in Workers, kind \in {"thread", "turn"} : AnswerLate(w, kind)
    \/ \E b \in Batches : CloseBatch(b)
    \/ \E p \in Procs : Die(p)
    \/ OthersMove

Spec == Init /\ [][Next]_vars

-----------------------------------------------------------------------------
(* What the broker promises. *)

TypeOK ==
    /\ mapping \in [Workers -> {"NONE"} \cup Active \cup Terminal]
    /\ turned \in [Workers -> BOOLEAN]
    /\ owner \in [Workers -> Procs \cup {NoProc}]
    /\ startState \in [Workers -> {"THREAD_START_IN_FLIGHT", "THREAD_START_AMBIGUOUS",
                                   "LIFECYCLE_ACTIVE"}]
    /\ turnState \in [Workers -> {"TURN_START_NOT_STARTED", "TURN_START_IN_FLIGHT",
                                  "TURN_START_AMBIGUOUS"}]
    /\ closed \subseteq Batches
    /\ others \in 0 .. Limit
    /\ alive \in [Procs -> BOOLEAN]
    /\ pc \in [Calls -> Places]
    /\ knows \in [Calls -> BOOLEAN]
    /\ request \in [Calls -> {"none", "sent", "answered"}]
    /\ late \in [Workers -> SUBSET {"thread", "turn"}]
    /\ threads \in [Workers -> Nat]
    /\ turns \in [Workers -> Nat]

\* Durable state survives restarts without duplicating a worker thread or a
\* worker turn: however many processes start a worker, die and start it again,
\* and however late the App Server carries out what was asked of it, a worker
\* has at most one thread and one turn (thread-broker.mjs:450-654 with
\* reserveWorker, runtime-store.mjs:532-644).
StartedOnce == \A w \in Workers : threads[w] <= 1 /\ turns[w] <= 1

\* A thread or a turn the App Server started is never forgotten: it is in the
\* worker's mapping, or a reservation says that it may exist and keeps the
\* worker from being started again (the catch block, thread-broker.mjs:627-653).
StartsRemembered ==
    \A w \in Workers :
        /\ threads[w] > 0 =>
              \/ mapping[w] # "NONE"
              \/ owner[w] # NoProc /\ startState[w] # "LIFECYCLE_ACTIVE"
        /\ turns[w] > 0 =>
              /\ mapping[w] # "NONE"
              /\ \/ turned[w]
                 \/ owner[w] # NoProc /\ turnState[w] # "TURN_START_NOT_STARTED"

\* The store calls of a start never lead to a store that validateState rejects: a
\* reservation past TURN_START_NOT_STARTED needs a mapped thread and no recorded
\* turn (runtime-store.mjs:297-306).  mutate validates before it writes (453-463),
\* so such a call would throw, and what the App Server did would go unrecorded.
StoreLoads ==
    \A w \in Workers :
        owner[w] # NoProc /\ turnState[w] # "TURN_START_NOT_STARTED" =>
            mapping[w] # "NONE" /\ ~turned[w]

\* No more implementation workers than the policy allows hold a place, over all
\* processes and batches (runtime-store.mjs:614-622).
Capacity == PlacesTaken <= Limit

\* Places of a call between reserveWorker and the end of its lifecycle.
Holding == {"validating", "starting", "reading", "resuming", "marking", "turning", "recording"}

\* While a living process is between its reservation and the record of its
\* turn, nobody else takes, releases or resolves that reservation
\* (thread-broker.mjs assertOwned; the owner_token checks of the store).
OwnersOwn ==
    [][\A p \in Procs, w \in Workers :
          pc[<<p, w>>] \in Holding /\ pc'[<<p, w>>] = pc[<<p, w>>]
             => owner[w] = p /\ owner'[w] = p]_vars

\* A worker whose thread is durable and whose turn was certainly never asked
\* for is resumed by whoever retries it: "Crash/retry after durable thread
\* persistence but before turn/start resumes that same thread"
\* (tasks/61-night-worker-runtime.md:143-144).
MappedWorkerResumes ==
    \A w \in Workers :
        /\ mapping[w] = "THREAD_STARTED"
        /\ owner[w] = NoProc \/ (OwnerDead(w) /\ ~Ambiguous(w))
        /\ BatchOf[w] \notin closed
        => ReserveAnswer(w) = "RESERVED"
=============================================================================
