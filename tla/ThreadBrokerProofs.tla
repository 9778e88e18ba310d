------------------------- MODULE ThreadBrokerProofs -------------------------
(***************************************************************************)
(* Proofs about ThreadBroker, for any workers, batches and processes and   *)
(* any limit.                                                              *)
(*                                                                         *)
(* What carries them: a reservation that may hide a thread or a turn is    *)
(* never granted to another process, so whoever asks the App Server for    *)
(* one is the first to ask; and what was asked for is in the mapping, or   *)
(* the reservation says that it may exist.                                 *)
(***************************************************************************)
EXTENDS ThreadBroker, FiniteSetTheorems, TLAPS

\* Nothing was asked of the App Server that it could still carry out, or did.
ThreadUnasked(w) == threads[w] = 0 /\ "thread" \notin late[w]
TurnUnasked(w)   == turns[w] = 0 /\ "turn" \notin late[w]

\* A reservation whose turn may exist, and which only its record ends.
TurnDoubt(w) ==
    /\ owner[w] # NoProc
    /\ \/ turnState[w] = "TURN_START_AMBIGUOUS"
       \/ turnState[w] = "TURN_START_IN_FLIGHT" /\ ~alive[owner[w]]

\* What the store says of a worker.
Stored(w) ==
    /\ turned[w] => owner[w] = NoProc /\ mapping[w] \notin {"NONE", "THREAD_STARTED"}
    /\ ~turned[w] => mapping[w] \in {"NONE", "THREAD_STARTED"}
    /\ owner[w] # NoProc =>
          /\ startState[w] = "THREAD_START_IN_FLIGHT" => mapping[w] = "NONE"
          /\ startState[w] = "LIFECYCLE_ACTIVE" => mapping[w] # "NONE"
          /\ turnState[w] # "TURN_START_NOT_STARTED" => startState[w] = "LIFECYCLE_ACTIVE"

\* What was asked for is remembered, and was asked for once.
Asked(w) ==
    /\ mapping[w] = "NONE" /\ owner[w] = NoProc => ThreadUnasked(w)
    /\ ~turned[w] /\ (owner[w] = NoProc \/ turnState[w] = "TURN_START_NOT_STARTED") => TurnUnasked(w)
    /\ threads[w] <= 1 /\ turns[w] <= 1
    /\ "thread" \in late[w] => threads[w] = 0
    /\ "turn" \in late[w] => turns[w] = 0

\* What a call may rely on, by the place it has reached.
Lives(p, w) ==
    /\ pc[<<p, w>>] # "idle" => alive[p]
    /\ request[<<p, w>>] # "none" => pc[<<p, w>>] \in {"starting", "turning"}

Holds(p, w) ==
    /\ pc[<<p, w>>] \in Holding \cup {"threadAmbiguous"} => owner[w] = p
    /\ pc[<<p, w>>] \in {"release", "turnAmbiguous"} => owner[w] = p \/ turned[w]
    /\ pc[<<p, w>>] # "recording"
    /\ pc[<<p, w>>] \in {"recovering", "recovered"} => turned[w] \/ TurnDoubt(w)

BeforeThread(p, w) ==
    /\ pc[<<p, w>>] = "validating" =>
          /\ turnState[w] = "TURN_START_NOT_STARTED" /\ startState[w] # "THREAD_START_AMBIGUOUS"
          /\ knows[<<p, w>>] => mapping[w] # "NONE"
          /\ ~knows[<<p, w>>] => mapping[w] = "NONE" /\ ThreadUnasked(w)
    /\ pc[<<p, w>>] = "starting" =>
          /\ turnState[w] = "TURN_START_NOT_STARTED" /\ startState[w] = "THREAD_START_IN_FLIGHT"
          /\ request[<<p, w>>] = "sent" => ThreadUnasked(w)
    /\ pc[<<p, w>>] = "threadAmbiguous" => turnState[w] = "TURN_START_NOT_STARTED"

BeforeTurn(p, w) ==
    /\ pc[<<p, w>>] \in {"reading", "resuming", "marking"} =>
          turnState[w] = "TURN_START_NOT_STARTED" /\ startState[w] = "LIFECYCLE_ACTIVE"
    /\ pc[<<p, w>>] = "turning" =>
          /\ turnState[w] = "TURN_START_IN_FLIGHT"
          /\ request[<<p, w>>] = "sent" => TurnUnasked(w)
    /\ pc[<<p, w>>] = "turnAmbiguous" /\ owner[w] = p => turnState[w] = "TURN_START_IN_FLIGHT"
    /\ pc[<<p, w>>] = "release" /\ owner[w] = p =>
          /\ turnState[w] # "TURN_START_AMBIGUOUS" /\ TurnUnasked(w)
          /\ mapping[w] = "NONE" => ThreadUnasked(w)

Call(p, w) == Lives(p, w) /\ Holds(p, w) /\ BeforeThread(p, w) /\ BeforeTurn(p, w)

\* All of it, of one worker.
Sound(w) == Stored(w) /\ Asked(w) /\ \A p \in Procs : Call(p, w)

\* The inductive invariant.
IInv == TypeOK /\ Capacity /\ \A w \in Workers : Sound(w)

-----------------------------------------------------------------------------
(* What a step leaves alone. *)

\* Nothing about a worker changes, or nothing about a call.
WorkerSame(w) ==
    /\ mapping'[w] = mapping[w] /\ turned'[w] = turned[w] /\ owner'[w] = owner[w]
    /\ startState'[w] = startState[w] /\ turnState'[w] = turnState[w]
    /\ late'[w] = late[w] /\ threads'[w] = threads[w] /\ turns'[w] = turns[w]

CallSame(p, w) ==
    /\ pc'[<<p, w>>] = pc[<<p, w>>] /\ knows'[<<p, w>>] = knows[<<p, w>>]
    /\ request'[<<p, w>>] = request[<<p, w>>]

\* Only one worker and one call of it change.
Local(p, w) ==
    /\ alive' = alive
    /\ \A v \in Workers : v # w => WorkerSame(v)
    /\ \A q \in Procs, v \in Workers : v # w \/ q # p => CallSame(q, v)

\* What the store says of an unchanged worker stays true.
LEMMA StoreStays ==
    ASSUME NEW w \in Workers, Stored(w), Asked(w), WorkerSame(w)
    PROVE  Stored(w)' /\ Asked(w)'
  BY DEF Stored, Asked, WorkerSame, ThreadUnasked, TurnUnasked

\* And what an unchanged call of it relies on.
LEMMA CallStays ==
    ASSUME NEW p \in Procs, NEW w \in Workers, Call(p, w), WorkerSame(w), CallSame(p, w), alive' = alive
    PROVE  Call(p, w)'
  BY DEF Call, Lives, Holds, BeforeThread, BeforeTurn, TurnDoubt, WorkerSame, CallSame,
         ThreadUnasked, TurnUnasked

\* A step of one call needs its own worker looked at, nothing else.
LEMMA LocalStep ==
    ASSUME IInv, NEW p \in Procs, NEW w \in Workers, Local(p, w), TypeOK', Capacity',
           Stored(w)', Asked(w)', \A q \in Procs : Call(q, w)'
    PROVE  IInv'
<1>1. ASSUME NEW v \in Workers, v # w PROVE Sound(v)'
  <2>1. Stored(v) /\ Asked(v) /\ WorkerSame(v)
    BY <1>1 DEF IInv, Sound, Local
  <2>2. ASSUME NEW q \in Procs PROVE Call(q, v)'
    BY <1>1, <2>1, <2>2, CallStays DEF IInv, Sound, Local
  <2> QED BY <2>1, <2>2, StoreStays DEF Sound
<1>2. Sound(w)'
  BY DEF Sound
<1>3. \A v \in Workers : Sound(v)'
  BY <1>1, <1>2
<1> QED BY <1>3 DEF IInv

\* Nobody else is between a reservation and its end while a worker is unreserved,
\* reserved by this process or by a dead one.
LEMMA Bystanders ==
    ASSUME IInv, NEW p \in Procs, NEW w \in Workers, Local(p, w), ~turned[w],
           owner[w] = NoProc \/ owner[w] = p \/ ~alive[owner[w]],
           TurnDoubt(w) => turned'[w] \/ TurnDoubt(w)'
    PROVE  \A q \in Procs : q # p => Call(q, w)'
<1> SUFFICES ASSUME NEW q \in Procs, q # p PROVE Call(q, w)'
  OBVIOUS
<1>1. Call(q, w) /\ CallSame(q, w) /\ alive' = alive /\ pc[<<q, w>>] \in Places
  BY DEF IInv, Sound, Local, TypeOK, Calls
<1>2. pc[<<q, w>>] \notin Holding \cup Cleanup
  <2>1. ASSUME pc[<<q, w>>] \in Holding \cup Cleanup PROVE FALSE
    <3>1. pc[<<q, w>>] # "idle" /\ alive[q]
      BY <1>1, <2>1 DEF Call, Lives, Holding, Cleanup
    <3>2. owner[w] = q
      BY <1>1, <2>1 DEF Call, Holds, Holding, Cleanup
    <3> QED BY <3>1, <3>2, BrokerAssumption
  <2> QED BY <2>1
<1>3. Lives(q, w)'
  BY <1>1 DEF Call, Lives, CallSame
<1>4. Holds(q, w)'
  BY <1>1, <1>2 DEF Call, Holds, CallSame, Holding, Cleanup
<1>5. BeforeThread(q, w)' /\ BeforeTurn(q, w)'
  BY <1>1, <1>2 DEF BeforeThread, BeforeTurn, CallSame, Holding, Cleanup
<1> QED BY <1>3, <1>4, <1>5 DEF Call

-----------------------------------------------------------------------------
(* The places. *)

\* Fewer placed workers take no more places.
LEMMA PlacesShrink ==
    ASSUME TypeOK, Capacity, Placed' \subseteq Placed, others' = others
    PROVE  Capacity'
<1>1. IsFiniteSet(Placed)
  BY BrokerAssumption, FS_Subset DEF Placed
<1>2. Cardinality(Placed') <= Cardinality(Placed) /\ IsFiniteSet(Placed')
  BY <1>1, FS_Subset
<1>3. Cardinality(Placed) \in Nat /\ Cardinality(Placed') \in Nat
  BY <1>1, <1>2, FS_CardinalityType
<1>4. others \in Nat
  BY BrokerAssumption DEF TypeOK
<1> QED BY <1>2, <1>3, <1>4, BrokerAssumption DEF Capacity, PlacesTaken

\* A place granted below the limit is within it.
LEMMA PlaceGranted ==
    ASSUME TypeOK, NEW w \in Workers, ~(PlacesTaken >= Limit), Placed' \subseteq Placed \cup {w},
           others' = others
    PROVE  Capacity'
<1>1. IsFiniteSet(Placed)
  BY BrokerAssumption, FS_Subset DEF Placed
<1>2. /\ IsFiniteSet(Placed \cup {w})
      /\ Cardinality(Placed \cup {w}) = IF w \in Placed THEN Cardinality(Placed) ELSE Cardinality(Placed) + 1
  BY <1>1, FS_AddElement
<1>3. Cardinality(Placed') <= Cardinality(Placed \cup {w}) /\ IsFiniteSet(Placed')
  BY <1>2, FS_Subset
<1>4. Cardinality(Placed) \in Nat /\ Cardinality(Placed') \in Nat
  BY <1>1, <1>3, FS_CardinalityType
<1>5. others \in Nat
  BY BrokerAssumption DEF TypeOK
<1> QED BY <1>2, <1>3, <1>4, <1>5, BrokerAssumption DEF Capacity, PlacesTaken

-----------------------------------------------------------------------------
(* The steps of a call. *)

\* A call that changes nothing but where it stands and what it waits for.
LEMMA PlaceStep ==
    ASSUME IInv, NEW p \in Procs, NEW w \in Workers,
           UNCHANGED <<storeVars, alive, late, threads, turns>>,
           NEW there \in Places, Goto(p, w, there),
           knows' \in [Calls -> BOOLEAN], request' \in [Calls -> {"none", "sent", "answered"}],
           \A c \in Calls : c # <<p, w>> => knows'[c] = knows[c] /\ request'[c] = request[c],
           Call(p, w)'
    PROVE  IInv'
<1>1. \A v \in Workers : WorkerSame(v)
  BY DEF storeVars, WorkerSame
<1>2. \A q \in Procs, v \in Workers : v # w \/ q # p => CallSame(q, v)
  BY DEF CallSame, Goto, IInv, TypeOK, Calls
<1>3. Local(p, w)
  BY <1>1, <1>2 DEF Local
<1>4. TypeOK'
  BY DEF IInv, TypeOK, Goto, storeVars
<1>5. Capacity'
  BY PlacesShrink DEF IInv, storeVars, Placed
<1>6. Stored(w)' /\ Asked(w)'
  BY <1>1, StoreStays DEF IInv, Sound
<1>7. \A q \in Procs : Call(q, w)'
  BY <1>1, <1>3, CallStays DEF IInv, Sound, Local
<1> QED BY <1>3, <1>4, <1>5, <1>6, <1>7, LocalStep

\* The call begins.
LEMMA StartStep ==
    ASSUME IInv, NEW p \in Procs, NEW w \in Workers, Start(p, w)
    PROVE  IInv'
<1>1. /\ At(p, w, "idle") /\ UNCHANGED <<storeVars, alive, serverVars>>
      /\ \E there \in {"awaiting", "recovering", "reserving"} :
            /\ Goto(p, w, there)
            /\ there = "recovering" => owner[w] # NoProc /\ turnState[w] = "TURN_START_AMBIGUOUS"
      /\ knows' = knows \/ knows' = [knows EXCEPT ![<<p, w>>] = mapping[w] # "NONE"]
  BY DEF Start
<1>2. PICK there \in {"awaiting", "recovering", "reserving"} :
         /\ Goto(p, w, there)
         /\ there = "recovering" => owner[w] # NoProc /\ turnState[w] = "TURN_START_AMBIGUOUS"
  BY <1>1
<1>3. there \in Places /\ pc'[<<p, w>>] = there
  BY <1>2 DEF Places, Goto, IInv, TypeOK, Calls
<1>4. /\ knows' \in [Calls -> BOOLEAN] /\ request' \in [Calls -> {"none", "sent", "answered"}]
      /\ \A c \in Calls : c # <<p, w>> => knows'[c] = knows[c] /\ request'[c] = request[c]
  <2>1. (mapping[w] # "NONE") \in BOOLEAN
    OBVIOUS
  <2> QED BY <1>1, <2>1 DEF IInv, TypeOK, serverVars
<1>5. Call(p, w)'
  <2>1. Lives(p, w)
    BY DEF IInv, Sound, Call
  <2>2. alive'[p] /\ request'[<<p, w>>] = "none"
    BY <1>1, <2>1 DEF At, Lives, serverVars
  <2>3. there = "recovering" => TurnDoubt(w)'
    BY <1>1, <1>2 DEF TurnDoubt, storeVars
  <2> QED BY <1>3, <2>2, <2>3 DEF Call, Lives, Holds, BeforeThread, BeforeTurn, Holding
<1> QED BY <1>1, <1>2, <1>3, <1>4, <1>5, PlaceStep DEF serverVars

\* Where a reservation may be granted.
LEMMA Grantable ==
    ASSUME IInv, NEW w \in Workers, ReserveAnswer(w) = "RESERVED"
    PROVE  /\ ~turned[w] /\ ~(PlacesTaken >= Limit) /\ ~TurnDoubt(w)
           /\ owner[w] = NoProc \/ (~alive[owner[w]] /\ mapping[w] # "NONE")
           /\ TurnUnasked(w) /\ (mapping[w] = "NONE" => ThreadUnasked(w))
<1>1. ~turned[w] /\ ~Ambiguous(w) /\ ~Busy(w) /\ ~(PlacesTaken >= Limit)
  BY DEF ReserveAnswer
<1>2. Stored(w) /\ Asked(w)
  BY DEF IInv, Sound
<1>3. /\ startState[w] \in {"THREAD_START_IN_FLIGHT", "THREAD_START_AMBIGUOUS", "LIFECYCLE_ACTIVE"}
      /\ turnState[w] \in {"TURN_START_NOT_STARTED", "TURN_START_IN_FLIGHT", "TURN_START_AMBIGUOUS"}
  BY DEF IInv, TypeOK
<1>4. CASE owner[w] = NoProc
  BY <1>1, <1>2, <1>4 DEF Asked, TurnDoubt
<1>5. CASE owner[w] # NoProc
  <2>1. ~alive[owner[w]]
    BY <1>1, <1>5 DEF Busy, OwnerDead
  <2>2. turnState[w] = "TURN_START_NOT_STARTED" /\ mapping[w] # "NONE"
    BY <1>1, <1>3, <1>5, <2>1 DEF Ambiguous, OwnerDead
  <2> QED BY <1>1, <1>2, <1>5, <2>1, <2>2 DEF Asked, TurnDoubt
<1> QED BY <1>4, <1>5

\* A reservation is granted, to a call that goes on or that has lost it again.
LEMMA GrantedStep ==
    ASSUME IInv, NEW p \in Procs, NEW w \in Workers, At(p, w, "reserving"),
           ReserveAnswer(w) = "RESERVED", Held(p, w),
           UNCHANGED <<mapping, turned, closed, others, alive, serverVars>>,
           \/ /\ knows' = [knows EXCEPT ![<<p, w>>] = mapping[w] # "NONE"]
              /\ Goto(p, w, "validating")
           \/ End(p, w)
    PROVE  IInv'
<1>1. /\ ~turned[w] /\ ~(PlacesTaken >= Limit) /\ ~TurnDoubt(w)
      /\ owner[w] = NoProc \/ ~alive[owner[w]]
      /\ TurnUnasked(w) /\ (mapping[w] = "NONE" => ThreadUnasked(w))
  BY Grantable
<1>2. /\ owner'[w] = p /\ turnState'[w] = "TURN_START_NOT_STARTED"
      /\ startState'[w] = IF mapping[w] # "NONE" THEN "LIFECYCLE_ACTIVE" ELSE "THREAD_START_IN_FLIGHT"
      /\ \A v \in Workers : v # w => owner'[v] = owner[v] /\ turnState'[v] = turnState[v]
                                     /\ startState'[v] = startState[v]
  BY DEF Held, IInv, TypeOK
<1>3. /\ \A q \in Procs, v \in Workers : v # w \/ q # p => CallSame(q, v)
      /\ pc'[<<p, w>>] \in {"validating", "idle"}
      /\ pc'[<<p, w>>] = "validating" => knows'[<<p, w>>] = (mapping[w] # "NONE")
  BY DEF Goto, End, CallSame, serverVars, IInv, TypeOK, Calls
<1>4. Local(p, w)
  BY <1>2, <1>3 DEF Local, WorkerSame, serverVars
<1>5. TypeOK'
  <2>1. (mapping[w] # "NONE") \in BOOLEAN /\ {"validating", "idle"} \subseteq Places
    BY DEF Places
  <2>2. pc' \in [Calls -> Places]
    BY <2>1 DEF Goto, End, IInv, TypeOK
  <2>4. knows' \in [Calls -> BOOLEAN]
    <3> DEFINE mapped == mapping[w] # "NONE"
    <3>1. mapped \in BOOLEAN /\ knows \in [Calls -> BOOLEAN]
      BY DEF IInv, TypeOK
    <3>2. knows' = [knows EXCEPT ![<<p, w>>] = mapped] \/ knows' = [knows EXCEPT ![<<p, w>>] = FALSE]
      BY DEF End
    <3> HIDE DEF mapped
    <3> QED BY <3>1, <3>2
  <2>3. /\ owner' \in [Workers -> Procs \cup {NoProc}]
        /\ startState' \in [Workers -> {"THREAD_START_IN_FLIGHT", "THREAD_START_AMBIGUOUS", "LIFECYCLE_ACTIVE"}]
        /\ turnState' \in [Workers -> {"TURN_START_NOT_STARTED", "TURN_START_IN_FLIGHT", "TURN_START_AMBIGUOUS"}]
    BY DEF Held, IInv, TypeOK
  <2> QED BY <2>2, <2>3, <2>4 DEF IInv, TypeOK, serverVars
<1>6. Capacity'
  <2>1. Placed' \subseteq Placed \cup {w}
    BY <1>2 DEF Placed
  <2> QED BY <1>1, <2>1, PlaceGranted DEF IInv
<1>7. Stored(w)' /\ Asked(w)'
  <2>1. Stored(w) /\ Asked(w)
    BY DEF IInv, Sound
  <2>2. p # NoProc
    BY BrokerAssumption
  <2>3. Stored(w)'
    BY <1>1, <1>2, <2>1, <2>2 DEF Stored
  <2>4. Asked(w)'
    BY <1>1, <1>2, <2>1, <2>2 DEF Asked, TurnUnasked, ThreadUnasked, serverVars
  <2> QED BY <2>3, <2>4
<1>8. ASSUME NEW q \in Procs PROVE Call(q, w)'
  <2>1. CASE q # p
    BY <1>1, <1>4, <2>1, Bystanders
  <2>2. CASE q = p
    <3>1. alive'[p] /\ request'[<<p, w>>] = "none"
      BY DEF At, IInv, Sound, Call, Lives, serverVars
    <3>2. knows'[<<p, w>>] = (mapping[w] # "NONE") =>
             /\ knows'[<<p, w>>] => mapping[w] # "NONE"
             /\ ~knows'[<<p, w>>] => mapping[w] = "NONE"
      BY Zenon
    <3>3. mapping[w] = "NONE" => ThreadUnasked(w)'
      BY <1>1 DEF ThreadUnasked, serverVars
    <3>4. Lives(p, w)' /\ Holds(p, w)'
      BY <1>2, <1>3, <3>1 DEF Lives, Holds, Holding
    <3>5. BeforeThread(p, w)'
      BY <1>2, <1>3, <3>2, <3>3 DEF BeforeThread
    <3>6. BeforeTurn(p, w)'
      BY <1>3 DEF BeforeTurn
    <3> QED BY <2>2, <3>4, <3>5, <3>6 DEF Call
  <2> QED BY <2>1, <2>2
<1> QED BY <1>4, <1>5, <1>6, <1>7, <1>8, LocalStep

\* The store's answer.
LEMMA ReserveStep ==
    ASSUME IInv, NEW p \in Procs, NEW w \in Workers, Reserve(p, w)
    PROVE  IInv'
<1>1. At(p, w, "reserving") /\ UNCHANGED <<mapping, turned, closed, others, alive, serverVars>>
  BY DEF Reserve
<1>2. CASE /\ ReserveAnswer(w) = "RESERVED" /\ Held(p, w)
           /\ \/ /\ knows' = [knows EXCEPT ![<<p, w>>] = mapping[w] # "NONE"]
                 /\ Goto(p, w, "validating")
              \/ End(p, w)
  BY <1>1, <1>2, GrantedStep
<1>3. CASE /\ UNCHANGED <<owner, startState, turnState>>
           /\ \/ /\ Goto(p, w, "recovering") /\ UNCHANGED knows
                 /\ ReserveAnswer(w) = "AMBIGUOUS" /\ turnState[w] # "TURN_START_NOT_STARTED"
              \/ Goto(p, w, "awaiting") /\ UNCHANGED knows
              \/ End(p, w)
  <2>1. PICK there \in {"recovering", "awaiting", "idle"} :
           /\ Goto(p, w, there)
           /\ there = "recovering" =>
                 ReserveAnswer(w) = "AMBIGUOUS" /\ turnState[w] # "TURN_START_NOT_STARTED"
    BY <1>3 DEF End
  <2>2. there \in Places /\ pc'[<<p, w>>] = there
    BY <2>1 DEF Places, Goto, IInv, TypeOK, Calls
  <2>3. /\ knows' \in [Calls -> BOOLEAN] /\ request' \in [Calls -> {"none", "sent", "answered"}]
        /\ \A c \in Calls : c # <<p, w>> => knows'[c] = knows[c] /\ request'[c] = request[c]
    BY <1>1, <1>3 DEF End, IInv, TypeOK, serverVars
  <2>4. alive'[p] /\ request'[<<p, w>>] = "none"
    BY <1>1 DEF At, IInv, Sound, Call, Lives, serverVars
  <2>5. there = "recovering" => TurnDoubt(w)'
    <3> SUFFICES ASSUME there = "recovering" PROVE TurnDoubt(w)'
      OBVIOUS
    <3>1. Ambiguous(w) /\ turnState[w] # "TURN_START_NOT_STARTED"
      BY <2>1 DEF ReserveAnswer
    <3> QED BY <1>1, <1>3, <3>1 DEF Ambiguous, OwnerDead, TurnDoubt
  <2>6. Call(p, w)'
    BY <2>2, <2>4, <2>5 DEF Call, Lives, Holds, BeforeThread, BeforeTurn, Holding
  <2>7. UNCHANGED <<storeVars, alive, late, threads, turns>>
    BY <1>1, <1>3 DEF storeVars, serverVars
  <2> QED BY <2>1, <2>2, <2>3, <2>6, <2>7, PlaceStep
<1> QED BY <1>2, <1>3 DEF Reserve

\* What a call in a place knows.
LEMMA Known ==
    ASSUME IInv, NEW p \in Procs, NEW w \in Workers
    PROVE  /\ Stored(w) /\ Asked(w) /\ Lives(p, w) /\ Holds(p, w) /\ BeforeThread(p, w)
           /\ BeforeTurn(p, w) /\ pc[<<p, w>>] \in Places /\ p # NoProc
           /\ owner[w] = p => ~turned[w]
  BY BrokerAssumption DEF IInv, Sound, Call, Stored, TypeOK, Calls

\* Steps between the reservation and the first request.
LEMMA EarlySteps ==
    ASSUME IInv, NEW p \in Procs, NEW w \in Workers,
           Abandon(p, w) \/ Validate(p, w) \/ ReadThread(p, w) \/ Resume(p, w)
    PROVE  IInv'
<1>1. /\ UNCHANGED <<storeVars, alive, knows, late, threads, turns>> /\ alive[p]
      /\ request' = request \/ request' = [request EXCEPT ![<<p, w>>] = "sent"]
  BY DEF Abandon, Validate, ReadThread, Resume, serverVars, At
<1>2. /\ knows' \in [Calls -> BOOLEAN] /\ request' \in [Calls -> {"none", "sent", "answered"}]
      /\ \A c \in Calls : c # <<p, w>> => knows'[c] = knows[c] /\ request'[c] = request[c]
  BY <1>1 DEF IInv, TypeOK
<1>3. /\ Stored(w) /\ Asked(w) /\ Lives(p, w) /\ Holds(p, w) /\ BeforeThread(p, w)
      /\ BeforeTurn(p, w) /\ p # NoProc
  BY Known
<1>4. <<p, w>> \in Calls /\ pc \in [Calls -> Places] /\ request \in [Calls -> {"none", "sent", "answered"}]
      /\ startState[w] \in {"THREAD_START_IN_FLIGHT", "THREAD_START_AMBIGUOUS", "LIFECYCLE_ACTIVE"}
      /\ knows[<<p, w>>] \in BOOLEAN
  BY DEF IInv, TypeOK, Calls
<1>5. ASSUME Abandon(p, w) PROVE IInv'
  <2>1. /\ Goto(p, w, "release") /\ request' = request /\ "release" \in Places
        /\ pc[<<p, w>>] \in {"validating", "reading", "resuming", "marking"}
    BY <1>5 DEF Abandon, At, serverVars, Places
  <2>2. pc'[<<p, w>>] = "release"
    BY <1>4, <2>1 DEF Goto
  <2>3. /\ owner[w] = p /\ turnState[w] = "TURN_START_NOT_STARTED" /\ request[<<p, w>>] = "none"
        /\ ~turned[w] /\ TurnUnasked(w) /\ (mapping[w] = "NONE" => ThreadUnasked(w))
    BY <1>3, <1>4, <2>1 DEF Holds, Holding, BeforeThread, BeforeTurn, Lives, Stored, Asked
  <2>4. Lives(p, w)' /\ Holds(p, w)' /\ BeforeThread(p, w)'
    BY <1>1, <2>1, <2>2, <2>3 DEF Lives, Holds, Holding, BeforeThread, storeVars
  <2>5. BeforeTurn(p, w)'
    BY <1>1, <2>2, <2>3 DEF BeforeTurn, TurnUnasked, ThreadUnasked, storeVars
  <2> QED BY <1>1, <1>2, <2>1, <2>4, <2>5, PlaceStep DEF Call
<1>6. ASSUME Validate(p, w) PROVE IInv'
  <2>1. /\ pc[<<p, w>>] = "validating" /\ owner[w] = p
        /\ \/ ~knows[<<p, w>>] /\ request' = [request EXCEPT ![<<p, w>>] = "sent"] /\ Goto(p, w, "starting")
           \/ knows[<<p, w>>] /\ request' = request /\ Goto(p, w, "reading")
    BY <1>6 DEF Validate, At
  <2>2. CASE ~knows[<<p, w>>] /\ request' = [request EXCEPT ![<<p, w>>] = "sent"] /\ Goto(p, w, "starting")
    <3>1. "starting" \in Places /\ pc'[<<p, w>>] = "starting" /\ request'[<<p, w>>] = "sent"
      BY <1>4, <2>2 DEF Goto, Places
    <3>2. turnState[w] = "TURN_START_NOT_STARTED" /\ startState[w] = "THREAD_START_IN_FLIGHT" /\ ThreadUnasked(w)
      BY <1>3, <1>4, <2>1, <2>2 DEF BeforeThread, Stored
    <3>3. Lives(p, w)' /\ Holds(p, w)' /\ BeforeTurn(p, w)'
      BY <1>1, <2>1, <3>1 DEF Lives, Holds, Holding, BeforeTurn, storeVars
    <3>4. BeforeThread(p, w)'
      BY <1>1, <3>1, <3>2 DEF BeforeThread, ThreadUnasked, storeVars
    <3> QED BY <1>1, <1>2, <2>2, <3>1, <3>3, <3>4, PlaceStep DEF Call
  <2>3. CASE knows[<<p, w>>] /\ request' = request /\ Goto(p, w, "reading")
    <3>1. "reading" \in Places /\ pc'[<<p, w>>] = "reading"
      BY <1>4, <2>3 DEF Goto, Places
    <3>2. /\ turnState[w] = "TURN_START_NOT_STARTED" /\ startState[w] = "LIFECYCLE_ACTIVE"
          /\ request[<<p, w>>] = "none"
      BY <1>3, <1>4, <2>1, <2>3 DEF BeforeThread, Stored, Lives
    <3>3. Lives(p, w)' /\ Holds(p, w)' /\ BeforeThread(p, w)' /\ BeforeTurn(p, w)'
      BY <1>1, <2>1, <2>3, <3>1, <3>2 DEF Lives, Holds, Holding, BeforeThread, BeforeTurn, storeVars
    <3> QED BY <1>1, <1>2, <2>3, <3>1, <3>3, PlaceStep DEF Call
  <2> QED BY <2>1, <2>2, <2>3
<1>7. ASSUME ReadThread(p, w) \/ Resume(p, w) PROVE IInv'
  <2>1. pc[<<p, w>>] \in {"reading", "resuming"} /\ request' = request
    BY <1>7 DEF ReadThread, Resume, At, serverVars
  <2>2. /\ owner[w] = p /\ ~turned[w] /\ turnState[w] = "TURN_START_NOT_STARTED"
        /\ startState[w] = "LIFECYCLE_ACTIVE" /\ request[<<p, w>>] = "none" /\ turns[w] = 0
    BY <1>3, <1>4, <2>1 DEF Holds, Holding, BeforeTurn, Lives, Stored, Asked, TurnUnasked
  <2>3. PICK there \in {"resuming", "marking"} : Goto(p, w, there)
    BY <1>7, <2>2 DEF ReadThread, Resume
  <2>4. there \in Places /\ pc'[<<p, w>>] = there
    BY <1>4, <2>3 DEF Goto, Places
  <2>5. Lives(p, w)' /\ Holds(p, w)' /\ BeforeThread(p, w)' /\ BeforeTurn(p, w)'
    BY <1>1, <2>1, <2>2, <2>4 DEF Lives, Holds, Holding, BeforeThread, BeforeTurn, storeVars
  <2> QED BY <1>1, <1>2, <2>3, <2>4, <2>5, PlaceStep DEF Call
<1> QED BY <1>5, <1>6, <1>7

\* A request's caller gives up.
LEMMA ThrowSteps ==
    ASSUME IInv, NEW p \in Procs, NEW w \in Workers, StartThrows(p, w) \/ TurnThrows(p, w)
    PROVE  IInv'
<1>1. PICK kind \in {"thread", "turn"} :
         /\ pc[<<p, w>>] = IF kind = "thread" THEN "starting" ELSE "turning"
         /\ GiveUp(p, w, kind) /\ alive[p]
         /\ Goto(p, w, IF kind = "thread" THEN "threadAmbiguous" ELSE "turnAmbiguous")
         /\ UNCHANGED <<storeVars, alive, knows, threads, turns>>
  BY DEF StartThrows, TurnThrows, At
<1>2. /\ Stored(w) /\ Asked(w) /\ Holds(p, w) /\ BeforeThread(p, w) /\ BeforeTurn(p, w) /\ p # NoProc
  BY Known
<1>3. /\ <<p, w>> \in Calls /\ pc \in [Calls -> Places] /\ request \in [Calls -> {"none", "sent", "answered"}]
      /\ late \in [Workers -> SUBSET {"thread", "turn"}]
  BY DEF IInv, TypeOK, Calls
<1>4. /\ pc'[<<p, w>>] = IF kind = "thread" THEN "threadAmbiguous" ELSE "turnAmbiguous"
      /\ request'[<<p, w>>] = "none"
      /\ late'[w] = IF request[<<p, w>>] = "sent" THEN late[w] \cup {kind} ELSE late[w]
      /\ \A v \in Workers : v # w => late'[v] = late[v]
      /\ \A q \in Procs, v \in Workers : v # w \/ q # p => CallSame(q, v)
  BY <1>1, <1>3 DEF GiveUp, Goto, CallSame, Calls
<1>5. Local(p, w)
  BY <1>1, <1>4 DEF Local, WorkerSame, storeVars
<1>6. TypeOK'
  <2>1. late' \in [Workers -> SUBSET {"thread", "turn"}] /\ request' \in [Calls -> {"none", "sent", "answered"}]
    BY <1>1, <1>3 DEF GiveUp
  <2>2. pc' \in [Calls -> Places]
    BY <1>1, <1>3 DEF Goto, Places
  <2> QED BY <1>1, <2>1, <2>2 DEF IInv, TypeOK, storeVars
<1>7. Capacity'
  BY <1>1, PlacesShrink DEF IInv, storeVars, Placed
<1>8. /\ owner[w] = p /\ ~turned[w]
      /\ kind = "thread" => /\ turnState[w] = "TURN_START_NOT_STARTED"
                            /\ request[<<p, w>>] = "sent" => ThreadUnasked(w)
      /\ kind = "turn" => /\ turnState[w] = "TURN_START_IN_FLIGHT"
                          /\ request[<<p, w>>] = "sent" => TurnUnasked(w)
  BY <1>1, <1>2 DEF Holds, Holding, BeforeThread, BeforeTurn, Stored
<1>9. Stored(w)'
  BY <1>1, <1>2 DEF Stored, storeVars
<1>10. Asked(w)'
  <2>1. turnState[w] = "TURN_START_NOT_STARTED" => TurnUnasked(w) /\ kind = "thread"
    BY <1>2, <1>8 DEF Asked
  <2>2. /\ "thread" \in late'[w] => threads[w] = 0
        /\ "turn" \in late'[w] => turns[w] = 0
    BY <1>2, <1>4, <1>8 DEF Asked, ThreadUnasked, TurnUnasked
  <2>3. (~turned[w] /\ (owner[w] = NoProc \/ turnState[w] = "TURN_START_NOT_STARTED") => TurnUnasked(w))'
    BY <1>1, <1>2, <1>4, <1>8, <2>1 DEF TurnUnasked, storeVars
  <2> QED BY <1>1, <1>2, <1>8, <2>2, <2>3 DEF Asked, storeVars
<1>11. Call(p, w)'
  <2>1. Lives(p, w)' /\ Holds(p, w)'
    BY <1>1, <1>4, <1>8 DEF Lives, Holds, Holding, storeVars
  <2>2. BeforeThread(p, w)' /\ BeforeTurn(p, w)'
    BY <1>1, <1>4, <1>8 DEF BeforeThread, BeforeTurn, storeVars
  <2> QED BY <2>1, <2>2 DEF Call
<1>12. ASSUME NEW q \in Procs, q # p PROVE Call(q, w)'
  <2>1. TurnDoubt(w) => TurnDoubt(w)'
    BY <1>1 DEF TurnDoubt, storeVars
  <2> QED BY <1>5, <1>8, <1>12, <2>1, Bystanders
<1> QED BY <1>5, <1>6, <1>7, <1>9, <1>10, <1>11, <1>12, LocalStep

\* The answer to thread/start is put, or may have been.
LEMMA PutMappingStep ==
    ASSUME IInv, NEW p \in Procs, NEW w \in Workers, PutMapping(p, w)
    PROVE  IInv'
<1>1. /\ pc[<<p, w>>] = "starting" /\ alive[p]
      /\ request' = [request EXCEPT ![<<p, w>>] = "none"]
      /\ UNCHANGED <<turned, owner, turnState, closed, others, alive, knows, late, threads, turns>>
  BY DEF PutMapping, At
<1>2. /\ Stored(w) /\ Asked(w) /\ Holds(p, w) /\ BeforeThread(p, w) /\ p # NoProc
  BY Known
<1>3. /\ <<p, w>> \in Calls /\ pc \in [Calls -> Places] /\ request \in [Calls -> {"none", "sent", "answered"}]
  BY DEF IInv, TypeOK, Calls
<1>4. /\ owner[w] = p /\ ~turned[w] /\ turnState[w] = "TURN_START_NOT_STARTED"
      /\ startState[w] = "THREAD_START_IN_FLIGHT" /\ TurnUnasked(w)
  BY <1>1, <1>2 DEF Holds, Holding, BeforeThread, Stored, Asked
<1>5. PICK there \in {"marking", "threadAmbiguous"} :
         /\ Goto(p, w, there)
         /\ \/ /\ mapping' = [mapping EXCEPT ![w] = "THREAD_STARTED"]
               /\ startState' = [startState EXCEPT ![w] = "LIFECYCLE_ACTIVE"]
            \/ there = "threadAmbiguous" /\ UNCHANGED <<mapping, startState>>
  BY <1>4 DEF PutMapping, Outcomes
<1>6. /\ pc'[<<p, w>>] = there /\ there \in Places /\ request'[<<p, w>>] = "none"
      /\ \A q \in Procs, v \in Workers : v # w \/ q # p => CallSame(q, v)
  BY <1>1, <1>3, <1>5 DEF Goto, CallSame, Calls, Places
<1>7. /\ \A v \in Workers : v # w => mapping'[v] = mapping[v] /\ startState'[v] = startState[v]
      /\ \/ mapping'[w] = "THREAD_STARTED" /\ startState'[w] = "LIFECYCLE_ACTIVE"
         \/ there = "threadAmbiguous" /\ mapping'[w] = mapping[w] /\ startState'[w] = startState[w]
  BY <1>5 DEF IInv, TypeOK
<1>8. Local(p, w)
  BY <1>1, <1>6, <1>7 DEF Local, WorkerSame
<1>9. TypeOK'
  <2>1. pc' \in [Calls -> Places] /\ request' \in [Calls -> {"none", "sent", "answered"}]
    BY <1>1, <1>3, <1>5, <1>6 DEF Goto
  <2>2. /\ mapping' \in [Workers -> {"NONE"} \cup Active \cup Terminal]
        /\ startState' \in [Workers -> {"THREAD_START_IN_FLIGHT", "THREAD_START_AMBIGUOUS", "LIFECYCLE_ACTIVE"}]
    BY <1>5 DEF IInv, TypeOK, Active
  <2> QED BY <1>1, <2>1, <2>2 DEF IInv, TypeOK
<1>10. Capacity'
  <2>1. Placed' \subseteq Placed
    BY <1>1, <1>2, <1>4, <1>7 DEF Placed
  <2> QED BY <1>1, <2>1, PlacesShrink DEF IInv
<1>11. Stored(w)' /\ Asked(w)'
  <2>1. Stored(w)'
    BY <1>1, <1>2, <1>4, <1>7 DEF Stored
  <2>2. Asked(w)'
    BY <1>1, <1>2, <1>4 DEF Asked, TurnUnasked, ThreadUnasked
  <2> QED BY <2>1, <2>2
<1>12. Call(p, w)'
  <2>1. Lives(p, w)' /\ Holds(p, w)'
    BY <1>1, <1>4, <1>6 DEF Lives, Holds, Holding
  <2>2. BeforeThread(p, w)' /\ BeforeTurn(p, w)'
    BY <1>1, <1>4, <1>6, <1>7 DEF BeforeThread, BeforeTurn
  <2> QED BY <2>1, <2>2 DEF Call
<1>13. ASSUME NEW q \in Procs, q # p PROVE Call(q, w)'
  <2>1. ~TurnDoubt(w)
    BY <1>4 DEF TurnDoubt
  <2> QED BY <1>4, <1>8, <1>13, <2>1, Bystanders
<1> QED BY <1>8, <1>9, <1>10, <1>11, <1>12, <1>13, LocalStep

\* The turn is marked in flight.
LEMMA MarkInFlightStep ==
    ASSUME IInv, NEW p \in Procs, NEW w \in Workers, MarkInFlight(p, w)
    PROVE  IInv'
<1>1. /\ pc[<<p, w>>] = "marking" /\ alive[p] /\ owner[w] = p
      /\ startState[w] = "LIFECYCLE_ACTIVE" /\ turnState[w] = "TURN_START_NOT_STARTED"
      /\ turnState' = [turnState EXCEPT ![w] = "TURN_START_IN_FLIGHT"]
      /\ UNCHANGED <<mapping, turned, owner, startState, closed, others, alive, knows, late, threads, turns>>
  BY DEF MarkInFlight, At
<1>2. PICK there \in {"turning", "release"} :
         /\ Goto(p, w, there)
         /\ \/ there = "turning" /\ request' = [request EXCEPT ![<<p, w>>] = "sent"]
            \/ there = "release" /\ request' = request
  BY DEF MarkInFlight
<1>3. /\ Stored(w) /\ Asked(w) /\ Lives(p, w) /\ p # NoProc /\ ~turned[w]
  BY <1>1, Known
<1>4. /\ <<p, w>> \in Calls /\ pc \in [Calls -> Places] /\ request \in [Calls -> {"none", "sent", "answered"}]
  BY DEF IInv, TypeOK, Calls
<1>5. /\ pc'[<<p, w>>] = there /\ there \in Places
      /\ there = "release" => request'[<<p, w>>] = "none"
      /\ \A q \in Procs, v \in Workers : v # w \/ q # p => CallSame(q, v)
  BY <1>1, <1>2, <1>3, <1>4 DEF Goto, CallSame, Calls, Places, Lives
<1>6. /\ turnState'[w] = "TURN_START_IN_FLIGHT"
      /\ \A v \in Workers : v # w => turnState'[v] = turnState[v]
  BY <1>1 DEF IInv, TypeOK
<1>7. TurnUnasked(w) /\ TurnUnasked(w)' /\ mapping[w] # "NONE"
  BY <1>1, <1>3 DEF Asked, Stored, TurnUnasked
<1>8. Local(p, w)
  BY <1>1, <1>5, <1>6 DEF Local, WorkerSame
<1>9. TypeOK'
  <2>1. pc' \in [Calls -> Places] /\ request' \in [Calls -> {"none", "sent", "answered"}]
    BY <1>2, <1>4, <1>5 DEF Goto
  <2>2. turnState' \in [Workers -> {"TURN_START_NOT_STARTED", "TURN_START_IN_FLIGHT", "TURN_START_AMBIGUOUS"}]
    BY <1>1 DEF IInv, TypeOK
  <2> QED BY <1>1, <2>1, <2>2 DEF IInv, TypeOK
<1>10. Capacity'
  BY <1>1, PlacesShrink DEF IInv, Placed
<1>11. Stored(w)'
  BY <1>1, <1>3, <1>6 DEF Stored
<1>12. Asked(w)'
  BY <1>1, <1>3, <1>7 DEF Asked, ThreadUnasked
<1>13. Call(p, w)'
  <2>1. Lives(p, w)' /\ Holds(p, w)'
    BY <1>1, <1>5 DEF Lives, Holds, Holding
  <2>2. BeforeThread(p, w)'
    BY <1>5 DEF BeforeThread
  <2>3. BeforeTurn(p, w)'
    BY <1>1, <1>5, <1>6, <1>7 DEF BeforeTurn
  <2> QED BY <2>1, <2>2, <2>3 DEF Call
<1>14. ASSUME NEW q \in Procs, q # p PROVE Call(q, w)'
  <2>1. ~TurnDoubt(w)
    BY <1>1 DEF TurnDoubt
  <2> QED BY <1>1, <1>3, <1>8, <1>14, <2>1, Bystanders
<1> QED BY <1>8, <1>9, <1>10, <1>11, <1>12, <1>13, <1>14, LocalStep

\* A turn is recorded, by its owner or by a process that found it.
LEMMA RecordStep ==
    ASSUME IInv, NEW p \in Procs, NEW w \in Workers, alive[p],
           owner[w] # NoProc, RecordTurn(w, owner[w]),
           owner[w] = p \/ TurnDoubt(w), turnState[w] # "TURN_START_NOT_STARTED",
           NEW there \in {"awaiting", "turnAmbiguous", "idle"}, Goto(p, w, there),
           knows' \in [Calls -> BOOLEAN], request' \in [Calls -> {"none", "sent", "answered"}],
           \A c \in Calls : c # <<p, w>> => knows'[c] = knows[c] /\ request'[c] = request[c],
           request'[<<p, w>>] = "none", UNCHANGED <<alive, late, threads, turns>>
    PROVE  IInv'
<1>1. /\ mapping'[w] = "TURN_STARTED" /\ turned'[w] = TRUE /\ owner'[w] = NoProc
      /\ \A v \in Workers : v # w => mapping'[v] = mapping[v] /\ turned'[v] = turned[v]
                                     /\ owner'[v] = owner[v]
      /\ UNCHANGED <<startState, turnState, closed, others>>
  BY DEF RecordTurn, IInv, TypeOK
<1>2. /\ pc'[<<p, w>>] = there /\ there \in Places
      /\ \A q \in Procs, v \in Workers : v # w \/ q # p => CallSame(q, v)
  BY DEF Goto, CallSame, Calls, Places, IInv, TypeOK
<1>3. Local(p, w)
  BY <1>1, <1>2 DEF Local, WorkerSame
<1>4. TypeOK'
  <2>1. pc' \in [Calls -> Places]
    BY <1>2 DEF Goto, IInv, TypeOK
  <2>2. mapping' \in [Workers -> {"NONE"} \cup Active \cup Terminal]
        /\ turned' \in [Workers -> BOOLEAN] /\ owner' \in [Workers -> Procs \cup {NoProc}]
    BY DEF RecordTurn, IInv, TypeOK, Active
  <2> QED BY <1>1, <2>1, <2>2 DEF IInv, TypeOK
<1>5. Capacity'
  <2>1. Placed' \subseteq Placed
    BY <1>1 DEF Placed
  <2> QED BY <1>1, <2>1, PlacesShrink DEF IInv
<1>6. Stored(w) /\ Asked(w)
  BY DEF IInv, Sound
<1>7. Stored(w)' /\ Asked(w)'
  BY <1>1, <1>6 DEF Stored, Asked
<1>8. Call(p, w)'
  BY <1>1, <1>2, BrokerAssumption DEF Call, Lives, Holds, Holding, BeforeThread, BeforeTurn
<1>9. ASSUME NEW q \in Procs, q # p PROVE Call(q, w)'
  <2>1. CASE owner[w] = p
    <3>1. ~turned[w]
      BY <2>1, Known
    <3> QED BY <1>1, <1>3, <1>9, <2>1, <3>1, Bystanders
  <2>2. CASE TurnDoubt(w)
    <3>1. Lives(q, w) /\ Holds(q, w) /\ BeforeThread(q, w) /\ BeforeTurn(q, w) /\ ~turned[w]
      BY <1>6, Known DEF Stored
    <3>2. CallSame(q, w)
      BY <1>2, <1>9
    <3>3. pc[<<q, w>>] \notin Holding \cup Cleanup
      <4>1. ASSUME pc[<<q, w>>] \in Holding \cup Cleanup PROVE FALSE
        <5>1. owner[w] = q /\ alive[q]
          BY <3>1, <4>1 DEF Lives, Holds, Holding, Cleanup
        <5>2. turnState[w] = "TURN_START_AMBIGUOUS"
          BY <2>2, <5>1 DEF TurnDoubt
        <5>3. startState[w] = "LIFECYCLE_ACTIVE"
          BY <1>6, <5>1, <5>2, Known DEF Stored
        <5> QED BY <3>1, <4>1, <5>1, <5>2
              DEF Holds, BeforeThread, BeforeTurn, Holding, Cleanup
      <4> QED BY <4>1
    <3>4. Lives(q, w)'
      BY <3>1, <3>2 DEF Lives, CallSame
    <3>5. Holds(q, w)'
      BY <1>1, <3>1, <3>2, <3>3 DEF Holds, CallSame, Holding, Cleanup
    <3>6. BeforeThread(q, w)' /\ BeforeTurn(q, w)'
      BY <3>2, <3>3 DEF BeforeThread, BeforeTurn, CallSame, Holding, Cleanup
    <3> QED BY <3>4, <3>5, <3>6 DEF Call
  <2> QED BY <2>1, <2>2
<1> QED BY <1>3, <1>4, <1>5, <1>7, <1>8, <1>9, LocalStep

\* The answer to turn/start is recorded, or may have been.
LEMMA PatchTurnStep ==
    ASSUME IInv, NEW p \in Procs, NEW w \in Workers, PatchTurn(p, w)
    PROVE  IInv'
<1>1. /\ Stored(w) /\ Asked(w) /\ Holds(p, w) /\ BeforeTurn(p, w) /\ p # NoProc
      /\ <<p, w>> \in Calls /\ pc \in [Calls -> Places]
      /\ request \in [Calls -> {"none", "sent", "answered"}] /\ knows \in [Calls -> BOOLEAN]
  BY Known DEF IInv, TypeOK, Calls
<1>2. /\ pc[<<p, w>>] = "turning" /\ alive[p]
      /\ request' = [request EXCEPT ![<<p, w>>] = "none"]
      /\ UNCHANGED <<alive, knows, late, threads, turns>>
  BY <1>1 DEF PatchTurn, At, Holds
<1>3. owner[w] = p /\ ~turned[w] /\ turnState[w] = "TURN_START_IN_FLIGHT"
  BY <1>1, <1>2, Known DEF Holds, Holding, BeforeTurn
<1>4. /\ request' \in [Calls -> {"none", "sent", "answered"}] /\ request'[<<p, w>>] = "none"
      /\ \A c \in Calls : c # <<p, w>> => knows'[c] = knows[c] /\ request'[c] = request[c]
  BY <1>1, <1>2
<1>5. CASE RecordTurn(w, p) /\ \E there \in {"awaiting", "turnAmbiguous"} : Goto(p, w, there)
  BY <1>1, <1>2, <1>3, <1>4, <1>5, RecordStep
<1>6. CASE Goto(p, w, "turnAmbiguous") /\ UNCHANGED storeVars
  <2>1. pc'[<<p, w>>] = "turnAmbiguous" /\ "turnAmbiguous" \in Places
    BY <1>1, <1>6 DEF Goto, Places
  <2>2. Lives(p, w)' /\ Holds(p, w)'
    BY <1>2, <1>3, <1>4, <1>6, <2>1 DEF Lives, Holds, Holding, storeVars
  <2>3. BeforeThread(p, w)' /\ BeforeTurn(p, w)'
    BY <1>3, <1>6, <2>1 DEF BeforeThread, BeforeTurn, storeVars
  <2> QED BY <1>1, <1>2, <1>4, <1>6, <2>1, <2>2, <2>3, PlaceStep DEF Call
<1> QED BY <1>2, <1>5, <1>6 DEF PatchTurn

\* A turn found by another process is recorded, or was.
LEMMA RecoverSteps ==
    ASSUME IInv, NEW p \in Procs, NEW w \in Workers, Recover(p, w) \/ RecordRecovered(p, w)
    PROVE  IInv'
<1>1. /\ pc[<<p, w>>] \in {"recovering", "recovered"} /\ alive[p]
      /\ UNCHANGED <<alive, serverVars>>
  BY DEF Recover, RecordRecovered, At
<1>2. /\ Stored(w) /\ Lives(p, w) /\ Holds(p, w) /\ p # NoProc
      /\ <<p, w>> \in Calls /\ pc \in [Calls -> Places]
      /\ request \in [Calls -> {"none", "sent", "answered"}] /\ knows \in [Calls -> BOOLEAN]
  BY Known DEF IInv, TypeOK, Calls
<1>3. turned[w] \/ TurnDoubt(w)
  BY <1>1, <1>2 DEF Holds
<1>4. request'[<<p, w>>] = "none" /\ request' \in [Calls -> {"none", "sent", "answered"}]
  BY <1>1, <1>2 DEF Lives, serverVars
<1>5. (knows' = knows \/ End(p, w)) =>
         /\ knows' \in [Calls -> BOOLEAN]
         /\ \A c \in Calls : c # <<p, w>> => knows'[c] = knows[c] /\ request'[c] = request[c]
  BY <1>1, <1>2 DEF End, serverVars
<1>6. CASE UNCHANGED storeVars /\ (End(p, w) \/ (Goto(p, w, "recovered") /\ UNCHANGED knows))
  <2>1. PICK there \in {"idle", "recovered"} : Goto(p, w, there)
    BY <1>6 DEF End
  <2>2. there \in Places /\ pc'[<<p, w>>] = there
    BY <1>2, <2>1 DEF Goto, Places
  <2>3. TurnDoubt(w) => TurnDoubt(w)'
    BY <1>1, <1>6 DEF TurnDoubt, storeVars
  <2>4. Lives(p, w)' /\ Holds(p, w)'
    BY <1>1, <1>3, <1>4, <1>6, <2>2, <2>3 DEF Lives, Holds, Holding, storeVars
  <2>5. BeforeThread(p, w)' /\ BeforeTurn(p, w)'
    BY <2>2 DEF BeforeThread, BeforeTurn
  <2> QED BY <1>1, <1>4, <1>5, <1>6, <2>1, <2>2, <2>4, <2>5, PlaceStep DEF Call, serverVars
<1>7. CASE /\ owner[w] # NoProc /\ RecordTurn(w, owner[w])
           /\ (Goto(p, w, "awaiting") /\ UNCHANGED knows) \/ End(p, w)
  <2>1. TurnDoubt(w) /\ turnState[w] # "TURN_START_NOT_STARTED"
    BY <1>2, <1>3, <1>7 DEF Stored, TurnDoubt
  <2>2. PICK there \in {"awaiting", "idle"} : Goto(p, w, there)
    BY <1>7 DEF End
  <2> QED BY <1>1, <1>4, <1>5, <1>7, <2>1, <2>2, RecordStep DEF serverVars
<1> QED BY <1>6, <1>7 DEF Recover, RecordRecovered

\* The catch block.
LEMMA CleanUpStep ==
    ASSUME IInv, NEW p \in Procs, NEW w \in Workers, CleanUp(p, w)
    PROVE  IInv'
<1>1. /\ pc[<<p, w>>] \in Cleanup /\ alive[p] /\ End(p, w)
      /\ UNCHANGED <<mapping, turned, closed, others, alive, serverVars>>
  BY DEF CleanUp, At
<1>2. /\ Stored(w) /\ Asked(w) /\ Lives(p, w) /\ Holds(p, w) /\ BeforeThread(p, w)
      /\ BeforeTurn(p, w) /\ p # NoProc /\ <<p, w>> \in Calls /\ pc \in [Calls -> Places]
      /\ request \in [Calls -> {"none", "sent", "answered"}] /\ knows \in [Calls -> BOOLEAN]
  BY Known DEF IInv, TypeOK, Calls
<1>3. /\ pc'[<<p, w>>] = "idle" /\ request'[<<p, w>>] = "none"
      /\ \A q \in Procs, v \in Workers : v # w \/ q # p => CallSame(q, v)
  BY <1>1, <1>2 DEF End, Goto, CallSame, Calls, Lives, Cleanup, serverVars
<1>4. Call(p, w)'
  BY <1>3 DEF Call, Lives, Holds, BeforeThread, BeforeTurn, Holding
<1>5. pc' \in [Calls -> Places] /\ knows' \in [Calls -> BOOLEAN]
  BY <1>1, <1>2 DEF End, Goto, Places
<1>6. CASE UNCHANGED <<owner, startState, turnState>>
  <2>1. /\ Goto(p, w, "idle") /\ "idle" \in Places
        /\ request' \in [Calls -> {"none", "sent", "answered"}]
        /\ \A c \in Calls : c # <<p, w>> => knows'[c] = knows[c] /\ request'[c] = request[c]
    BY <1>1, <1>2 DEF End, Places, serverVars
  <2>2. UNCHANGED <<storeVars, alive, late, threads, turns>>
    BY <1>1, <1>6 DEF storeVars, serverVars
  <2> QED BY <1>4, <1>5, <2>1, <2>2, PlaceStep
<1>7. ASSUME owner[w] = p, ~turned[w], TurnDoubt(w) => TurnDoubt(w)',
             Stored(w)', Asked(w)', Placed' \subseteq Placed,
             owner' \in [Workers -> Procs \cup {NoProc}],
             startState' \in [Workers -> {"THREAD_START_IN_FLIGHT", "THREAD_START_AMBIGUOUS", "LIFECYCLE_ACTIVE"}],
             turnState' \in [Workers -> {"TURN_START_NOT_STARTED", "TURN_START_IN_FLIGHT", "TURN_START_AMBIGUOUS"}],
             \A v \in Workers : v # w => owner'[v] = owner[v] /\ startState'[v] = startState[v]
                                         /\ turnState'[v] = turnState[v]
      PROVE  IInv'
  <2>1. Local(p, w)
    BY <1>1, <1>3, <1>7 DEF Local, WorkerSame, serverVars
  <2>2. TypeOK'
    BY <1>1, <1>5, <1>7 DEF IInv, TypeOK, serverVars
  <2>3. Capacity'
    BY <1>1, <1>7, PlacesShrink DEF IInv
  <2>4. ASSUME NEW q \in Procs, q # p PROVE Call(q, w)'
    BY <1>7, <2>1, <2>4, Bystanders
  <2> QED BY <1>4, <1>7, <2>1, <2>2, <2>3, <2>4, LocalStep
<1>8. CASE /\ pc[<<p, w>>] = "release" /\ owner[w] = p
           /\ owner' = [owner EXCEPT ![w] = NoProc] /\ UNCHANGED <<startState, turnState>>
  <2>1. /\ owner'[w] = NoProc /\ owner' \in [Workers -> Procs \cup {NoProc}]
        /\ \A v \in Workers : v # w => owner'[v] = owner[v]
    BY <1>8 DEF IInv, TypeOK
  <2>2. /\ ~turned[w] /\ turnState[w] # "TURN_START_AMBIGUOUS" /\ TurnUnasked(w)
        /\ mapping[w] = "NONE" => ThreadUnasked(w)
    BY <1>2, <1>8, Known DEF BeforeTurn
  <2>3. ~TurnDoubt(w)
    BY <1>1, <1>8, <2>2 DEF TurnDoubt
  <2>4. Stored(w)'
    BY <1>1, <1>2, <2>1, <2>2 DEF Stored
  <2>5. Asked(w)'
    BY <1>1, <1>2, <2>1, <2>2 DEF Asked, TurnUnasked, ThreadUnasked, serverVars
  <2>6. Placed' \subseteq Placed
    BY <1>1, <1>8, <2>1 DEF Placed
  <2>7. /\ startState' \in [Workers -> {"THREAD_START_IN_FLIGHT", "THREAD_START_AMBIGUOUS", "LIFECYCLE_ACTIVE"}]
        /\ turnState' \in [Workers -> {"TURN_START_NOT_STARTED", "TURN_START_IN_FLIGHT", "TURN_START_AMBIGUOUS"}]
    BY <1>8 DEF IInv, TypeOK
  <2> QED BY <1>7, <1>8, <2>1, <2>2, <2>3, <2>4, <2>5, <2>6, <2>7
<1>9. CASE /\ pc[<<p, w>>] = "threadAmbiguous" /\ owner[w] = p
           /\ startState' = [startState EXCEPT ![w] = "THREAD_START_AMBIGUOUS"]
           /\ UNCHANGED <<owner, turnState>>
  <2>1. /\ startState'[w] = "THREAD_START_AMBIGUOUS"
        /\ startState' \in [Workers -> {"THREAD_START_IN_FLIGHT", "THREAD_START_AMBIGUOUS", "LIFECYCLE_ACTIVE"}]
        /\ \A v \in Workers : v # w => startState'[v] = startState[v]
    BY <1>9 DEF IInv, TypeOK
  <2>2. ~turned[w] /\ turnState[w] = "TURN_START_NOT_STARTED"
    BY <1>2, <1>9, Known DEF BeforeThread
  <2>3. ~TurnDoubt(w)
    BY <2>2 DEF TurnDoubt
  <2>4. Stored(w)'
    BY <1>1, <1>2, <1>9, <2>1, <2>2 DEF Stored
  <2>5. Asked(w)'
    BY <1>1, <1>2, <1>9, <2>2 DEF Asked, TurnUnasked, ThreadUnasked, serverVars
  <2>6. Placed' \subseteq Placed
    BY <1>1, <1>9 DEF Placed
  <2>7. /\ owner' \in [Workers -> Procs \cup {NoProc}]
        /\ turnState' \in [Workers -> {"TURN_START_NOT_STARTED", "TURN_START_IN_FLIGHT", "TURN_START_AMBIGUOUS"}]
    BY <1>9 DEF IInv, TypeOK
  <2> QED BY <1>7, <1>9, <2>1, <2>2, <2>3, <2>4, <2>5, <2>6, <2>7
<1>10. CASE /\ pc[<<p, w>>] = "turnAmbiguous" /\ owner[w] = p
            /\ turnState' = [turnState EXCEPT ![w] = "TURN_START_AMBIGUOUS"]
            /\ UNCHANGED <<owner, startState>>
  <2>1. /\ turnState'[w] = "TURN_START_AMBIGUOUS"
        /\ turnState' \in [Workers -> {"TURN_START_NOT_STARTED", "TURN_START_IN_FLIGHT", "TURN_START_AMBIGUOUS"}]
        /\ \A v \in Workers : v # w => turnState'[v] = turnState[v]
    BY <1>10 DEF IInv, TypeOK
  <2>2. ~turned[w] /\ turnState[w] = "TURN_START_IN_FLIGHT"
    BY <1>2, <1>10, Known DEF BeforeTurn
  <2>3. TurnDoubt(w)'
    BY <1>2, <1>10, <2>1 DEF TurnDoubt
  <2>4. Stored(w)'
    BY <1>1, <1>2, <1>10, <2>1, <2>2 DEF Stored
  <2>5. Asked(w)'
    BY <1>1, <1>2, <1>10, <2>1, <2>2 DEF Asked, TurnUnasked, ThreadUnasked, serverVars
  <2>6. Placed' \subseteq Placed
    BY <1>1, <1>10 DEF Placed
  <2>7. /\ owner' \in [Workers -> Procs \cup {NoProc}]
        /\ startState' \in [Workers -> {"THREAD_START_IN_FLIGHT", "THREAD_START_AMBIGUOUS", "LIFECYCLE_ACTIVE"}]
    BY <1>10 DEF IInv, TypeOK
  <2> QED BY <1>7, <1>10, <2>1, <2>2, <2>3, <2>4, <2>5, <2>6, <2>7
<1> QED BY <1>1, <1>6, <1>8, <1>9, <1>10 DEF CleanUp, Cleanup

\* A turn ends, or is waited for no longer.
LEMMA AwaitStep ==
    ASSUME IInv, NEW p \in Procs, NEW w \in Workers, Await(p, w)
    PROVE  IInv'
<1>1. /\ pc[<<p, w>>] = "awaiting" /\ alive[p] /\ End(p, w)
      /\ UNCHANGED <<turned, owner, startState, turnState, closed, others, alive, serverVars>>
  BY DEF Await, At
<1>2. /\ Stored(w) /\ Asked(w) /\ Lives(p, w) /\ p # NoProc
      /\ <<p, w>> \in Calls /\ pc \in [Calls -> Places]
      /\ request \in [Calls -> {"none", "sent", "answered"}] /\ knows \in [Calls -> BOOLEAN]
  BY Known DEF IInv, TypeOK, Calls
<1>3. /\ pc'[<<p, w>>] = "idle" /\ request'[<<p, w>>] = "none"
      /\ \A q \in Procs, v \in Workers : v # w \/ q # p => CallSame(q, v)
  BY <1>1, <1>2 DEF End, Goto, CallSame, Calls, Lives, serverVars
<1>4. Call(p, w)'
  BY <1>3 DEF Call, Lives, Holds, BeforeThread, BeforeTurn, Holding
<1>5. pc' \in [Calls -> Places] /\ knows' \in [Calls -> BOOLEAN]
  BY <1>1, <1>2 DEF End, Goto, Places
<1>6. CASE UNCHANGED mapping
  <2>1. /\ Goto(p, w, "idle") /\ "idle" \in Places
        /\ request' \in [Calls -> {"none", "sent", "answered"}]
        /\ \A c \in Calls : c # <<p, w>> => knows'[c] = knows[c] /\ request'[c] = request[c]
    BY <1>1, <1>2 DEF End, Places, serverVars
  <2>2. UNCHANGED <<storeVars, alive, late, threads, turns>>
    BY <1>1, <1>6 DEF storeVars, serverVars
  <2> QED BY <1>4, <1>5, <2>1, <2>2, PlaceStep
<1>7. ASSUME NEW end \in Terminal, mapping[w] \in {"TURN_STARTED", end},
             mapping' = [mapping EXCEPT ![w] = end]
      PROVE  IInv'
  <2>1. /\ mapping'[w] = end /\ end \notin {"NONE", "THREAD_STARTED"} \cup Active
        /\ mapping' \in [Workers -> {"NONE"} \cup Active \cup Terminal]
        /\ \A v \in Workers : v # w => mapping'[v] = mapping[v]
    BY <1>7 DEF IInv, TypeOK, Terminal, Active
  <2>2. turned[w] /\ owner[w] = NoProc
    BY <1>2, <1>7 DEF Stored, Terminal
  <2>3. Local(p, w)
    BY <1>1, <1>3, <2>1 DEF Local, WorkerSame, serverVars
  <2>4. TypeOK'
    BY <1>1, <1>5, <2>1 DEF IInv, TypeOK, serverVars
  <2>5. Capacity'
    <3>1. Placed' \subseteq Placed
      BY <1>1, <2>1 DEF Placed
    <3> QED BY <1>1, <3>1, PlacesShrink DEF IInv
  <2>6. Stored(w)' /\ Asked(w)'
    BY <1>1, <1>2, <2>1, <2>2 DEF Stored, Asked, serverVars
  <2>7. ASSUME NEW q \in Procs, q # p PROVE Call(q, w)'
    <3>1. Call(q, w) /\ CallSame(q, w) /\ p # NoProc /\ q # NoProc
      BY <1>3, <2>7, Known DEF Call
    <3>2. pc[<<q, w>>] \notin Holding \cup {"threadAmbiguous"}
      BY <2>2, <3>1 DEF Call, Holds
    <3>3. Lives(q, w)' /\ Holds(q, w)'
      BY <1>1, <2>2, <3>1, <3>2 DEF Call, Lives, Holds, CallSame
    <3>4. BeforeThread(q, w)' /\ BeforeTurn(q, w)'
      BY <1>1, <2>2, <3>1, <3>2 DEF BeforeThread, BeforeTurn, CallSame, Holding
    <3> QED BY <3>3, <3>4 DEF Call
  <2> QED BY <1>4, <2>3, <2>4, <2>5, <2>6, <2>7, LocalStep
<1> QED BY <1>6, <1>7 DEF Await

-----------------------------------------------------------------------------
(* The App Server, the batches and the processes. *)

\* A request is carried out: the first of its kind.
LEMMA AnswerStep ==
    ASSUME IInv, NEW p \in Procs, NEW w \in Workers, Answer(p, w)
    PROVE  IInv'
<1>1. /\ request[<<p, w>>] = "sent" /\ request' = [request EXCEPT ![<<p, w>>] = "answered"]
      /\ UNCHANGED <<storeVars, alive, pc, knows, late>>
      /\ \/ pc[<<p, w>>] = "starting" /\ threads' = [threads EXCEPT ![w] = @ + 1] /\ UNCHANGED turns
         \/ pc[<<p, w>>] = "turning" /\ turns' = [turns EXCEPT ![w] = @ + 1] /\ UNCHANGED threads
  BY DEF Answer
<1>2. /\ Stored(w) /\ Asked(w) /\ Lives(p, w) /\ Holds(p, w) /\ BeforeThread(p, w)
      /\ BeforeTurn(p, w) /\ p # NoProc /\ <<p, w>> \in Calls /\ pc \in [Calls -> Places]
      /\ request \in [Calls -> {"none", "sent", "answered"}]
      /\ threads \in [Workers -> Nat] /\ turns \in [Workers -> Nat]
  BY Known DEF IInv, TypeOK, Calls
<1>3. /\ request'[<<p, w>>] = "answered"
      /\ \A q \in Procs, v \in Workers : v # w \/ q # p => CallSame(q, v)
  BY <1>1, <1>2 DEF CallSame, Calls
<1>4. /\ \A v \in Workers : v # w => threads'[v] = threads[v] /\ turns'[v] = turns[v]
      /\ threads' \in [Workers -> Nat] /\ turns' \in [Workers -> Nat]
      /\ pc[<<p, w>>] \in {"starting", "turning"}
  BY <1>1, <1>2
<1>5. Local(p, w)
  BY <1>1, <1>3, <1>4 DEF Local, WorkerSame, storeVars
<1>6. TypeOK'
  BY <1>1, <1>2, <1>4 DEF IInv, TypeOK, storeVars
<1>7. Capacity'
  BY <1>1, PlacesShrink DEF IInv, storeVars, Placed
<1>8. owner[w] = p /\ ~turned[w]
  BY <1>2, <1>4, Known DEF Holds, Holding
<1>9. Stored(w)'
  BY <1>1, <1>2 DEF Stored, storeVars
<1>10. Asked(w)'
  <2>1. CASE pc[<<p, w>>] = "starting" /\ threads' = [threads EXCEPT ![w] = @ + 1] /\ UNCHANGED turns
    <3>1. ThreadUnasked(w) /\ threads'[w] = 1
      BY <1>1, <1>2, <2>1 DEF BeforeThread, ThreadUnasked
    <3> QED BY <1>1, <1>2, <1>8, <2>1, <3>1 DEF Asked, ThreadUnasked, TurnUnasked, storeVars
  <2>2. CASE pc[<<p, w>>] = "turning" /\ turns' = [turns EXCEPT ![w] = @ + 1] /\ UNCHANGED threads
    <3>1. TurnUnasked(w) /\ turns'[w] = 1 /\ turnState[w] = "TURN_START_IN_FLIGHT"
      BY <1>1, <1>2, <2>2 DEF BeforeTurn, TurnUnasked
    <3> QED BY <1>1, <1>2, <1>8, <2>2, <3>1 DEF Asked, ThreadUnasked, TurnUnasked, storeVars
  <2> QED BY <1>1, <2>1, <2>2
<1>11. Call(p, w)'
  <2>1. Lives(p, w)' /\ Holds(p, w)'
    BY <1>1, <1>2, <1>4, <1>8 DEF Lives, Holds, storeVars
  <2>2. BeforeThread(p, w)' /\ BeforeTurn(p, w)'
    BY <1>1, <1>2, <1>3, <1>4 DEF BeforeThread, BeforeTurn, storeVars
  <2> QED BY <2>1, <2>2 DEF Call
<1>12. ASSUME NEW q \in Procs, q # p PROVE Call(q, w)'
  <2>1. TurnDoubt(w) => TurnDoubt(w)'
    BY <1>1 DEF TurnDoubt, storeVars
  <2> QED BY <1>5, <1>8, <1>12, <2>1, Bystanders
<1> QED BY <1>5, <1>6, <1>7, <1>9, <1>10, <1>11, <1>12, LocalStep

\* A request nobody waits for is carried out, or dropped.
LEMMA AnswerLateStep ==
    ASSUME IInv, NEW w \in Workers, NEW kind \in {"thread", "turn"}, AnswerLate(w, kind)
    PROVE  IInv'
<1>1. /\ kind \in late[w] /\ late' = [late EXCEPT ![w] = @ \ {kind}]
      /\ UNCHANGED <<storeVars, alive, pc, knows, request>>
      /\ \/ kind = "thread" /\ threads' = [threads EXCEPT ![w] = @ + 1] /\ UNCHANGED turns
         \/ kind = "turn" /\ turns' = [turns EXCEPT ![w] = @ + 1] /\ UNCHANGED threads
         \/ UNCHANGED <<threads, turns>>
  BY DEF AnswerLate
<1>2. /\ threads \in [Workers -> Nat] /\ turns \in [Workers -> Nat]
      /\ late \in [Workers -> SUBSET {"thread", "turn"}] /\ Stored(w) /\ Asked(w)
  BY DEF IInv, TypeOK, Sound
<1>3. /\ threads' \in [Workers -> Nat] /\ turns' \in [Workers -> Nat]
      /\ late' \in [Workers -> SUBSET {"thread", "turn"}]
      /\ late'[w] = late[w] \ {kind}
      /\ \A v \in Workers : v # w => WorkerSame(v)
  BY <1>1, <1>2 DEF WorkerSame, storeVars
<1>4. /\ kind = "thread" => ~ThreadUnasked(w) /\ threads[w] = 0 /\ threads'[w] \in {0, 1} /\ turns'[w] = turns[w]
      /\ kind = "turn" => ~TurnUnasked(w) /\ turns[w] = 0 /\ turns'[w] \in {0, 1} /\ threads'[w] = threads[w]
  BY <1>1, <1>2 DEF Asked, ThreadUnasked, TurnUnasked
<1>5. (ThreadUnasked(w) => ThreadUnasked(w)') /\ (TurnUnasked(w) => TurnUnasked(w)')
  BY <1>3, <1>4 DEF ThreadUnasked, TurnUnasked
<1>6. TypeOK'
  BY <1>1, <1>3 DEF IInv, TypeOK, storeVars
<1>7. Capacity'
  BY <1>1, PlacesShrink DEF IInv, storeVars, Placed
<1>8. ASSUME NEW v \in Workers PROVE Sound(v)'
  <2>1. Stored(v) /\ Asked(v) /\ \A p \in Procs : Call(p, v)
    BY DEF IInv, Sound
  <2>2. \A p \in Procs : CallSame(p, v)
    BY <1>1 DEF CallSame
  <2>3. CASE v # w
    BY <1>1, <1>3, <2>1, <2>2, <2>3, StoreStays, CallStays DEF Sound
  <2>4. CASE v = w
    <3>1. Stored(w)'
      BY <1>1, <1>2 DEF Stored, storeVars
    <3>2. Asked(w)'
      BY <1>1, <1>2, <1>3, <1>4, <1>5 DEF Asked, storeVars
    <3>3. ASSUME NEW p \in Procs PROVE Call(p, w)'
      <4>1. Call(p, w)
        BY <2>1, <2>4
      <4>2. Lives(p, w)' /\ Holds(p, w)'
        BY <1>1, <4>1 DEF Call, Lives, Holds, TurnDoubt, storeVars
      <4>3. BeforeThread(p, w)' /\ BeforeTurn(p, w)'
        BY <1>1, <1>5, <4>1 DEF Call, BeforeThread, BeforeTurn, storeVars
      <4> QED BY <4>2, <4>3 DEF Call
    <3> QED BY <2>4, <3>1, <3>2, <3>3 DEF Sound
  <2> QED BY <2>3, <2>4
<1> QED BY <1>6, <1>7, <1>8 DEF IInv

\* Batches close, other workers come and go.
LEMMA OutsideSteps ==
    ASSUME IInv, OthersMove \/ \E b \in Batches : CloseBatch(b)
    PROVE  IInv'
<1>1. /\ UNCHANGED <<mapping, turned, owner, startState, turnState, alive, pc, knows, serverVars>>
      /\ closed' \subseteq Batches
      /\ \/ others' = others
         \/ PlacesTaken < Limit /\ others' = others + 1
         \/ others > 0 /\ others' = others - 1
  BY DEF OthersMove, CloseBatch, IInv, TypeOK
<1>2. IsFiniteSet(Placed) /\ Cardinality(Placed) \in Nat /\ others \in 0..Limit /\ Limit \in Nat
  BY BrokerAssumption, FS_Subset, FS_CardinalityType DEF Placed, IInv, TypeOK
<1>3. Placed' = Placed
  BY <1>1 DEF Placed
<1>4. others' \in 0..Limit /\ Capacity'
  BY <1>1, <1>2, <1>3 DEF IInv, Capacity, PlacesTaken
<1>5. TypeOK'
  BY <1>1, <1>4 DEF IInv, TypeOK, serverVars
<1>6. ASSUME NEW v \in Workers PROVE Sound(v)'
  <2>1. WorkerSame(v) /\ alive' = alive /\ \A p \in Procs : CallSame(p, v)
    BY <1>1 DEF WorkerSame, CallSame, serverVars
  <2> QED BY <2>1, StoreStays, CallStays DEF IInv, Sound
<1> QED BY <1>4, <1>5, <1>6 DEF IInv

\* A process dies: its calls end, its reservations stay, its requests are out.
LEMMA DieStep ==
    ASSUME IInv, NEW p \in Procs, Die(p)
    PROVE  IInv'
<1>1. /\ alive[p] /\ alive' = [alive EXCEPT ![p] = FALSE]
      /\ late' = [w \in Workers |->
                    late[w] \cup (IF request[<<p, w>>] # "sent" THEN {}
                                  ELSE IF pc[<<p, w>>] = "starting" THEN {"thread"} ELSE {"turn"})]
      /\ request' = [c \in Calls |-> IF c[1] = p THEN "none" ELSE request[c]]
      /\ pc' = [c \in Calls |-> IF c[1] = p THEN "idle" ELSE pc[c]]
      /\ knows' = [c \in Calls |-> IF c[1] = p THEN FALSE ELSE knows[c]]
      /\ UNCHANGED <<storeVars, threads, turns>>
  BY DEF Die
<1>2. TypeOK'
  <2>1. /\ alive' \in [Procs -> BOOLEAN] /\ late' \in [Workers -> SUBSET {"thread", "turn"}]
        /\ request' \in [Calls -> {"none", "sent", "answered"}]
        /\ pc' \in [Calls -> Places] /\ knows' \in [Calls -> BOOLEAN]
    BY <1>1 DEF IInv, TypeOK, Places
  <2> QED BY <1>1, <2>1 DEF IInv, TypeOK, storeVars
<1>3. Capacity'
  BY <1>1, PlacesShrink DEF IInv, storeVars, Placed
<1>4. ASSUME NEW w \in Workers PROVE Sound(w)'
  <2>1. /\ Stored(w) /\ Asked(w) /\ Lives(p, w) /\ Holds(p, w) /\ BeforeThread(p, w)
        /\ BeforeTurn(p, w) /\ p # NoProc
    BY Known
  <2>2. /\ pc'[<<p, w>>] = "idle" /\ request'[<<p, w>>] = "none"
        /\ \A q \in Procs : q # p => CallSame(q, w)
        /\ ~alive'[p] /\ \A q \in Procs : q # p => alive'[q] = alive[q]
        /\ late'[w] = late[w] \cup (IF request[<<p, w>>] # "sent" THEN {}
                                    ELSE IF pc[<<p, w>>] = "starting" THEN {"thread"} ELSE {"turn"})
    BY <1>1 DEF CallSame, Calls, IInv, TypeOK
  <2>3. Stored(w)'
    BY <1>1, <2>1 DEF Stored, storeVars
  <2>4. request[<<p, w>>] = "sent" =>
           /\ owner[w] = p /\ ~turned[w]
           /\ pc[<<p, w>>] = "starting" => ThreadUnasked(w) /\ turnState[w] = "TURN_START_NOT_STARTED"
           /\ pc[<<p, w>>] # "starting" => TurnUnasked(w) /\ turnState[w] = "TURN_START_IN_FLIGHT"
    BY <2>1, Known DEF Lives, Holds, Holding, BeforeThread, BeforeTurn
  <2>5. Asked(w)'
    <3>1. CASE request[<<p, w>>] # "sent"
      BY <1>1, <2>1, <2>2, <3>1 DEF Asked, ThreadUnasked, TurnUnasked, storeVars
    <3>2. CASE request[<<p, w>>] = "sent" /\ pc[<<p, w>>] = "starting"
      BY <1>1, <2>1, <2>2, <2>4, <3>2 DEF Asked, ThreadUnasked, TurnUnasked, storeVars
    <3>3. CASE request[<<p, w>>] = "sent" /\ pc[<<p, w>>] # "starting"
      BY <1>1, <2>1, <2>2, <2>4, <3>3 DEF Asked, ThreadUnasked, TurnUnasked, storeVars
    <3> QED BY <3>1, <3>2, <3>3
  <2>6. ASSUME NEW q \in Procs PROVE Call(q, w)'
    <3>1. CASE q = p
      BY <2>2, <3>1 DEF Call, Lives, Holds, Holding, BeforeThread, BeforeTurn
    <3>2. CASE q # p
      <4>1. /\ Lives(q, w) /\ Holds(q, w) /\ BeforeThread(q, w) /\ BeforeTurn(q, w)
            /\ CallSame(q, w) /\ alive'[q] = alive[q] /\ (owner[w] = q => ~turned[w])
        BY <2>2, <3>2, Known
      <4>2. TurnDoubt(w) => TurnDoubt(w)'
        BY <1>1, <2>2 DEF TurnDoubt, storeVars, IInv, TypeOK
      <4>3. Lives(q, w)' /\ Holds(q, w)'
        BY <1>1, <4>1, <4>2 DEF Lives, Holds, CallSame, storeVars
      <4>4. owner[w] = q => late'[w] = late[w]
        BY <2>2, <2>4, <3>2
      <4>5. BeforeThread(q, w)'
        <5>1. pc[<<q, w>>] \in {"validating", "starting", "threadAmbiguous"} => owner[w] = q
          BY <4>1 DEF Holds, Holding
        <5> QED BY <1>1, <4>1, <4>4, <5>1 DEF BeforeThread, ThreadUnasked, CallSame, storeVars
      <4>6. BeforeTurn(q, w)'
        <5>1. pc[<<q, w>>] \in {"reading", "resuming", "marking", "turning"} => owner[w] = q
          BY <4>1 DEF Holds, Holding
        <5> QED BY <1>1, <4>1, <4>4, <5>1 DEF BeforeTurn, ThreadUnasked, TurnUnasked, CallSame, storeVars
      <4> QED BY <4>3, <4>5, <4>6 DEF Call
    <3> QED BY <3>1, <3>2
  <2> QED BY <2>3, <2>5, <2>6 DEF Sound
<1> QED BY <1>2, <1>3, <1>4 DEF IInv


-----------------------------------------------------------------------------
(* The invariant. *)

\* At the start nothing is reserved and nothing was asked for.
LEMMA InitIInv == Init => IInv
<1> SUFFICES ASSUME Init PROVE IInv
  OBVIOUS
<1>1. TypeOK
  BY BrokerAssumption DEF Init, TypeOK, Places
<1>2. Capacity
  <2>1. Placed = {}
    BY DEF Init, Placed, Active
  <2>2. Cardinality(Placed) = 0 /\ others = 0
    BY <2>1, FS_EmptySet DEF Init
  <2> QED BY <2>2, BrokerAssumption DEF Capacity, PlacesTaken
<1>3. ASSUME NEW w \in Workers PROVE Stored(w) /\ Asked(w)
  BY DEF Init, Stored, Asked, ThreadUnasked, TurnUnasked
<1>4. ASSUME NEW w \in Workers, NEW p \in Procs PROVE Call(p, w)
  <2>1. pc[<<p, w>>] = "idle" /\ request[<<p, w>>] = "none"
    BY DEF Init, Calls
  <2> QED BY <2>1 DEF Call, Lives, Holds, Holding, BeforeThread, BeforeTurn
<1> QED BY <1>1, <1>2, <1>3, <1>4 DEF IInv, Sound

\* A step that changes nothing.
LEMMA StutterStep == IInv /\ UNCHANGED vars => IInv'
<1> SUFFICES ASSUME IInv, UNCHANGED vars PROVE IInv'
  OBVIOUS
<1> USE DEF vars, storeVars, serverVars
<1>1. TypeOK'
  BY DEF IInv, TypeOK
<1>2. Capacity'
  <2>1. Placed' = Placed
    BY DEF Placed
  <2> QED BY <2>1 DEF IInv, Capacity, PlacesTaken
<1>3. ASSUME NEW w \in Workers PROVE Sound(w)'
  <2>1. Stored(w)' /\ Asked(w)'
    BY StoreStays DEF WorkerSame, IInv, Sound
  <2>2. ASSUME NEW p \in Procs PROVE Call(p, w)'
    BY <2>2, CallStays DEF WorkerSame, CallSame, IInv, Sound
  <2> QED BY <2>1, <2>2 DEF Sound
<1> QED BY <1>1, <1>2, <1>3 DEF IInv

\* Every step keeps it.
LEMMA NextIInv == IInv /\ [Next]_vars => IInv'
<1> SUFFICES ASSUME IInv, [Next]_vars PROVE IInv'
  OBVIOUS
<1>1. ASSUME NEW p \in Procs, NEW w \in Workers, Step(p, w) PROVE IInv'
  <2>1. CASE Start(p, w)
    BY <2>1, StartStep
  <2>2. CASE Reserve(p, w)
    BY <2>2, ReserveStep
  <2>3. CASE Abandon(p, w) \/ Validate(p, w) \/ ReadThread(p, w) \/ Resume(p, w)
    BY <2>3, EarlySteps
  <2>4. CASE PutMapping(p, w)
    BY <2>4, PutMappingStep
  <2>5. CASE StartThrows(p, w) \/ TurnThrows(p, w)
    BY <2>5, ThrowSteps
  <2>6. CASE MarkInFlight(p, w)
    BY <2>6, MarkInFlightStep
  <2>7. CASE PatchTurn(p, w)
    BY <2>7, PatchTurnStep
  <2>8. CASE CleanUp(p, w)
    BY <2>8, CleanUpStep
  <2>9. CASE Recover(p, w) \/ RecordRecovered(p, w)
    BY <2>9, RecoverSteps
  <2>10. CASE Await(p, w)
    BY <2>10, AwaitStep
  <2> QED BY <1>1, <2>1, <2>2, <2>3, <2>4, <2>5, <2>6, <2>7, <2>8, <2>9, <2>10 DEF Step
<1>2. CASE \E p \in Procs, w \in Workers : Step(p, w) \/ Answer(p, w)
  BY <1>1, <1>2, AnswerStep
<1>3. CASE \E w \in Workers, kind \in {"thread", "turn"} : AnswerLate(w, kind)
  BY <1>3, AnswerLateStep
<1>4. CASE OthersMove \/ \E b \in Batches : CloseBatch(b)
  BY <1>4, OutsideSteps
<1>5. CASE \E p \in Procs : Die(p)
  BY <1>5, DieStep
<1>6. CASE UNCHANGED vars
  BY <1>6, StutterStep
<1> QED BY <1>2, <1>3, <1>4, <1>5, <1>6 DEF Next

\* The invariant holds throughout (thread-broker.mjs:450-654, with the
\* reservations of runtime-store.mjs:532-960).
THEOREM Invariance == Spec => []IInv
  BY InitIInv, NextIInv, PTL DEF Spec

-----------------------------------------------------------------------------
(* What the broker promises, for any number of everything. *)

\* Every variable keeps its type; no counter of another worker's places leaves
\* 0..Limit (runtime-store.mjs:614-622).
THEOREM TypeCorrect == Spec => []TypeOK
<1>1. IInv => TypeOK
  BY DEF IInv
<1> QED BY <1>1, Invariance, PTL

\* However many processes start a worker, die and start it again, and however
\* late the App Server answers, it starts one thread and one turn at most
\* (thread-broker.mjs:450-654, runtime-store.mjs:532-644).
THEOREM AtMostOnce == Spec => []StartedOnce
<1>1. IInv => StartedOnce
  BY DEF IInv, Sound, Asked, StartedOnce
<1> QED BY <1>1, Invariance, PTL

\* A thread or a turn that was started is in the mapping, or a reservation says
\* that it may exist (the catch block, thread-broker.mjs:627-653).
THEOREM NothingForgotten == Spec => []StartsRemembered
<1>1. IInv => StartsRemembered
  <2> SUFFICES ASSUME IInv, NEW w \in Workers
               PROVE  /\ threads[w] > 0 =>
                            \/ mapping[w] # "NONE"
                            \/ owner[w] # NoProc /\ startState[w] # "LIFECYCLE_ACTIVE"
                      /\ turns[w] > 0 =>
                            /\ mapping[w] # "NONE"
                            /\ \/ turned[w]
                               \/ owner[w] # NoProc /\ turnState[w] # "TURN_START_NOT_STARTED"
    BY DEF StartsRemembered
  <2>1. Stored(w) /\ Asked(w)
    BY DEF IInv, Sound
  <2> QED BY <2>1 DEF Stored, Asked, ThreadUnasked, TurnUnasked
<1> QED BY <1>1, Invariance, PTL

\* No step leads to a store that validateState would reject
\* (runtime-store.mjs:297-306, 453-463).
THEOREM StoreAlwaysLoads == Spec => []StoreLoads
<1>1. IInv => StoreLoads
  BY DEF IInv, Sound, Stored, StoreLoads
<1> QED BY <1>1, Invariance, PTL

\* The limit on implementation workers holds over all processes and batches,
\* whoever dies holding a place (runtime-store.mjs:614-622).
THEOREM WithinCapacity == Spec => []Capacity
<1>1. IInv => Capacity
  BY DEF IInv
<1> QED BY <1>1, Invariance, PTL

\* A reservation belongs to its owner from the grant to the record of the turn
\* (assertOwned, thread-broker.mjs:377-381; the owner_token checks of the store).
THEOREM OwnersAlwaysOwn == Spec => OwnersOwn
<1>1. IInv /\ IInv' => [\A p \in Procs, w \in Workers :
                          pc[<<p, w>>] \in Holding /\ pc'[<<p, w>>] = pc[<<p, w>>]
                             => owner[w] = p /\ owner'[w] = p]_vars
  BY DEF IInv, Sound, Call, Holds
<1> QED BY <1>1, Invariance, PTL DEF OwnersOwn
=============================================================================
