-------------------------- MODULE NightQueueProofs --------------------------
(***************************************************************************)
(* The safety properties of NightQueue for every set of batches and of     *)
(* services, and every lease, expiry and lock timeout.                     *)
(*                                                                         *)
(* IInv is their inductive strengthening.  What it adds to the properties: *)
(* a service inside a claim knows its batch, sequence numbers lie below    *)
(* the next one, only a submitted batch was ever claimed, and the owner in *)
(* the store is the one of the last claim.                                 *)
(***************************************************************************)
EXTENDS NightQueue, TLAPS

JobHeld ==
    \A s \in Services : pc[s] \notin Outside \cup {"claiming"} => job[s] \in Batches

SequencesBelow == \A b \in Batches : sequence[b] < nextSequence

ClaimedIfGranted == \A b \in Batches : state[b] = "ABSENT" => granted[b] = 0

OwnerIsLastClaim == \A b \in Batches : owner[b] # 0 => owner[b] = granted[b]

IInv ==
    /\ TypeOK
    /\ JobHeld
    /\ StoreValid
    /\ SequencesBelow
    /\ ClaimedIfGranted
    /\ OwnerIsLastClaim
    /\ HeadOfLine
    /\ OutcomeByLastClaim

-----------------------------------------------------------------------------
(* The service's own variables. *)

\* Wherever a service goes, its variables keep their types.
LEMMA MoveKeepsType ==
    ASSUME ServiceType, NEW s \in Services,
           NEW p \in Outside \cup {"handling"} \cup Calls, NEW failed \in BOOLEAN,
           Move(s, p, failed)
    PROVE  ServiceType'
<1>1. pc' \in [Services -> Outside \cup {"handling"} \cup Calls]
  BY DEF ServiceType, Move
<1>2. job' \in [Services -> Batches \cup {NoBatch}]
  BY DEF ServiceType, Move
<1>3. token' \in [Services -> Nat]
  BY DEF ServiceType, Move
<1>4. lag' \in [Services -> 0..MaxLag]
  BY QueueAssumption DEF ServiceType, Move
<1>5. beatFailed' \in [Services -> BOOLEAN]
  <2> DEFINE now == p \notin Outside /\ failed
  <2>1. now \in BOOLEAN
    OBVIOUS
  <2>2. beatFailed' = [beatFailed EXCEPT ![s] = now]
    BY DEF Move
  <2> HIDE DEF now
  <2> QED
    BY <2>1, <2>2 DEF ServiceType
<1> QED
  BY <1>1, <1>2, <1>3, <1>4, <1>5 DEF ServiceType

\* ... and it never enters a claim's call without the claim.
LEMMA MoveKeepsJob ==
    ASSUME ServiceType, JobHeld, NEW s \in Services,
           NEW p \in Outside \cup {"handling"} \cup Calls, NEW failed \in BOOLEAN,
           p \in Outside \cup {"claiming"} \/ job[s] \in Batches,
           Move(s, p, failed)
    PROVE  JobHeld'
  BY DEF ServiceType, JobHeld, Move, Outside, Calls

\* An exception leaves serve() or stays inside the claim.
LEMMA ThrowKeeps ==
    ASSUME ServiceType, JobHeld, NEW s \in Services, Throw(s)
    PROVE  ServiceType' /\ JobHeld'
<1>1. PICK failed \in BOOLEAN : Move(s, ErrorPc(s), failed)
  BY DEF Throw, ServiceType
<1>2. ErrorPc(s) \in Outside \cup {"handling"} \cup Calls
  BY DEF ErrorPc, Outside, Calls
<1>3. ErrorPc(s) \in Outside \cup {"claiming"} \/ job[s] \in Batches
  BY DEF ErrorPc, Outside, JobHeld
<1> QED
  BY <1>1, <1>2, <1>3, MoveKeepsType, MoveKeepsJob

LEMMA GotoKeeps ==
    ASSUME ServiceType, JobHeld, NEW s \in Services,
           NEW p \in Outside \cup {"handling"} \cup Calls,
           p \in Outside \cup {"claiming"} \/ job[s] \in Batches,
           Goto(s, p)
    PROVE  ServiceType' /\ JobHeld'
<1>1. beatFailed[s] \in BOOLEAN
  BY DEF ServiceType
<1> QED
  BY <1>1, MoveKeepsType, MoveKeepsJob DEF Goto

LEMMA ReturnKeeps ==
    ASSUME ServiceType, JobHeld, NEW s \in Services,
           NEW p \in Outside \cup {"handling"} \cup Calls,
           p \in Outside \cup {"claiming"} \/ job[s] \in Batches,
           ReturnTo(s, p)
    PROVE  ServiceType' /\ JobHeld'
  BY GotoKeeps, ThrowKeeps DEF ReturnTo

\* Every step of a service but a claim is one of these.
LEMMA ServiceStepKeeps ==
    ASSUME ServiceType, JobHeld, NEW s \in Services,
           \/ Poll(s) \/ ClaimNothing(s) \/ Begin(s) \/ StartBeat(s) \/ Heartbeat(s)
           \/ HandlerDone(s) \/ Complete(s) \/ Fail(s) \/ Refused(s) \/ Busy(s)
           \/ Crash(s) \/ Restart(s)
    PROVE  ServiceType' /\ JobHeld'
<1> USE DEF Outside, Calls
<1>1. CASE Poll(s) BY <1>1, GotoKeeps DEF Poll
<1>2. CASE ClaimNothing(s) BY <1>2, ReturnKeeps DEF ClaimNothing
<1>3. CASE Begin(s) BY <1>3, ReturnKeeps DEF Begin, JobHeld
<1>4. CASE StartBeat(s) BY <1>4, GotoKeeps DEF StartBeat, JobHeld
<1>5. CASE Heartbeat(s) BY <1>5, ReturnKeeps DEF Heartbeat, JobHeld
<1>6. CASE HandlerDone(s) BY <1>6, GotoKeeps DEF HandlerDone, JobHeld
<1>7. CASE Complete(s) BY <1>7, ReturnKeeps DEF Complete, Settle
<1>8. CASE Fail(s) BY <1>8, ReturnKeeps DEF Fail, Settle
<1>9. CASE Refused(s) BY <1>9, ThrowKeeps DEF Refused
<1>10. CASE Busy(s) BY <1>10, ThrowKeeps DEF Busy
<1>11. CASE Crash(s) BY <1>11, GotoKeeps DEF Crash
<1>12. CASE Restart(s) BY <1>12, GotoKeeps DEF Restart
<1> QED
  BY <1>1, <1>2, <1>3, <1>4, <1>5, <1>6, <1>7, <1>8, <1>9, <1>10, <1>11, <1>12

-----------------------------------------------------------------------------
(* What a sweep does to one batch. *)

\* A sweep moves a batch only out of QUEUED or an active state, into QUEUED or
\* EXPIRED, and leaves a queued batch with time.
LEMMA SweptCases ==
    ASSUME StoreType, StoreValid, NEW age \in 0..MaxLag, NEW b \in Batches
    PROVE  /\ \/ Swept(b, age) = state[b]
              \/ /\ state[b] \in {"QUEUED"} \cup Active
                 /\ Swept(b, age) = "EXPIRED"
              \/ /\ state[b] \in Active
                 /\ Swept(b, age) = "QUEUED"
           /\ Swept(b, age) # state[b] /\ state[b] \in Active => left[b] <= 0
           /\ Swept(b, age) = "QUEUED" => ~Expired(b, age)
<1>1. /\ left[b] \in Int /\ ttl[b] \in Int /\ age \in Nat
      /\ state[b] \in {"ABSENT", "QUEUED"} \cup Active \cup Terminal
  BY QueueAssumption DEF StoreType
<1>2. owner[b] # 0 <=> state[b] \in Active
  BY DEF StoreValid
<1> QED
  BY <1>1, <1>2, QueueAssumption DEF Swept, Expired, Lapsed, Active, Terminal

LEMMA SweptType ==
    ASSUME StoreType, StoreValid, NEW age \in 0..MaxLag, NEW b \in Batches
    PROVE  /\ Swept(b, age) \in {"ABSENT", "QUEUED"} \cup Active \cup Terminal
           /\ SweptOwner(b, age) \in Nat
           /\ SweptLeft(b, age) \in (-MaxLag)..Lease
<1>1. /\ state[b] \in {"ABSENT", "QUEUED"} \cup Active \cup Terminal
      /\ owner[b] \in Nat /\ left[b] \in (-MaxLag)..Lease
      /\ 0 \in (-MaxLag)..Lease
  BY QueueAssumption DEF StoreType
<1> QED
  BY <1>1, SweptCases DEF SweptOwner, SweptLeft, Terminal

\* After a sweep the batch active_batch_id names is the active one, and an
\* inactive batch has no claim.
LEMMA SweptValid ==
    ASSUME StoreType, StoreValid, NEW age \in 0..MaxLag, NEW b \in Batches
    PROVE  /\ Swept(b, age) \in Active <=> SweptActive(age) = b
           /\ SweptOwner(b, age) # 0 <=> Swept(b, age) \in Active
           /\ SweptOwner(b, age) # 0 => SweptOwner(b, age) = owner[b]
<1>1. /\ active \in Batches \cup {NoBatch} /\ NoBatch \notin Batches
      /\ state[b] \in Active <=> active = b
      /\ owner[b] # 0 <=> state[b] \in Active
  BY QueueAssumption DEF StoreType, StoreValid
<1>2. "QUEUED" \notin Active /\ "EXPIRED" \notin Active
  BY DEF Active
<1> QED
  BY <1>1, <1>2, SweptCases DEF SweptActive, SweptOwner

\* An ended batch is left alone, and a batch absent or ended after a sweep was
\* so before it or has just expired.
LEMMA SweptEnds ==
    ASSUME StoreType, StoreValid, NEW age \in 0..MaxLag, NEW b \in Batches
    PROVE  /\ state[b] \in Terminal => Swept(b, age) = state[b]
           /\ Swept(b, age) = "ABSENT" <=> state[b] = "ABSENT"
           /\ Swept(b, age) \in {"COMPLETED", "FAILED"} => Swept(b, age) = state[b]
  BY SweptCases DEF Active, Terminal

\* The batch a claim picks waits at the head: what joined before it has ended.
LEMMA FirstIsHead ==
    ASSUME StoreType, StoreValid, NEW age \in 0..MaxLag, NEW b \in Batches,
           SweptActive(age) = NoBatch, IsFirst(b, Candidates(age)),
           NEW c \in Batches, sequence[c] \in 1..(sequence[b] - 1)
    PROVE  Swept(c, age) \in Terminal
<1>1. sequence[c] \in Nat /\ sequence[b] \in Nat /\ sequence[c] # 0 /\ ~(sequence[b] <= sequence[c])
  BY DEF StoreType
<1>2. Swept(c, age) \notin Active
  BY SweptValid, QueueAssumption
<1>3. state[c] # "ABSENT" /\ Swept(c, age) # "ABSENT"
  BY <1>1, SweptEnds DEF StoreValid
<1>4. Swept(c, age) # "QUEUED"
  BY <1>1, SweptCases DEF IsFirst, Candidates
<1> QED
  BY <1>2, <1>3, <1>4, SweptType

-----------------------------------------------------------------------------
(* One lemma per kind of step: the invariant is inductive. *)

LEMMA InitHolds == Init => IInv
<1> SUFFICES ASSUME Init PROVE IInv
  OBVIOUS
<1>1. StoreType
  BY QueueAssumption DEF Init, StoreType
<1>2. ServiceType
  BY QueueAssumption DEF Init, ServiceType, Outside
<1>3. granted \in [Batches -> Nat] /\ settledBy \in [Batches -> Nat]
  BY DEF Init
<1>4. StoreValid
  BY QueueAssumption DEF Init, StoreValid, Active
<1> QED
  BY <1>1, <1>2, <1>3, <1>4
     DEF Init, IInv, TypeOK, JobHeld, Outside, SequencesBelow, ClaimedIfGranted,
         OwnerIsLastClaim, HeadOfLine, OutcomeByLastClaim

\* A step that writes neither the store nor the history.
LEMMA QuietStep ==
    ASSUME IInv, ServiceType', JobHeld', UNCHANGED <<storeVars, history>>
    PROVE  IInv'
  BY DEF IInv, storeVars, history, TypeOK, StoreType, StoreValid, SequencesBelow,
         ClaimedIfGranted, OwnerIsLastClaim, HeadOfLine, OutcomeByLastClaim

\* A new batch joins with the largest number, so before nobody.
LEMMA SubmitStep ==
    ASSUME IInv, NEW b \in Batches, Submit(b)
    PROVE  IInv'
<1> USE DEF IInv, TypeOK, history, serviceVars
<1>1. /\ state' = [state EXCEPT ![b] = "QUEUED"]
      /\ sequence' = [sequence EXCEPT ![b] = nextSequence]
      /\ nextSequence' = nextSequence + 1
      /\ state[b] = "ABSENT" /\ granted[b] = 0 /\ sequence[b] = 0
      /\ UNCHANGED <<active, owner, left, granted, settledBy>>
  BY DEF Submit, ClaimedIfGranted, StoreValid
<1>2. StoreType'
  <2>1. PICK age \in 0..MaxLag : ttl' = [ttl EXCEPT ![b] = Expiry - age]
    BY DEF Submit
  <2>2. Expiry - age \in (-MaxLag)..Expiry
    BY QueueAssumption
  <2> QED
    BY <1>1, <2>1, <2>2 DEF StoreType
<1>3. ServiceType' /\ JobHeld'
  BY DEF Submit, ServiceType, JobHeld
<1>4. StoreValid'
  <2>1. \A c \in Batches : sequence[c] < nextSequence
    BY DEF SequencesBelow
  <2>2. nextSequence \in Nat \ {0} /\ \A c \in Batches : sequence[c] \in Nat
    BY DEF StoreType
  <2>3. \A c \in Batches :
        /\ state'[c] = IF c = b THEN "QUEUED" ELSE state[c]
        /\ sequence'[c] = IF c = b THEN nextSequence ELSE sequence[c]
    BY <1>1 DEF StoreType
  <2> QED
    BY <1>1, <2>1, <2>2, <2>3 DEF StoreValid, Active
<1>5. SequencesBelow'
  BY <1>1 DEF SequencesBelow, StoreType
<1>6. ClaimedIfGranted' /\ OwnerIsLastClaim' /\ OutcomeByLastClaim'
  BY <1>1 DEF ClaimedIfGranted, OwnerIsLastClaim, OutcomeByLastClaim, StoreType
<1>7. HeadOfLine'
  BY <1>1 DEF HeadOfLine, SequencesBelow, StoreType, Terminal
<1> QED
  BY <1>1, <1>2, <1>3, <1>4, <1>5, <1>6, <1>7

LEMMA SweepStep ==
    ASSUME IInv, NEW age \in 0..MaxLag, Sweep(age), ServiceType', JobHeld',
           UNCHANGED <<sequence, nextSequence, ttl, granted, settledBy>>
    PROVE  IInv'
<1> USE DEF IInv, TypeOK
<1>1. \A b \in Batches :
      /\ state'[b] = Swept(b, age)
      /\ owner'[b] = SweptOwner(b, age)
      /\ left'[b] = SweptLeft(b, age)
  BY DEF Sweep
<1>2. StoreType'
  <2>1. SweptActive(age) \in Batches \cup {NoBatch}
    BY DEF StoreType, SweptActive
  <2> QED
    BY <2>1, SweptType DEF Sweep, StoreType
<1>3. StoreValid'
  <2>1. active' = SweptActive(age)
    BY DEF Sweep
  <2>2. \A b \in Batches :
        /\ state'[b] \in Active <=> active' = b
        /\ owner'[b] # 0 <=> state'[b] \in Active
    BY <1>1, <2>1, SweptValid
  <2>3. \A b \in Batches : state'[b] = "ABSENT" <=> sequence'[b] = 0
    BY <1>1, SweptEnds DEF StoreValid
  <2>4. \A b, c \in Batches :
            sequence'[b] = sequence'[c] /\ sequence'[b] # 0 => b = c
    BY DEF StoreValid
  <2> QED
    BY <2>2, <2>3, <2>4 DEF StoreValid
<1>4. ClaimedIfGranted' /\ SequencesBelow'
  BY <1>1, SweptEnds DEF ClaimedIfGranted, SequencesBelow
<1>5. OwnerIsLastClaim'
  BY <1>1, SweptValid DEF OwnerIsLastClaim
<1>6. HeadOfLine'
  BY <1>1, SweptEnds DEF HeadOfLine
<1>7. OutcomeByLastClaim'
  BY <1>1, SweptEnds DEF OutcomeByLastClaim
<1> QED
  BY <1>2, <1>3, <1>4, <1>5, <1>6, <1>7

\* A claim is granted to the head of the line, when nobody is served.
LEMMA ClaimStep ==
    ASSUME IInv, NEW s \in Services, NEW b \in Batches, ClaimNext(s, b)
    PROVE  IInv'
<1> USE DEF IInv, TypeOK
<1> DEFINE age == lag[s]
<1>0. age \in 0..MaxLag /\ granted[b] \in Nat /\ granted[b] + 1 \in Nat \ {0}
  BY DEF ServiceType
<1> HIDE DEF age
<1>1. /\ \A c \in Batches :
            /\ state'[c] = IF c = b THEN "CLAIMED" ELSE Swept(c, age)
            /\ owner'[c] = IF c = b THEN granted[b] + 1 ELSE SweptOwner(c, age)
            /\ granted'[c] = IF c = b THEN granted[b] + 1 ELSE granted[c]
      /\ active' = b
      /\ SweptActive(age) = NoBatch
      /\ IsFirst(b, Candidates(age))
      /\ UNCHANGED <<sequence, nextSequence, ttl, settledBy>>
  BY DEF ClaimNext, age
<1>2. StoreType'
  <2>1. Lease - age \in (-MaxLag)..Lease
    BY <1>0, QueueAssumption
  <2>2. left' = [c \in Batches |-> IF c = b THEN Lease - age ELSE SweptLeft(c, age)]
    BY DEF ClaimNext, age
  <2>3. /\ state' = [c \in Batches |-> IF c = b THEN "CLAIMED" ELSE Swept(c, age)]
        /\ owner' = [c \in Batches |-> IF c = b THEN granted[b] + 1 ELSE SweptOwner(c, age)]
    BY DEF ClaimNext, age
  <2> QED
    BY <1>0, <1>1, <2>1, <2>2, <2>3, SweptType DEF StoreType, Active
<1>3. ServiceType' /\ JobHeld'
  <2>1. CASE Throw(s)
    BY <2>1, ThrowKeeps
  <2>2. CASE ~Throw(s)
    <3>1. /\ pc' = [pc EXCEPT ![s] = "beginning"]
          /\ lag' = [lag EXCEPT ![s] = 0]
          /\ job' = [job EXCEPT ![s] = b]
          /\ token' = [token EXCEPT ![s] = granted[b] + 1]
          /\ UNCHANGED beatFailed
      BY <2>2 DEF ClaimNext
    <3> QED
      BY <1>0, <3>1, QueueAssumption DEF ServiceType, JobHeld, Outside, Calls
  <2> QED
    BY <2>1, <2>2
<1>4. granted' \in [Batches -> Nat] /\ settledBy' \in [Batches -> Nat]
  BY <1>0 DEF ClaimNext
<1>5. \A c \in Batches : Swept(c, age) \notin Active
  BY <1>0, <1>1, SweptValid, QueueAssumption
<1>6. Swept(b, age) = "QUEUED"
  BY <1>1 DEF IsFirst, Candidates
<1>7. StoreValid'
  <2>1. \A c \in Batches :
        /\ state'[c] \in Active <=> active' = c
        /\ owner'[c] # 0 <=> state'[c] \in Active
    BY <1>0, <1>1, <1>5, SweptValid DEF Active
  <2>2. \A c \in Batches : state'[c] = "ABSENT" <=> sequence'[c] = 0
    BY <1>0, <1>1, <1>6, SweptEnds DEF StoreValid
  <2>3. \A c, d \in Batches :
            sequence'[c] = sequence'[d] /\ sequence'[c] # 0 => c = d
    BY <1>1 DEF StoreValid
  <2> QED
    BY <2>1, <2>2, <2>3 DEF StoreValid
<1>8. ClaimedIfGranted' /\ SequencesBelow'
  BY <1>0, <1>1, SweptEnds DEF ClaimedIfGranted, SequencesBelow
<1>9. OwnerIsLastClaim'
  BY <1>0, <1>1, SweptValid DEF OwnerIsLastClaim
<1>10. HeadOfLine'
  <2> SUFFICES ASSUME NEW c \in Batches, NEW d \in Batches,
                      granted'[c] # 0, sequence'[d] \in 1..(sequence'[c] - 1)
               PROVE  state'[d] \in Terminal
    BY DEF HeadOfLine
  <2>1. Swept(d, age) \in Terminal
    <3>1. CASE c = b
      BY <1>0, <1>1, <3>1, FirstIsHead
    <3>2. CASE c # b
      BY <1>0, <1>1, <3>2, SweptEnds DEF HeadOfLine
    <3> QED
      BY <3>1, <3>2
  <2>2. d # b
    BY <1>6, <2>1 DEF Terminal
  <2> QED
    BY <1>1, <2>1, <2>2
<1>11. OutcomeByLastClaim'
  BY <1>0, <1>1, SweptEnds DEF OutcomeByLastClaim
<1> QED
  BY <1>2, <1>3, <1>4, <1>7, <1>8, <1>9, <1>10, <1>11

LEMMA BeginStep ==
    ASSUME IInv, NEW s \in Services, Begin(s)
    PROVE  IInv'
<1> USE DEF IInv, TypeOK
<1>1. ServiceType' /\ JobHeld'
  BY ServiceStepKeeps
<1>2. /\ state' = [state EXCEPT ![job[s]] = "RUNNING"]
      /\ job[s] \in Batches /\ state[job[s]] \in Active
      /\ UNCHANGED <<sequence, nextSequence, active, ttl, owner, left, granted, settledBy>>
  BY DEF Begin, Claimed, JobHeld, Outside, history
<1>3. StoreType'
  BY <1>2 DEF StoreType, Active
<1>4. \A c \in Batches : state'[c] = IF c = job[s] THEN "RUNNING" ELSE state[c]
  BY <1>2 DEF StoreType
<1>5. StoreValid'
  BY <1>2, <1>4 DEF StoreValid, Active
<1>6. SequencesBelow' /\ ClaimedIfGranted' /\ OwnerIsLastClaim' /\ OutcomeByLastClaim'
  BY <1>2, <1>4 DEF SequencesBelow, ClaimedIfGranted, OwnerIsLastClaim, OutcomeByLastClaim
<1>7. HeadOfLine'
  BY <1>2, <1>4 DEF HeadOfLine, Active, Terminal
<1> QED
  BY <1>1, <1>2, <1>3, <1>5, <1>6, <1>7

LEMMA HeartbeatStep ==
    ASSUME IInv, NEW s \in Services, Heartbeat(s)
    PROVE  IInv'
<1> USE DEF IInv, TypeOK
<1>1. ServiceType' /\ JobHeld'
  BY ServiceStepKeeps
<1>2. /\ left' = [left EXCEPT ![job[s]] = Lease - lag[s]]
      /\ lag[s] \in 0..MaxLag
      /\ UNCHANGED <<state, sequence, nextSequence, active, ttl, owner, granted, settledBy>>
  BY DEF Heartbeat, history, ServiceType
<1>3. Lease - lag[s] \in (-MaxLag)..Lease
  BY <1>2, QueueAssumption
<1>4. StoreType'
  BY <1>2, <1>3 DEF StoreType
<1>5. /\ StoreValid' /\ SequencesBelow' /\ ClaimedIfGranted'
      /\ OwnerIsLastClaim' /\ OutcomeByLastClaim' /\ HeadOfLine'
  BY <1>2 DEF StoreValid, SequencesBelow, ClaimedIfGranted, OwnerIsLastClaim,
              OutcomeByLastClaim, HeadOfLine
<1> QED
  BY <1>1, <1>2, <1>4, <1>5

\* Only the owner in the store settles, and that is the last claim's.
LEMMA SettleStep ==
    ASSUME IInv, NEW s \in Services, Complete(s) \/ Fail(s)
    PROVE  IInv'
<1> USE DEF IInv, TypeOK
<1>1. ServiceType' /\ JobHeld'
  BY ServiceStepKeeps
<1>2. PICK outcome \in {"COMPLETED", "FAILED"} :
        /\ state' = [state EXCEPT ![job[s]] = outcome]
        /\ owner' = [owner EXCEPT ![job[s]] = 0]
        /\ left' = [left EXCEPT ![job[s]] = 0]
        /\ active' = IF active = job[s] THEN NoBatch ELSE active
        /\ settledBy' = [settledBy EXCEPT ![job[s]] = token[s]]
  BY DEF Complete, Fail, Settle
<1>3. /\ job[s] \in Batches /\ state[job[s]] \in Active
      /\ owner[job[s]] # 0 /\ owner[job[s]] = token[s]
      /\ UNCHANGED <<sequence, nextSequence, ttl, granted>>
  BY DEF Complete, Fail, Settle, Claimed, JobHeld, Outside
<1>4. \A c \in Batches :
        /\ state'[c] = IF c = job[s] THEN outcome ELSE state[c]
        /\ owner'[c] = IF c = job[s] THEN 0 ELSE owner[c]
        /\ settledBy'[c] = IF c = job[s] THEN token[s] ELSE settledBy[c]
  BY <1>2 DEF StoreType
<1>5. StoreType' /\ settledBy' \in [Batches -> Nat]
  BY <1>2, <1>3, QueueAssumption DEF StoreType, ServiceType, Terminal
<1>6. StoreValid'
  <2>1. active = job[s] /\ active' = NoBatch
    BY <1>2, <1>3 DEF StoreValid
  <2>2. \A c \in Batches :
          /\ state'[c] \in Active <=> active' = c
          /\ owner'[c] # 0 <=> state'[c] \in Active
    BY <1>3, <1>4, <2>1, QueueAssumption DEF StoreValid, Active
  <2>3. \A c \in Batches : state'[c] = "ABSENT" <=> sequence'[c] = 0
    BY <1>3, <1>4 DEF StoreValid, Active
  <2>4. \A c, d \in Batches :
            sequence'[c] = sequence'[d] /\ sequence'[c] # 0 => c = d
    BY <1>3 DEF StoreValid
  <2> QED
    BY <2>2, <2>3, <2>4 DEF StoreValid
<1>7. SequencesBelow' /\ ClaimedIfGranted' /\ OwnerIsLastClaim'
  BY <1>3, <1>4 DEF SequencesBelow, ClaimedIfGranted, OwnerIsLastClaim
<1>8. OutcomeByLastClaim'
  BY <1>3, <1>4 DEF OutcomeByLastClaim, OwnerIsLastClaim
<1>9. HeadOfLine'
  BY <1>3, <1>4 DEF HeadOfLine, Terminal
<1> QED
  BY <1>1, <1>3, <1>5, <1>6, <1>7, <1>8, <1>9

LEMMA TickStep ==
    ASSUME IInv, Tick
    PROVE  IInv'
<1> USE DEF IInv, TypeOK
<1>1. \A t \in Int : t >= -MaxLag => Older(t) \in Int /\ Older(t) >= -MaxLag /\ Older(t) <= t
  BY QueueAssumption DEF Older
<1>2. ttl' \in [Batches -> (-MaxLag)..Expiry] /\ left' \in [Batches -> (-MaxLag)..Lease]
  BY <1>1, QueueAssumption DEF Tick, StoreType
<1>3. StoreType'
  BY <1>2 DEF Tick, StoreType
<1>4. lag' \in [Services -> 0..MaxLag]
  BY QueueAssumption DEF Tick, ServiceType
<1>5. ServiceType' /\ JobHeld'
  BY <1>4 DEF Tick, ServiceType, JobHeld
<1>6. /\ StoreValid' /\ SequencesBelow' /\ ClaimedIfGranted'
      /\ OwnerIsLastClaim' /\ OutcomeByLastClaim' /\ HeadOfLine'
      /\ granted' = granted /\ settledBy' = settledBy
  BY DEF Tick, history, StoreValid, SequencesBelow, ClaimedIfGranted, OwnerIsLastClaim,
         OutcomeByLastClaim, HeadOfLine
<1> QED
  BY <1>3, <1>5, <1>6

\* No step of the system leaves the invariant.
LEMMA InvariantIsInductive ==
    ASSUME IInv, [Next]_vars
    PROVE  IInv'
<1>1. ASSUME NEW b \in Batches, Submit(b) PROVE IInv'
  BY <1>1, SubmitStep
<1>2. ASSUME NEW age \in 0..MaxLag, RequeueStale(age) PROVE IInv'
  <2>1. ServiceType' /\ JobHeld'
    BY <1>2 DEF RequeueStale, serviceVars, IInv, TypeOK, ServiceType, JobHeld
  <2> QED
    BY <1>2, <2>1, SweepStep DEF RequeueStale, history
<1>3. ASSUME NEW s \in Services, ClaimNothing(s) PROVE IInv'
  <2>1. ServiceType' /\ JobHeld' /\ lag[s] \in 0..MaxLag
    BY <1>3, ServiceStepKeeps DEF IInv, TypeOK, ServiceType
  <2> QED
    BY <1>3, <2>1, SweepStep DEF ClaimNothing, history
<1>4. ASSUME NEW s \in Services, NEW b \in Batches, ClaimNext(s, b) PROVE IInv'
  BY <1>4, ClaimStep
<1>5. ASSUME NEW s \in Services, Begin(s) PROVE IInv'
  BY <1>5, BeginStep
<1>6. ASSUME NEW s \in Services, Heartbeat(s) PROVE IInv'
  BY <1>6, HeartbeatStep
<1>7. ASSUME NEW s \in Services, Complete(s) \/ Fail(s) PROVE IInv'
  BY <1>7, SettleStep
<1>8. ASSUME NEW s \in Services,
             Poll(s) \/ StartBeat(s) \/ HandlerDone(s) \/ Refused(s) \/ Busy(s)
                \/ Crash(s) \/ Restart(s)
      PROVE  IInv'
  <2>1. ServiceType' /\ JobHeld'
    BY <1>8, ServiceStepKeeps DEF IInv, TypeOK
  <2>2. UNCHANGED <<storeVars, history>>
    BY <1>8 DEF Poll, StartBeat, HandlerDone, Refused, Busy, Crash, Restart
  <2> QED
    BY <2>1, <2>2, QuietStep
<1>9. ASSUME Tick PROVE IInv'
  BY <1>9, TickStep
<1>10. ASSUME UNCHANGED vars PROVE IInv'
  <2>1. ServiceType' /\ JobHeld'
    BY <1>10 DEF vars, serviceVars, IInv, TypeOK, ServiceType, JobHeld
  <2> QED
    BY <1>10, <2>1, QuietStep DEF vars
<1> QED
  BY <1>1, <1>2, <1>3, <1>4, <1>5, <1>6, <1>7, <1>8, <1>9, <1>10 DEF Next, EndCall

\* The invariant holds in every reachable state.
THEOREM Invariance == Spec => []IInv
<1>1. Init => IInv
  BY InitHolds
<1>2. IInv /\ [Next]_vars => IInv'
  BY InvariantIsInductive
<1> QED
  BY <1>1, <1>2, PTL DEF Spec

-----------------------------------------------------------------------------
(* The properties of NightQueue. *)

\* Every reachable state of the queue and its services is well typed.
THEOREM TypeCorrect == Spec => []TypeOK
<1>1. IInv => TypeOK
  BY DEF IInv
<1> QED
  BY <1>1, Invariance, PTL

\* No operation of queue.mjs, at whatever clock reading, leads to a store that
\* validateState would refuse to write (runtime-store.mjs:453-463).
THEOREM StoreAlwaysValid == Spec => []StoreValid
<1>1. IInv => StoreValid
  BY DEF IInv
<1> QED
  BY <1>1, Invariance, PTL

\* claimNext is FIFO across crashes, requeues and any number of services.
THEOREM Fifo == Spec => []HeadOfLine
<1>1. IInv => HeadOfLine
  BY DEF IInv
<1> QED
  BY <1>1, Invariance, PTL

\* complete and fail are fenced: only the last claim's owner gets through.
THEOREM OutcomesFenced == Spec => []OutcomeByLastClaim
<1>1. IInv => OutcomeByLastClaim
  BY DEF IInv
<1> QED
  BY <1>1, Invariance, PTL

\* A sweep or a claim takes a live claim away only when its lease is over.
LEMMA StaleClaimStep ==
    ASSUME IInv, [Next]_vars, NEW b \in Batches, owner[b] # 0, owner'[b] # owner[b]
    PROVE  left[b] <= 0 \/ settledBy'[b] = owner[b]
<1> USE DEF IInv, TypeOK
<1>0. ASSUME NEW age \in 0..MaxLag, owner'[b] = SweptOwner(b, age) PROVE left[b] <= 0
  BY <1>0, SweptCases DEF SweptOwner, StoreValid
<1>1. ASSUME NEW c \in Batches, Submit(c) PROVE FALSE
  BY <1>1 DEF Submit
<1>2. ASSUME NEW age \in 0..MaxLag, RequeueStale(age) PROVE left[b] <= 0
  BY <1>0, <1>2 DEF RequeueStale, Sweep
<1>3. ASSUME NEW s \in Services, ClaimNothing(s) PROVE left[b] <= 0
  <2>1. lag[s] \in 0..MaxLag
    BY DEF ServiceType
  <2> QED
    BY <1>0, <1>3, <2>1 DEF ClaimNothing, Sweep
<1>4. ASSUME NEW s \in Services, NEW c \in Batches, ClaimNext(s, c) PROVE left[b] <= 0
  <2>1. lag[s] \in 0..MaxLag
    BY DEF ServiceType
  <2>2. owner'[b] = IF b = c THEN granted[c] + 1 ELSE SweptOwner(b, lag[s])
    BY <1>4 DEF ClaimNext
  <2>3. CASE b = c
    <3>1. Swept(b, lag[s]) = "QUEUED" /\ state[b] \in Active
      BY <1>4, <2>3 DEF ClaimNext, IsFirst, Candidates, StoreValid
    <3> QED
      BY <2>1, <3>1, SweptCases DEF Active
  <2> QED
    BY <1>0, <2>1, <2>2, <2>3
<1>5. ASSUME NEW s \in Services, Complete(s) \/ Fail(s) PROVE settledBy'[b] = owner[b]
  <2>1. /\ owner' = [owner EXCEPT ![job[s]] = 0]
        /\ settledBy' = [settledBy EXCEPT ![job[s]] = token[s]]
        /\ owner[job[s]] = token[s]
    BY <1>5 DEF Complete, Fail, Settle, Claimed
  <2>2. b = job[s]
    BY <2>1 DEF StoreType
  <2> QED
    BY <2>1, <2>2
<1>6. ASSUME NEW s \in Services,
             Poll(s) \/ Begin(s) \/ StartBeat(s) \/ Heartbeat(s) \/ HandlerDone(s)
                \/ Refused(s) \/ Busy(s) \/ Crash(s) \/ Restart(s)
      PROVE  FALSE
  BY <1>6 DEF Poll, Begin, StartBeat, Heartbeat, HandlerDone, Refused, Busy, Crash,
              Restart, storeVars
<1>7. ASSUME Tick \/ UNCHANGED vars PROVE FALSE
  BY <1>7 DEF Tick, vars, storeVars
<1> QED
  BY <1>1, <1>2, <1>3, <1>4, <1>5, <1>6, <1>7 DEF Next, EndCall

\* A claim is never taken from a service whose lease is not over.
THEOREM StaleClaimsOnly == Spec => OnlyStaleClaimsEnd
<1>1. IInv /\ [Next]_vars =>
        [\A b \in Batches :
            owner[b] # 0 /\ owner'[b] # owner[b]
            => \/ left[b] <= 0
               \/ settledBy'[b] = owner[b]]_vars
  BY StaleClaimStep
<1> QED
  BY <1>1, Invariance, PTL DEF Spec, OnlyStaleClaimsEnd

-----------------------------------------------------------------------------
(* The refinement: what the line is before and after a sweep. *)

\* After a sweep: the line, who is ahead of whom in it, and how batches ended.
QueuedAfter(age)     == {b \in Batches : Swept(b, age) = "QUEUED"}
AheadAfter(age, b)   == IF b \in QueuedAfter(age)
                        THEN {c \in QueuedAfter(age) : sequence[c] < sequence[b]} ELSE {}
OutcomeAfter(age, b) == IF Swept(b, age) \in Terminal THEN Swept(b, age) ELSE "NONE"

\* The waiting batches a sweep drops, and what becomes of the active one.
Dropped(age)  == {b \in Queued : Swept(b, age) = "EXPIRED"}
GivenUp(age)  == {b \in {active} \cap Batches : Swept(b, age) = "EXPIRED"}
Returned(age) == {b \in {active} \cap Batches : Swept(b, age) = "QUEUED"}

\* The active batch joined before everybody who waits.
LEMMA ActiveIsHead ==
    ASSUME IInv, active \in Batches, NEW c \in Queued
    PROVE  sequence[active] < sequence[c]
<1> USE DEF IInv, TypeOK
<1>1. state[active] \in Active /\ c \in Batches /\ state[c] = "QUEUED"
  BY DEF StoreValid, Queued
<1>2. granted[active] # 0
  BY <1>1 DEF StoreValid, OwnerIsLastClaim
<1>3. /\ sequence[active] \in Nat /\ sequence[c] \in Nat
      /\ sequence[active] # 0 /\ sequence[c] # 0
      /\ sequence[active] # sequence[c]
  BY <1>1 DEF StoreType, StoreValid, Active
<1>4. sequence[c] \notin 1..(sequence[active] - 1)
  BY <1>1, <1>2 DEF HeadOfLine, Terminal
<1> QED
  BY <1>3, <1>4

\* The active batch waits nowhere and no other batch is returned.
LEMMA SweptQueue ==
    ASSUME IInv, NEW age \in 0..MaxLag
    PROVE  QueuedAfter(age) = (Queued \ Dropped(age)) \cup Returned(age)
<1> SUFFICES ASSUME NEW b \in Batches
             PROVE  Swept(b, age) = "QUEUED" <=>
                    \/ state[b] = "QUEUED" /\ Swept(b, age) # "EXPIRED"
                    \/ b = active /\ Swept(b, age) = "QUEUED"
  BY DEF QueuedAfter, Queued, Dropped, Returned
<1>1. /\ Swept(b, age) = "QUEUED" => state[b] \in {"QUEUED"} \cup Active
      /\ state[b] = "QUEUED" => Swept(b, age) \in {"QUEUED", "EXPIRED"}
  BY SweptCases DEF IInv, TypeOK, Active
<1> QED
  BY <1>1 DEF IInv, StoreValid

\* A returned batch is ahead of everybody; the others keep their order.
LEMMA SweptAhead ==
    ASSUME IInv, NEW age \in 0..MaxLag, NEW b \in Batches
    PROVE  AheadAfter(age, b) = IF b \in Queued \ Dropped(age)
                                THEN (AheadOf(b) \ Dropped(age)) \cup Returned(age)
                                ELSE {}
<1> USE DEF IInv, TypeOK
<1>1. QueuedAfter(age) = (Queued \ Dropped(age)) \cup Returned(age)
  BY SweptQueue
<1>2. Returned(age) \subseteq {active} \cap Batches /\ active \notin Queued
  BY QueueAssumption DEF Returned, Queued, StoreValid, Active
<1>3. \A c \in Queued, a \in Returned(age) :
          sequence[a] < sequence[c] /\ ~(sequence[c] < sequence[a])
  BY <1>2, ActiveIsHead DEF Queued, StoreType
<1>4. \A a, c \in Returned(age) : ~(sequence[c] < sequence[a])
  BY <1>2 DEF StoreType
<1>5. CASE b \in Queued \ Dropped(age)
  BY <1>1, <1>3, <1>5 DEF AheadAfter, AheadOf
<1>6. CASE b \notin Queued \ Dropped(age)
  BY <1>1, <1>2, <1>3, <1>4, <1>6 DEF AheadAfter
<1> QED
  BY <1>5, <1>6

\* A sweep ends the batches it drops or gives up, as EXPIRED, and no other.
LEMMA SweptOutcome ==
    ASSUME IInv, NEW age \in 0..MaxLag, NEW b \in Batches
    PROVE  OutcomeAfter(age, b) = IF b \in Dropped(age) \cup GivenUp(age)
                                  THEN "EXPIRED" ELSE Outcome(b)
<1> USE DEF IInv, TypeOK
<1>1. state[b] \in Active <=> active = b
  BY DEF StoreValid
<1>2. b \in Dropped(age) \cup GivenUp(age)
         <=> state[b] \in {"QUEUED"} \cup Active /\ Swept(b, age) = "EXPIRED"
  BY <1>1 DEF Dropped, GivenUp, Queued
<1> QED
  BY <1>2, SweptCases DEF OutcomeAfter, Outcome, Active, Terminal

\* The active batch keeps its claim, is given up or is returned.
LEMMA SweptServing ==
    ASSUME IInv, NEW age \in 0..MaxLag
    PROVE  \/ /\ SweptActive(age) = active
              /\ GivenUp(age) = {} /\ Returned(age) = {}
           \/ /\ active \in Batches /\ SweptActive(age) = NoBatch
              /\ GivenUp(age) = {active} /\ Returned(age) = {}
           \/ /\ active \in Batches /\ SweptActive(age) = NoBatch
              /\ GivenUp(age) = {} /\ Returned(age) = {active}
<1> USE DEF IInv, TypeOK
<1>1. CASE active \notin Batches
  BY <1>1 DEF SweptActive, GivenUp, Returned
<1>2. CASE active \in Batches
  <2>1. state[active] \in Active
    BY <1>2 DEF StoreValid
  <2>2. \/ Swept(active, age) = state[active]
        \/ Swept(active, age) = "EXPIRED" /\ state[active] # "EXPIRED"
        \/ Swept(active, age) = "QUEUED" /\ state[active] # "QUEUED"
    BY <1>2, <2>1, SweptCases DEF Active
  <2> QED
    BY <1>2, <2>1, <2>2 DEF SweptActive, GivenUp, Returned, Active
<1> QED
  BY <1>1, <1>2

-----------------------------------------------------------------------------
(* Refinement: one lemma per kind of step. *)

\* submitBatch puts the batch at the end of the line.
LEMMA SubmitJoins ==
    ASSUME IInv, NEW b \in Batches, Submit(b)
    PROVE  Serial!Join(b)
<1> USE DEF IInv, TypeOK
<1>1. /\ state' = [state EXCEPT ![b] = "QUEUED"]
      /\ sequence' = [sequence EXCEPT ![b] = nextSequence]
      /\ state[b] = "ABSENT" /\ active' = active
  BY DEF Submit
<1>2. \A c \in Batches :
        /\ state'[c] = IF c = b THEN "QUEUED" ELSE state[c]
        /\ sequence'[c] = IF c = b THEN nextSequence ELSE sequence[c]
  BY <1>1 DEF StoreType
<1>3. b \notin Queued /\ b # active
  BY <1>1 DEF Queued, StoreValid, Active
<1>4. Queued' = Queued \cup {b}
  BY <1>2 DEF Queued
<1>5. \A c \in Batches : sequence[c] \in Nat /\ nextSequence \in Nat /\ sequence[c] < nextSequence
  BY DEF StoreType, SequencesBelow
<1>6. \A c \in Batches : AheadOf(c)' = IF c = b THEN Queued ELSE AheadOf(c)
  <2> TAKE c \in Batches
  <2>1. CASE c = b
    BY <1>2, <1>3, <1>4, <1>5, <2>1 DEF AheadOf, Queued
  <2>2. CASE c # b
    BY <1>2, <1>3, <1>4, <1>5, <2>2 DEF AheadOf, Queued
  <2> QED
    BY <2>1, <2>2
<1>7. \A c \in Batches : Outcome(c)' = Outcome(c)
  BY <1>1, <1>2 DEF Outcome, Terminal
<1>8. Outcome(b) = "NONE"
  BY <1>1 DEF Outcome, Terminal
<1> QED
  BY <1>1, <1>3, <1>4, <1>6, <1>7, <1>8 DEF Serial!Join

\* A sweep drops batches from the line; the active one stays, ends or returns
\* to the head.
LEMMA SweepGivesUpOrReturns ==
    ASSUME IInv, NEW age \in 0..MaxLag, Sweep(age), sequence' = sequence
    PROVE  Serial!GiveUp(Dropped(age)) \/ Serial!Return(Dropped(age))
<1> USE DEF IInv, TypeOK
<1>1. \A b \in Batches : state'[b] = Swept(b, age)
  BY DEF Sweep
<1>2. active' = SweptActive(age)
  BY DEF Sweep
<1>3. Queued' = (Queued \ Dropped(age)) \cup Returned(age)
  BY <1>1, SweptQueue DEF Queued, QueuedAfter
<1>4. \A b \in Batches : AheadOf(b)' = IF b \in Queued \ Dropped(age)
                                        THEN (AheadOf(b) \ Dropped(age)) \cup Returned(age)
                                        ELSE {}
  <2>1. Queued' = QueuedAfter(age)
    BY <1>1 DEF Queued, QueuedAfter
  <2> QED
    BY <2>1, SweptAhead DEF AheadOf, AheadAfter
<1>5. \A b \in Batches : Outcome(b)' = IF b \in Dropped(age) \cup GivenUp(age)
                                        THEN "EXPIRED" ELSE Outcome(b)
  BY <1>1, SweptOutcome DEF Outcome, OutcomeAfter
<1>6. CASE SweptActive(age) = active /\ GivenUp(age) = {} /\ Returned(age) = {}
  BY <1>2, <1>3, <1>4, <1>5, <1>6 DEF Serial!GiveUp, Serial!Queue, Serial!Ahead, Serial!Expire
<1>7. CASE SweptActive(age) = NoBatch /\ GivenUp(age) = {active} /\ Returned(age) = {}
  BY <1>2, <1>3, <1>4, <1>5, <1>7 DEF Serial!GiveUp, Serial!Queue, Serial!Ahead, Serial!Expire
<1>8. CASE /\ active \in Batches /\ SweptActive(age) = NoBatch
           /\ GivenUp(age) = {} /\ Returned(age) = {active}
  BY <1>2, <1>3, <1>4, <1>5, <1>8, QueueAssumption
     DEF Serial!Return, Serial!Queue, Serial!Ahead, Serial!Expire
<1> QED
  BY <1>6, <1>7, <1>8, SweptServing

\* claimNext serves the head of the line its sweep leaves.
LEMMA ClaimServes ==
    ASSUME IInv, NEW s \in Services, NEW b \in Batches, ClaimNext(s, b)
    PROVE  Serial!Serve(Dropped(lag[s]))
<1> USE DEF IInv, TypeOK
<1> DEFINE age == lag[s]
           X == Dropped(age)
           R == Returned(age)
<1>0. age \in 0..MaxLag
  BY DEF ServiceType
<1>1. /\ \A c \in Batches : state'[c] = IF c = b THEN "CLAIMED" ELSE Swept(c, age)
      /\ active' = b /\ sequence' = sequence
      /\ SweptActive(age) = NoBatch
      /\ IsFirst(b, Candidates(age))
  BY DEF ClaimNext
<1>2. QueuedAfter(age) = (Queued \ X) \cup R
  BY <1>0, SweptQueue
<1>3. Candidates(age) = QueuedAfter(age)
  BY <1>0, SweptCases DEF Candidates, QueuedAfter
<1>4. b \in (Queued \ X) \cup R
  BY <1>1, <1>2, <1>3 DEF IsFirst
<1>5. AheadAfter(age, b) = {}
  BY <1>1, <1>3 DEF IsFirst, AheadAfter, QueuedAfter, StoreType
<1>6. Queued' = ((Queued \ X) \cup R) \ {b}
  BY <1>1, <1>2 DEF Queued, QueuedAfter
<1>7. \A c \in Batches : AheadOf(c)' = IF c = b THEN {} ELSE AheadAfter(age, c) \ {b}
  <2>1. Queued' = QueuedAfter(age) \ {b}
    BY <1>2, <1>6
  <2> QED
    BY <1>1, <2>1 DEF AheadOf, AheadAfter
<1>8. \A c \in Batches : AheadAfter(age, c) = Serial!Ahead(X, R, c)
  BY <1>0, SweptAhead DEF Serial!Ahead
<1>9. \A c \in Batches : Outcome(c)' = IF c \in X \cup GivenUp(age)
                                        THEN "EXPIRED" ELSE Outcome(c)
  <2>1. Swept(b, age) = "QUEUED"
    BY <1>1 DEF IsFirst, Candidates
  <2>2. \A c \in Batches : Outcome(c)' = OutcomeAfter(age, c)
    BY <1>1, <2>1 DEF Outcome, OutcomeAfter, Terminal
  <2> QED
    BY <1>0, <2>2, SweptOutcome
<1>10. /\ R \in {{}, {active} \cap Batches}
       /\ GivenUp(age) = ({active} \cap Batches) \ R
  <2>1. active \notin Batches => GivenUp(age) = {} /\ R = {}
    BY DEF GivenUp, Returned
  <2>2. active \in Batches => \/ GivenUp(age) = {active} /\ R = {}
                              \/ GivenUp(age) = {} /\ R = {active}
    BY <1>0, <1>1, SweptServing, QueueAssumption
  <2> QED
    BY <2>1, <2>2
<1> HIDE DEF age, X, R
<1>11. \E c \in Serial!Queue(X, R) :
          /\ Serial!Ahead(X, R, c) = {}
          /\ active' = c
          /\ Queued' = Serial!Queue(X, R) \ {c}
          /\ [d \in Batches |-> AheadOf(d)'] =
                [d \in Batches |-> IF d = c THEN {} ELSE Serial!Ahead(X, R, d) \ {c}]
  <2>1. b \in Serial!Queue(X, R) /\ Queued' = Serial!Queue(X, R) \ {b}
    BY <1>4, <1>6 DEF Serial!Queue
  <2> QED
    BY <1>1, <1>5, <1>7, <1>8, <2>1
<1>12. [d \in Batches |-> Outcome(d)'] =
         [d \in Batches |-> IF d \in X \cup (({active} \cap Batches) \ R)
                            THEN "EXPIRED" ELSE Outcome(d)]
  BY <1>9, <1>10
<1> QED
  BY <1>10, <1>11, <1>12 DEF Serial!Serve, Serial!Expire, X, R, age

\* complete and fail end the batch being served.
LEMMA SettleFinishes ==
    ASSUME IInv, NEW s \in Services, Complete(s) \/ Fail(s)
    PROVE  Serial!Finish
<1> USE DEF IInv, TypeOK
<1>1. PICK o \in {"COMPLETED", "FAILED"} :
        /\ state' = [state EXCEPT ![job[s]] = o]
        /\ active' = IF active = job[s] THEN NoBatch ELSE active
  BY DEF Complete, Fail, Settle
<1>2. /\ job[s] \in Batches /\ state[job[s]] \in Active
      /\ sequence' = sequence
  BY DEF Complete, Fail, Settle, Claimed, JobHeld, Outside
<1>3. active = job[s] /\ active' = NoBatch /\ active # NoBatch
  BY <1>1, <1>2, QueueAssumption DEF StoreValid
<1>4. \A c \in Batches : state'[c] = IF c = active THEN o ELSE state[c]
  BY <1>1, <1>2, <1>3 DEF StoreType
<1>5. Queued' = Queued
  BY <1>2, <1>3, <1>4 DEF Queued, Active
<1>6. \A c \in Batches : AheadOf(c)' = AheadOf(c)
  BY <1>2, <1>5 DEF AheadOf
<1>7. \A c \in Batches : Outcome(c)' = IF c = active THEN o ELSE Outcome(c)
  BY <1>4 DEF Outcome, Terminal
<1> QED
  BY <1>1, <1>3, <1>5, <1>6, <1>7 DEF Serial!Finish

\* Steps that leave every batch's place, the active batch and the outcomes.
LEMMA LineUnmoved ==
    ASSUME sequence' = sequence, active' = active,
           \A b \in Batches : \/ state'[b] = state[b]
                              \/ state[b] \in Active /\ state'[b] \in Active
    PROVE  UNCHANGED Serial!vars
<1>1. Queued' = Queued
  BY DEF Queued, Active
<1>2. \A b \in Batches : AheadOf(b)' = AheadOf(b) /\ Outcome(b)' = Outcome(b)
  BY <1>1 DEF AheadOf, Outcome, Active, Terminal
<1> QED
  BY <1>1, <1>2 DEF Serial!vars

\* Every step of the queue is a step of the serial one, or none at all.
LEMMA StepRefines == IInv /\ [Next]_vars => [Serial!Next]_(Serial!vars)
<1> SUFFICES ASSUME IInv, [Next]_vars PROVE [Serial!Next]_(Serial!vars)
  OBVIOUS
<1>0. \A age \in 0..MaxLag : Dropped(age) \in SUBSET Queued
  BY DEF Dropped
<1>1. ASSUME NEW b \in Batches, Submit(b) PROVE Serial!Next
  BY <1>1, SubmitJoins DEF Serial!Next
<1>2. ASSUME NEW age \in 0..MaxLag, RequeueStale(age) PROVE Serial!Next
  BY <1>0, <1>2, SweepGivesUpOrReturns DEF RequeueStale, Serial!Next
<1>3. ASSUME NEW s \in Services, ClaimNothing(s) PROVE Serial!Next
  <2>1. lag[s] \in 0..MaxLag
    BY DEF IInv, TypeOK, ServiceType
  <2> QED
    BY <1>0, <1>3, <2>1, SweepGivesUpOrReturns DEF ClaimNothing, Serial!Next
<1>4. ASSUME NEW s \in Services, NEW b \in Batches, ClaimNext(s, b) PROVE Serial!Next
  <2>1. lag[s] \in 0..MaxLag
    BY DEF IInv, TypeOK, ServiceType
  <2> QED
    BY <1>0, <1>4, <2>1, ClaimServes DEF Serial!Next
<1>5. ASSUME NEW s \in Services, Complete(s) \/ Fail(s) PROVE Serial!Next
  BY <1>5, SettleFinishes DEF Serial!Next
<1>6. ASSUME NEW s \in Services, Begin(s) PROVE UNCHANGED Serial!vars
  <2>1. /\ state' = [state EXCEPT ![job[s]] = "RUNNING"]
        /\ state[job[s]] \in Active
        /\ UNCHANGED <<sequence, active>>
    BY <1>6 DEF Begin, Claimed
  <2>2. \A b \in Batches : \/ state'[b] = state[b]
                           \/ state[b] \in Active /\ state'[b] \in Active
    BY <2>1 DEF IInv, TypeOK, StoreType, Active
  <2> QED
    BY <2>1, <2>2, LineUnmoved
<1>7. ASSUME NEW s \in Services,
             Poll(s) \/ StartBeat(s) \/ Heartbeat(s) \/ HandlerDone(s) \/ Refused(s)
                \/ Busy(s) \/ Crash(s) \/ Restart(s)
      PROVE  UNCHANGED Serial!vars
  BY <1>7, LineUnmoved DEF Poll, StartBeat, Heartbeat, HandlerDone, Refused, Busy, Crash,
                           Restart, storeVars
<1>8. CASE Tick \/ UNCHANGED vars
  BY <1>8, LineUnmoved DEF Tick, vars, storeVars
<1> QED
  BY <1>1, <1>2, <1>3, <1>4, <1>5, <1>6, <1>7, <1>8 DEF Next, EndCall

\* The RuntimeStore's batches under any number of services, clocks that lag,
\* crashes and requeues are one serial queue: queue.mjs serves one batch at a
\* time, in the order of their submission.
THEOREM Refinement == Spec => ImplementsSerialQueue
<1>1. Init => Serial!Init
  <2> SUFFICES ASSUME Init PROVE Serial!Init
    OBVIOUS
  <2>1. Queued = {} /\ active = NoBatch
    BY DEF Init, Queued
  <2>2. \A b \in Batches : AheadOf(b) = {} /\ Outcome(b) = "NONE"
    BY <2>1 DEF Init, AheadOf, Outcome, Terminal
  <2> QED
    BY <2>1, <2>2 DEF Serial!Init
<1> QED
  BY <1>1, StepRefines, Invariance, PTL DEF Spec, ImplementsSerialQueue, Serial!Spec

=============================================================================
