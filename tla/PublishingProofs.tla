-------------------------- MODULE PublishingProofs --------------------------
(***************************************************************************)
(* Proofs about Publishing, for any tasks, callers, cycles, commits and    *)
(* role batches.                                                           *)
(*                                                                         *)
(* What carries them: the head a caller captured was validated, heads only *)
(* grow, a recorded review stays as it is, and a role batch is one         *)
(* caller's.  So what a caller verified remains true while it waits.       *)
(***************************************************************************)
EXTENDS Publishing, FiniteSetTheorems, TLAPS

\* The places at which a caller has a role batch, and those of a merge past the
\* verification of its approval.
AtRole    == {"start", "wait", "record"}
AtMerge   == {"gate", "ready", "regate", "reverify", "final", "merge"}
AtCorrect == {"reserve", "enqueue", "start"}

\* What an operation under way may rely on.
Captured(c) ==
    work[c].pc # "idle" =>
        /\ TaskOf(c) \in Tasks
        /\ work[c].head \in 1..MaxHeads
        /\ work[c].head <= head[TaskOf(c)]
        /\ <<TaskOf(c), work[c].head>> \in validated
        /\ work[c].op # "none"

\* The review referred to was there, so it is of no later head than the captured one.
Refers(c) ==
    work[c].pc = "verify" =>
        /\ work[c].ref \in 1..Len(roles)
        /\ roles[work[c].ref].task = TaskOf(c) => roles[work[c].ref].head <= work[c].head

\* What was verified is still recorded.
Earned(c) ==
    /\ work[c].pc \in AtMerge => Recorded(TaskOf(c), work[c].head, "APPROVED")
    /\ work[c].op = "correct" /\ work[c].pc \in AtCorrect =>
          Recorded(TaskOf(c), work[c].head, "CHANGES_REQUESTED")
    /\ work[c].pc = "reserve" => work[c].op = "correct"
    /\ work[c].pc \in AtRole \cup {"enqueue"} => work[c].op \in {"review", "correct"}

\* The role batch of a caller is its own.
Owns(c) ==
    work[c].pc \in AtRole =>
        LET r == roles[work[c].role] IN
        /\ work[c].role \in 1..Len(roles)
        /\ r.kind = IF work[c].op = "review" THEN "review" ELSE "correction"
        /\ r.task = TaskOf(c) /\ r.head = work[c].head
        /\ work[c].pc = "start" => r.turn = "none"
        /\ work[c].pc = "record" => r.turn = "done"

Distinct ==
    \A c, d \in Callers :
        work[c].pc \in AtRole /\ work[d].pc \in AtRole /\ work[c].role = work[d].role => c = d

\* The role batches themselves.
Roles ==
    \A i \in 1..Len(roles) :
        /\ roles[i].head <= head[roles[i].task]
        /\ roles[i].state = "COMPLETED" => roles[i].turn = "done"
        /\ roles[i].kind = "correction" /\ roles[i].turn # "none" =>
              Recorded(roles[i].task, roles[i].head, "CHANGES_REQUESTED")

\* Corrections started, and reserved but not started.
Started  == {i \in 1..Len(roles) : roles[i].kind = "correction" /\ roles[i].turn # "none"}
Reserved == {c \in Callers : work[c].op = "correct" /\ work[c].pc \in {"enqueue", "start"}}

Counted ==
    /\ IsFiniteSet(Reserved)
    /\ Cardinality(Started) + Cardinality(Reserved) <= batch.cycles

MergedOnce ==
    /\ \A t \in Tasks : merged[t] # 0 => moved /\ Recorded(t, merged[t], "APPROVED")
    /\ \A t, u \in Tasks : merged[t] # 0 /\ merged[u] # 0 => t = u

\* The inductive invariant.
Known(c) == Captured(c) /\ Refers(c) /\ Earned(c) /\ Owns(c)

IInv ==
    /\ TypeOK
    /\ \A c \in Callers : Known(c)
    /\ Distinct /\ Roles /\ Counted /\ MergedOnce
    /\ PushedWasValidated

-----------------------------------------------------------------------------
(* What steps keep. *)

\* Role batches are added, not replaced; a recorded one stays as it is; heads
\* grow, and so does what was validated.
Grows ==
    /\ Len(roles) <= Len(roles')
    /\ \A i \in 1..Len(roles) :
          /\ roles'[i].kind = roles[i].kind
          /\ roles'[i].task = roles[i].task
          /\ roles'[i].head = roles[i].head
          /\ roles[i].state = "COMPLETED" =>
                roles'[i].state = "COMPLETED" /\ roles'[i].verdict = roles[i].verdict
    /\ \A t \in Tasks : head[t] <= head'[t]
    /\ validated \subseteq validated'

\* A step that leaves roles, heads and validations alone is one of these.
LEMMA NothingGrows == TypeOK /\ UNCHANGED <<roles, head, validated>> => Grows
  BY DEF TypeOK, Grows

\* A recorded verdict stays recorded.
LEMMA RecordedStays ==
    ASSUME TypeOK, TypeOK', Grows, NEW t, NEW h, NEW v, Recorded(t, h, v)
    PROVE  Recorded(t, h, v)'
<1>1. PICK i \in 1..Len(roles) :
         /\ roles[i].kind = "review" /\ roles[i].task = t /\ roles[i].head = h
         /\ roles[i].state = "COMPLETED" /\ roles[i].verdict = v
  BY DEF Recorded
<1>2. i \in 1..Len(roles')
  BY DEF Grows, TypeOK
<1>3. /\ roles'[i].kind = "review" /\ roles'[i].task = t /\ roles'[i].head = h
      /\ roles'[i].state = "COMPLETED" /\ roles'[i].verdict = v
  BY <1>1 DEF Grows
<1> QED BY <1>2, <1>3 DEF Recorded

\* A caller that takes no step keeps what it relies on, while its role batch,
\* if it has one, does not end its turn unseen.
LEMMA OthersKeep ==
    ASSUME IInv, TypeOK', Grows, NEW c \in Callers,
           work'[c] = work[c], evidence'[c] = evidence[c],
           work[c].pc \in {"start", "record"} => roles'[work[c].role].turn = roles[work[c].role].turn
    PROVE  Known(c)'
<1>1. Known(c) /\ TypeOK
  BY DEF IInv
<1>2. TaskOf(c)' = TaskOf(c)
  BY DEF TaskOf
<1>3. Captured(c)'
  <2> SUFFICES ASSUME work[c].pc # "idle" PROVE Captured(c)'
    BY DEF Captured
  <2>1. /\ TaskOf(c) \in Tasks /\ work[c].head \in 1..MaxHeads /\ work[c].head <= head[TaskOf(c)]
        /\ <<TaskOf(c), work[c].head>> \in validated /\ work[c].op # "none"
    BY <1>1 DEF Known, Captured
  <2>2. head[TaskOf(c)] \in Int /\ head'[TaskOf(c)] \in Int /\ head[TaskOf(c)] <= head'[TaskOf(c)]
    BY <1>1, <2>1 DEF Grows, TypeOK
  <2>3. work[c].head <= head'[TaskOf(c)]
    BY <2>1, <2>2
  <2> QED BY <1>2, <2>1, <2>3 DEF Captured, Grows
<1>4. 1..Len(roles) \subseteq 1..Len(roles')
  BY <1>1 DEF Grows, TypeOK
<1>5. Refers(c)'
  BY <1>1, <1>2, <1>4 DEF Known, Refers, Grows
<1>6. Earned(c)'
  BY <1>1, <1>2, RecordedStays DEF Known, Earned
<1>7. Owns(c)'
  <2> SUFFICES ASSUME work[c].pc \in AtRole PROVE Owns(c)'
    BY DEF Owns
  <2> DEFINE i == work[c].role
  <2>1. /\ i \in 1..Len(roles)
        /\ roles[i].kind = IF work[c].op = "review" THEN "review" ELSE "correction"
        /\ roles[i].task = TaskOf(c) /\ roles[i].head = work[c].head
        /\ work[c].pc = "start" => roles[i].turn = "none"
        /\ work[c].pc = "record" => roles[i].turn = "done"
    BY <1>1 DEF Known, Owns
  <2>2. roles'[i].kind = roles[i].kind /\ roles'[i].task = roles[i].task /\ roles'[i].head = roles[i].head
    BY <2>1 DEF Grows
  <2>3. i \in 1..Len(roles')
    BY <1>4, <2>1
  <2> QED BY <1>2, <2>1, <2>2, <2>3 DEF Owns
<1> QED BY <1>3, <1>5, <1>6, <1>7 DEF Known

\* What is recorded of merges is kept by every step that merges nothing.
LEMMA MergesKeep ==
    ASSUME IInv, TypeOK', Grows, merged' = merged, moved' = moved \/ moved'
    PROVE  MergedOnce'
  BY RecordedStays DEF IInv, MergedOnce

\* So are the pushed heads, by every step that pushes nothing.
LEMMA PushesKeep ==
    ASSUME IInv, Grows, remote' = remote
    PROVE  PushedWasValidated'
  BY DEF IInv, PushedWasValidated, Grows

\* The role batches, by every step that starts no turn and records nothing.
LEMMA RolesKeep ==
    ASSUME IInv, TypeOK', Grows, roles' = roles
    PROVE  Roles'
<1> SUFFICES ASSUME NEW i \in 1..Len(roles)
             PROVE  /\ roles[i].head <= head'[roles[i].task]
                    /\ roles[i].state = "COMPLETED" => roles[i].turn = "done"
                    /\ roles[i].kind = "correction" /\ roles[i].turn # "none" =>
                          Recorded(roles[i].task, roles[i].head, "CHANGES_REQUESTED")'
  BY DEF Roles
<1>1. /\ roles[i].task \in Tasks /\ roles[i].head \in Int
      /\ head \in [Tasks -> 1..MaxHeads] /\ head' \in [Tasks -> 1..MaxHeads]
  <2>1. roles[i] \in RoleType
    BY DEF IInv, TypeOK
  <2>2. head \in [Tasks -> 1..MaxHeads] /\ head' \in [Tasks -> 1..MaxHeads]
    BY DEF IInv, TypeOK
  <2> QED BY <2>1, <2>2 DEF RoleType
<1>2. roles[i].head <= head[roles[i].task] /\ head[roles[i].task] <= head'[roles[i].task]
  BY <1>1 DEF IInv, Roles, Grows
<1>3. roles[i].head \in Int /\ head[roles[i].task] \in Int /\ head'[roles[i].task] \in Int
  BY <1>1
<1> QED BY <1>2, <1>3, RecordedStays DEF IInv, Roles

-----------------------------------------------------------------------------
(* The steps of a caller that change nothing but its own place. *)

\* There are no more corrections than role batches.
LEMMA StartedFinite == TypeOK => IsFiniteSet(Started)
<1> SUFFICES ASSUME TypeOK PROVE IsFiniteSet(Started)
  OBVIOUS
<1>1. Started \in SUBSET (1..Len(roles))
  BY DEF Started
<1>2. IsFiniteSet(1..Len(roles))
  <2>1. Len(roles) \in Int
    BY DEF TypeOK
  <2> QED BY <2>1, FS_Interval
<1> QED BY <1>1, <1>2, FS_Subset

\* Fewer callers have a correction reserved, or as many: the count holds.
LEMMA CountKeeps ==
    ASSUME IInv, Reserved' \subseteq Reserved, Started' = Started, batch'.cycles = batch.cycles
    PROVE  Counted'
<1>1. IsFiniteSet(Reserved') /\ Cardinality(Reserved') <= Cardinality(Reserved)
  BY FS_Subset DEF IInv, Counted
<1>2. IsFiniteSet(Started)
  BY StartedFinite DEF IInv
<1>3. Cardinality(Started) \in Nat /\ Cardinality(Reserved) \in Nat /\ Cardinality(Reserved') \in Nat
  BY <1>1, <1>2, FS_CardinalityType DEF IInv, Counted
<1>4. batch.cycles \in Int
  BY DEF IInv, TypeOK, BatchType
<1> QED BY <1>1, <1>3, <1>4 DEF IInv, Counted

\* Such a step keeps what all callers rely on, if the caller may be where it goes.
LEMMA PlacesKeep ==
    ASSUME IInv, NEW c \in Callers, NEW w, work' = [work EXCEPT ![c] = w],
           UNCHANGED <<head, roles>>, batch'.cycles = batch.cycles,
           \A d \in Callers \ {c} : evidence'[d] = evidence[d], TypeOK', Grows,
           Known(c)', w.pc \notin AtRole \/ (work[c].pc \in AtRole /\ w.role = work[c].role),
           w.op = "correct" /\ w.pc \in {"enqueue", "start"} => c \in Reserved
    PROVE  (\A d \in Callers : Known(d)') /\ Distinct' /\ Roles' /\ Counted'
<1>1. ASSUME NEW d \in Callers, d # c PROVE Known(d)'
  <2>1. work'[d] = work[d]
    BY <1>1 DEF IInv, TypeOK
  <2> QED BY <1>1, <2>1, OthersKeep
<1>2. work'[c] = w
  BY DEF IInv, TypeOK
<1>3. Distinct'
  BY <1>2 DEF IInv, TypeOK, Distinct
<1>4. Counted'
  <2>1. Reserved' \subseteq Reserved
    BY <1>2 DEF Reserved, IInv, TypeOK
  <2>2. Started' = Started
    BY DEF Started
  <2> QED BY <2>1, <2>2, CountKeeps
<1> QED BY <1>1, <1>3, <1>4, RolesKeep

\* And everything, if it pushes and merges nothing.
LEMMA MovesKeep ==
    ASSUME IInv, NEW c \in Callers, NEW w, work' = [work EXCEPT ![c] = w],
           UNCHANGED <<batch, moved, head, remote, merged, roles>>,
           \A d \in Callers \ {c} : evidence'[d] = evidence[d], TypeOK', Grows,
           Known(c)', w.pc \notin AtRole \/ (work[c].pc \in AtRole /\ w.role = work[c].role),
           w.op = "correct" /\ w.pc \in {"enqueue", "start"} => c \in Reserved
    PROVE  IInv'
<1>1. (\A d \in Callers : Known(d)') /\ Distinct' /\ Roles' /\ Counted'
  BY PlacesKeep
<1>2. MergedOnce' /\ PushedWasValidated'
  BY MergesKeep, PushesKeep
<1> QED BY <1>1, <1>2 DEF IInv

-----------------------------------------------------------------------------
(* The steps. *)

WorkType == [op : {"none", "draft", "update", "review", "correct", "merge"}, pc : Labels,
             head : 0..MaxHeads, ref : 0..MaxRoles, role : 0..MaxRoles]

\* Nothing is under way at the start.
LEMMA InitIInv == Init => IInv
<1> SUFFICES ASSUME Init PROVE IInv
  OBVIOUS
<1> USE PublishingAssumption
<1>1. NoWork \in WorkType
  BY DEF NoWork, WorkType, Labels
<1>2. NoEvidence \in [task : Tasks \cup {NoTask}, batch : BatchType]
  BY DEF NoEvidence, BatchType
<1>3. roles = <<>> /\ roles \in Seq(RoleType) /\ Len(roles) = 0
  BY DEF Init
<1>4. work \in [Callers -> WorkType] /\ \A c \in Callers : work[c] = NoWork
  BY <1>1 DEF Init
<1>5. TypeOK
  <2>1. 0 \in 0..MaxCycles /\ 0 \in 0..MaxHeads /\ 1 \in 1..MaxHeads
    OBVIOUS
  <2>0. batch \in BatchType /\ moved \in BOOLEAN
    BY <2>1 DEF Init, BatchType
  <2>4. head \in [Tasks -> 1..MaxHeads] /\ remote \in [Tasks -> 0..MaxHeads]
        /\ merged \in [Tasks -> 0..MaxHeads]
    BY <2>1 DEF Init
  <2>2. pr \in [Tasks -> {"none", "draft", "ready", "merged"}]
        /\ validated \subseteq Tasks \X (1..MaxHeads)
    BY DEF Init
  <2>3. evidence \in [Callers -> [task : Tasks \cup {NoTask}, batch : BatchType]]
    BY <1>2 DEF Init
  <2> QED BY <1>3, <1>4, <2>0, <2>2, <2>3, <2>4 DEF TypeOK, WorkType
<1>6. ASSUME NEW c \in Callers PROVE Known(c)
  BY <1>4 DEF NoWork, Known, Captured, Refers, Earned, Owns, AtRole, AtMerge, AtCorrect
<1>7. Distinct
  BY <1>4 DEF NoWork, Distinct, AtRole
<1>8. Roles
  BY <1>3 DEF Roles
<1>9. Counted
  <2>1. Started = {}
    BY <1>3 DEF Started
  <2>2. Reserved = {}
    BY <1>4 DEF Reserved, NoWork
  <2> QED BY <2>1, <2>2, FS_EmptySet DEF Counted, Init
<1>10. MergedOnce /\ PushedWasValidated
  BY DEF Init, MergedOnce, PushedWasValidated
<1> QED BY <1>5, <1>6, <1>7, <1>8, <1>9, <1>10 DEF IInv

\* A caller goes on to the next place of its operation, with what it found.
LEMMA GotoKeeps ==
    ASSUME IInv, NEW c \in Callers, NEW label \in Labels \ {"idle", "verify", "enqueue", "start", "wait"},
           Goto(c, label), UNCHANGED <<batch, moved, head, gitHub, validated, roles, evidence>>,
           work[c].pc # "idle",
           label = "record" => work[c].pc = "wait" /\ roles[work[c].role].turn = "done",
           label \in AtMerge => Recorded(TaskOf(c), work[c].head, "APPROVED"),
           label = "reserve" => work[c].op = "correct"
                                /\ Recorded(TaskOf(c), work[c].head, "CHANGES_REQUESTED")
    PROVE  IInv'
<1> DEFINE w == [work[c] EXCEPT !.pc = label]
<1>1. work[c] \in WorkType /\ work \in [Callers -> WorkType] /\ Known(c)
  BY DEF IInv, TypeOK, WorkType
<1>2. /\ w \in WorkType /\ w.pc = label /\ w.op = work[c].op /\ w.head = work[c].head
      /\ w.ref = work[c].ref /\ w.role = work[c].role
  BY <1>1 DEF WorkType
<1>3. work' = [work EXCEPT ![c] = w]
  BY DEF Goto
<1> HIDE DEF w
<1>4. work'[c] = w /\ work' \in [Callers -> WorkType]
  BY <1>1, <1>2, <1>3
<1>5. TypeOK'
  BY <1>4 DEF IInv, TypeOK, gitHub, WorkType
<1>6. Grows
  BY NothingGrows DEF IInv
<1>7. (\A t, h, v : Recorded(t, h, v)' = Recorded(t, h, v)) /\ TaskOf(c)' = TaskOf(c)
  BY DEF Recorded, TaskOf
<1>8. Captured(c)'
  BY <1>1, <1>2, <1>4, <1>7 DEF Known, Captured
<1>9. Refers(c)' /\ Earned(c)'
  BY <1>1, <1>2, <1>4, <1>7 DEF Known, Refers, Earned, AtRole, AtCorrect, AtMerge
<1>10. Owns(c)'
  BY <1>1, <1>2, <1>4, <1>7 DEF Known, Owns, AtRole
<1>11. UNCHANGED <<remote, merged>>
  BY DEF gitHub
<1>12. w.pc \notin AtRole \/ (work[c].pc \in AtRole /\ w.role = work[c].role)
  BY <1>2 DEF AtRole
<1>13. ~(w.op = "correct" /\ w.pc \in {"enqueue", "start"})
  BY <1>2
<1> QED BY <1>3, <1>5, <1>6, <1>8, <1>9, <1>10, <1>11, <1>12, <1>13, MovesKeep DEF Known

\* The checks.
LEMMA CheckSteps ==
    ASSUME IInv, NEW c \in Callers,
           \/ Look(c) \/ List(c) \/ VerifyFindings(c) \/ Wait(c) \/ VerifyApproval(c)
           \/ FirstGate(c) \/ SecondGate(c) \/ Reverify(c) \/ FinalGate(c)
    PROVE  IInv'
<1> USE DEF Labels, AtMerge, At
<1>1. Known(c) /\ TypeOK /\ Roles
  BY DEF IInv
<1>2. CASE Look(c)
  BY <1>2, GotoKeeps DEF Look
<1>3. CASE List(c)
  BY <1>3, GotoKeeps DEF List
<1>4. CASE Wait(c)
  BY <1>4, GotoKeeps DEF Wait
<1>5. CASE FirstGate(c) \/ SecondGate(c) \/ Reverify(c) \/ FinalGate(c)
  <2>1. Recorded(TaskOf(c), work[c].head, "APPROVED")
    BY <1>1, <1>5 DEF FirstGate, SecondGate, Reverify, FinalGate, Known, Earned
  <2>2. CASE FirstGate(c)
    BY <2>1, <2>2, GotoKeeps DEF FirstGate
  <2>3. CASE SecondGate(c)
    BY <2>1, <2>3, GotoKeeps DEF SecondGate
  <2>4. CASE Reverify(c)
    BY <2>1, <2>4, GotoKeeps DEF Reverify
  <2>5. CASE FinalGate(c)
    BY <2>1, <2>5, GotoKeeps DEF FinalGate
  <2> QED BY <1>5, <2>2, <2>3, <2>4, <2>5
<1>6. CASE VerifyApproval(c)
  <2>1. Recorded(TaskOf(c), work[c].head, "APPROVED")
    BY <1>1, <1>6 DEF VerifyApproval, Approved, Verified, Known, Refers, Recorded
  <2> QED BY <1>6, <2>1, GotoKeeps DEF VerifyApproval
<1>7. CASE VerifyFindings(c)
  <2> DEFINE r == roles[work[c].ref]
  <2>1. /\ r.kind = "review" /\ r.state = "COMPLETED" /\ r.task = TaskOf(c)
        /\ r.head = head[TaskOf(c)] /\ r.verdict = "CHANGES_REQUESTED"
        /\ work[c].ref \in 1..Len(roles) /\ r.head <= work[c].head
    BY <1>1, <1>7 DEF VerifyFindings, Verified, Known, Refers
  <2>2. work[c].head <= head[TaskOf(c)] /\ work[c].head \in Int /\ head[TaskOf(c)] \in Int
    BY <1>1, <1>7 DEF VerifyFindings, Known, Captured, TypeOK
  <2>3. r.head = work[c].head
    BY <2>1, <2>2
  <2>4. Recorded(TaskOf(c), work[c].head, "CHANGES_REQUESTED")
    BY <2>1, <2>3 DEF Recorded
  <2> QED BY <1>7, <2>4, GotoKeeps DEF VerifyFindings
<1> QED BY <1>2, <1>3, <1>4, <1>5, <1>6, <1>7

\* What is left of an operation that is over.
LEMMA EndKnown ==
    ASSUME IInv, NEW c \in Callers, End(c)
    PROVE  work'[c] = NoWork /\ work' \in [Callers -> WorkType] /\ Known(c)'
<1>1. work'[c] = NoWork /\ work \in [Callers -> WorkType]
  BY DEF IInv, TypeOK, End, WorkType
<1>2. NoWork \in WorkType
  BY PublishingAssumption DEF NoWork, WorkType, Labels
<1>3. Known(c)'
  BY <1>1 DEF NoWork, Known, Captured, Refers, Earned, Owns, AtRole, AtMerge, AtCorrect
<1> QED BY <1>1, <1>2, <1>3 DEF End

\* An operation throws, or its process dies with its evidence.
LEMMA ThrowSteps ==
    ASSUME IInv, NEW c \in Callers, Throw(c) \/ Crash(c)
    PROVE  IInv'
<1>1. End(c) /\ UNCHANGED <<batch, moved, head, gitHub, validated, roles>>
  BY DEF Throw, Crash
<1>2. /\ evidence' \in [Callers -> [task : Tasks \cup {NoTask}, batch : BatchType]]
      /\ \A d \in Callers \ {c} : evidence'[d] = evidence[d]
  <2>1. NoEvidence \in [task : Tasks \cup {NoTask}, batch : BatchType]
    BY PublishingAssumption DEF NoEvidence, BatchType
  <2> QED BY <2>1 DEF Throw, Crash, IInv, TypeOK
<1>3. TypeOK'
  BY <1>1, <1>2, EndKnown DEF IInv, TypeOK, gitHub, WorkType
<1>4. Grows
  BY <1>1, NothingGrows DEF IInv
<1>5. UNCHANGED <<remote, merged>>
  BY <1>1 DEF gitHub
<1> QED BY <1>1, <1>2, <1>3, <1>4, <1>5, EndKnown, MovesKeep DEF End, NoWork, AtRole

\* An operation begins: its head is validated and captured.
LEMMA CaptureStep ==
    ASSUME IInv, NEW c \in Callers, NEW o, NEW label, NEW ref \in 0..Len(roles), Capture(c, o, label, ref),
           \/ o = "draft" /\ label = "push"
           \/ o = "update" /\ label = "look"
           \/ o = "review" /\ label = "enqueue"
           \/ o \in {"correct", "merge"} /\ label = "verify" /\ ref \in 1..Len(roles)
    PROVE  IInv'
<1> DEFINE t == TaskOf(c)
           w == [op |-> o, pc |-> label, head |-> head[t], ref |-> ref, role |-> 0]
<1>1. /\ work' = [work EXCEPT ![c] = w] /\ validated' = validated \cup {<<t, head[t]>>}
      /\ UNCHANGED <<batch, moved, head, gitHub, roles, evidence>> /\ t \in Tasks
  BY DEF Capture, Publishable, TaskOf, IInv, TypeOK
<1>2. head[t] \in 1..MaxHeads /\ ref \in 0..MaxRoles
  BY <1>1, PublishingAssumption DEF IInv, TypeOK
<1>3. w \in WorkType
  BY <1>2, PublishingAssumption DEF WorkType, Labels
<1>4. w.pc = label /\ w.op = o /\ w.head = head[t] /\ w.ref = ref
  OBVIOUS
<1> HIDE DEF w
<1>5. work'[c] = w /\ work' \in [Callers -> WorkType]
  BY <1>1, <1>3 DEF IInv, TypeOK, WorkType
<1>6. TypeOK'
  <2>1. validated' \subseteq Tasks \X (1..MaxHeads)
    BY <1>1, <1>2 DEF IInv, TypeOK
  <2> QED BY <1>1, <1>5, <2>1 DEF IInv, TypeOK, gitHub, WorkType
<1>7. Grows
  BY <1>1 DEF Grows, IInv, TypeOK
<1>8. TaskOf(c)' = t
  BY <1>1 DEF TaskOf
<1>9. Captured(c)'
  BY <1>1, <1>2, <1>4, <1>5, <1>8 DEF Captured
<1>10. Refers(c)'
  <2>1. label = "verify" => ref \in 1..Len(roles)
    OBVIOUS
  <2> QED BY <1>1, <1>4, <1>5, <1>8, <2>1 DEF IInv, Roles, Refers
<1>11. Earned(c)' /\ Owns(c)'
  BY <1>4, <1>5 DEF Earned, Owns, AtRole, AtMerge, AtCorrect
<1>12. UNCHANGED <<remote, merged>>
  BY <1>1 DEF gitHub
<1>13. w.pc \notin AtRole /\ ~(w.op = "correct" /\ w.pc \in {"enqueue", "start"})
  BY <1>4 DEF AtRole
<1> QED BY <1>1, <1>6, <1>7, <1>9, <1>10, <1>11, <1>12, <1>13, MovesKeep DEF Known

\* Evidence is given to a caller that has no operation under way.
LEMMA ValidateStep ==
    ASSUME IInv, NEW c \in Callers, NEW t \in Tasks, Validate(c, t)
    PROVE  IInv'
<1>1. /\ UNCHANGED <<batch, moved, head, remote, merged, validated, roles, work>>
      /\ work' = [work EXCEPT ![c] = work[c]] /\ work[c].pc = "idle"
      /\ evidence' = [evidence EXCEPT ![c] = [task |-> t, batch |-> batch]]
  BY DEF Validate, gitHub, IInv, TypeOK
<1>2. TypeOK'
  BY <1>1 DEF Validate, gitHub, IInv, TypeOK
<1>3. Grows
  BY <1>1, NothingGrows DEF IInv
<1>4. Known(c)'
  <2>1. Known(c)
    BY DEF IInv
  <2> QED BY <1>1, <2>1 DEF Known, Captured, Refers, Earned, Owns, AtRole, AtMerge, AtCorrect
<1>5. work[c].pc \notin AtRole \cup {"enqueue", "start"}
  BY <1>1 DEF AtRole
<1>6. \A d \in Callers \ {c} : evidence'[d] = evidence[d]
  BY <1>1 DEF IInv, TypeOK
<1> QED BY <1>1, <1>2, <1>3, <1>4, <1>5, <1>6, MovesKeep

\* A push: the head is the captured one, which was validated.
LEMMA PushStep ==
    ASSUME IInv, NEW c \in Callers, Push(c)
    PROVE  IInv'
<1> DEFINE t == TaskOf(c)
           w == IF work[c].op = "draft" THEN [work[c] EXCEPT !.pc = "list"] ELSE NoWork
<1>1. /\ UNCHANGED <<batch, moved, head, pr, merged, validated, roles, evidence>>
      /\ remote' = [remote EXCEPT ![t] = work[c].head] /\ work[c].pc = "push"
      /\ work' = [work EXCEPT ![c] = w]
  BY DEF Push, At, Goto, End
<1>2. Known(c) /\ work[c] \in WorkType
  BY DEF IInv, TypeOK, WorkType
<1>3. t \in Tasks /\ work[c].head \in 1..MaxHeads /\ <<t, work[c].head>> \in validated
  BY <1>1, <1>2 DEF Known, Captured
<1>4. NoWork \in WorkType
  BY PublishingAssumption DEF NoWork, WorkType, Labels
<1>5. /\ w \in WorkType
      /\ w = NoWork \/ (w.pc = "list" /\ w.op = work[c].op /\ w.head = work[c].head)
  BY <1>2, <1>4 DEF WorkType, Labels
<1> HIDE DEF w
<1>6. work'[c] = w /\ work' \in [Callers -> WorkType]
  BY <1>1, <1>5 DEF IInv, TypeOK, WorkType
<1>7. TypeOK'
  <2>1. remote' \in [Tasks -> 0..MaxHeads]
    BY <1>1, <1>3, PublishingAssumption DEF IInv, TypeOK
  <2> QED BY <1>1, <1>6, <2>1 DEF IInv, TypeOK, WorkType
<1>8. Grows
  BY <1>1, NothingGrows DEF IInv
<1>9. Known(c)'
  <2>1. TaskOf(c)' = t
    BY <1>1 DEF TaskOf
  <2> QED BY <1>1, <1>2, <1>5, <1>6, <2>1
        DEF NoWork, Known, Captured, Refers, Earned, Owns, AtRole, AtMerge, AtCorrect
<1>10. w.pc \notin AtRole \cup {"enqueue", "start"}
  BY <1>5 DEF NoWork, AtRole
<1>11. (\A d \in Callers : Known(d)') /\ Distinct' /\ Roles' /\ Counted'
  BY <1>1, <1>7, <1>8, <1>9, <1>10, PlacesKeep
<1>12. MergedOnce'
  BY <1>1, <1>7, <1>8, MergesKeep
<1>13. PushedWasValidated'
  BY <1>1, <1>3 DEF IInv, TypeOK, PushedWasValidated
<1> QED BY <1>7, <1>11, <1>12, <1>13 DEF IInv

\* The pull request is created.
LEMMA CreateStep ==
    ASSUME IInv, NEW c \in Callers, Create(c)
    PROVE  IInv'
<1>1. End(c) /\ UNCHANGED <<batch, moved, head, remote, merged, validated, roles, evidence>>
  BY DEF Create
<1>2. pr' \in [Tasks -> {"none", "draft", "ready", "merged"}]
  BY DEF Create, IInv, TypeOK
<1>3. TypeOK'
  BY <1>1, <1>2, EndKnown DEF IInv, TypeOK, WorkType
<1>4. Grows
  BY <1>1, NothingGrows DEF IInv
<1> QED BY <1>1, <1>3, <1>4, EndKnown, MovesKeep DEF End, NoWork, AtRole

\* The pull request is marked ready.
LEMMA MarkReadyStep ==
    ASSUME IInv, NEW c \in Callers, MarkReady(c)
    PROVE  IInv'
<1> DEFINE w == [work[c] EXCEPT !.pc = "regate"]
<1>1. /\ UNCHANGED <<batch, moved, head, remote, merged, validated, roles, evidence>>
      /\ work[c].pc = "ready" /\ work' = [work EXCEPT ![c] = w]
  BY DEF MarkReady, At, Goto
<1>2. Known(c) /\ work[c] \in WorkType
  BY DEF IInv, TypeOK, WorkType
<1>3. w \in WorkType /\ w.pc = "regate" /\ w.op = work[c].op /\ w.head = work[c].head
  BY <1>2 DEF WorkType, Labels
<1> HIDE DEF w
<1>4. work'[c] = w /\ work' \in [Callers -> WorkType]
  BY <1>1, <1>3 DEF IInv, TypeOK, WorkType
<1>5. TypeOK'
  <2>1. pr' \in [Tasks -> {"none", "draft", "ready", "merged"}]
    BY DEF MarkReady, IInv, TypeOK
  <2> QED BY <1>1, <1>4, <2>1 DEF IInv, TypeOK, WorkType
<1>6. Grows
  BY <1>1, NothingGrows DEF IInv
<1>7. Known(c)'
  <2>1. TaskOf(c)' = TaskOf(c) /\ \A t, h, v : Recorded(t, h, v)' = Recorded(t, h, v)
    BY <1>1 DEF TaskOf, Recorded
  <2> QED BY <1>1, <1>2, <1>3, <1>4, <2>1
        DEF Known, Captured, Refers, Earned, Owns, AtRole, AtMerge, AtCorrect
<1>8. w.pc \notin AtRole \cup {"enqueue", "start"}
  BY <1>3 DEF AtRole
<1> QED BY <1>1, <1>5, <1>6, <1>7, <1>8, MovesKeep

\* The merge: of the captured head, while main has not moved.
LEMMA MergeStep ==
    ASSUME IInv, NEW c \in Callers, MergePullRequest(c)
    PROVE  IInv'
<1> DEFINE t == TaskOf(c)
           h == work[c].head
<1>1. /\ End(c) /\ UNCHANGED <<batch, head, remote, validated, roles, evidence>>
      /\ merged' = [merged EXCEPT ![t] = h] /\ pr' = [pr EXCEPT ![t] = "merged"]
      /\ ~moved /\ moved' = TRUE /\ work[c].pc = "merge"
  BY DEF MergePullRequest, Merged, At
<1>2. t \in Tasks /\ h \in 1..MaxHeads /\ Recorded(t, h, "APPROVED")
  BY <1>1 DEF IInv, Known, Captured, Earned, AtMerge
<1>3. TypeOK'
  <2>1. merged' \in [Tasks -> 0..MaxHeads] /\ pr' \in [Tasks -> {"none", "draft", "ready", "merged"}]
    BY <1>1, <1>2, PublishingAssumption DEF IInv, TypeOK
  <2> QED BY <1>1, <2>1, EndKnown DEF IInv, TypeOK, WorkType
<1>4. Grows
  BY <1>1, NothingGrows DEF IInv
<1>5. (\A d \in Callers : Known(d)') /\ Distinct' /\ Roles' /\ Counted'
  BY <1>1, <1>3, <1>4, EndKnown, PlacesKeep DEF End, NoWork, AtRole
<1>6. MergedOnce'
  <2>1. \A u \in Tasks : merged[u] = 0
    BY <1>1 DEF IInv, MergedOnce
  <2>2. \A u \in Tasks : merged'[u] # 0 => u = t /\ merged'[u] = h
    BY <1>1, <1>2, <2>1 DEF IInv, TypeOK
  <2> DEFINE approved(i, x, y) ==
               /\ roles[i].kind = "review" /\ roles[i].task = x /\ roles[i].head = y
               /\ roles[i].state = "COMPLETED" /\ roles[i].verdict = "APPROVED"
  <2>3. PICK i \in 1..Len(roles) : approved(i, t, h)
    BY <1>2 DEF Recorded
  <2>4. ASSUME NEW u \in Tasks, merged'[u] # 0
        PROVE  approved(i, u, merged'[u])
    BY <2>2, <2>3, <2>4
  <2>5. ASSUME NEW u \in Tasks, merged'[u] # 0
        PROVE  Recorded(u, merged[u], "APPROVED")'
    BY <1>1, <2>4, <2>5 DEF Recorded
  <2> QED BY <1>1, <2>2, <2>5 DEF MergedOnce
<1>7. PushedWasValidated'
  BY <1>1, <1>4, PushesKeep
<1> QED BY <1>3, <1>5, <1>6, <1>7 DEF IInv

\* A correction is reserved: it is counted, so the caller may start it.
LEMMA ReserveStep ==
    ASSUME IInv, NEW c \in Callers, Reserve(c)
    PROVE  IInv'
<1> DEFINE w == [work[c] EXCEPT !.pc = "enqueue"]
<1>1. /\ UNCHANGED <<moved, head, remote, pr, merged, validated, roles, evidence>>
      /\ work[c].pc = "reserve" /\ work' = [work EXCEPT ![c] = w]
      /\ batch' = [batch EXCEPT !.cycles = @ + 1] /\ batch.cycles < MaxCycles
  BY DEF Reserve, At, Goto, gitHub
<1>2. Known(c) /\ work[c] \in WorkType /\ work \in [Callers -> WorkType]
  BY DEF IInv, TypeOK, WorkType
<1>3. w \in WorkType /\ w.pc = "enqueue" /\ w.op = work[c].op /\ w.head = work[c].head
  BY <1>2 DEF WorkType, Labels
<1> HIDE DEF w
<1>4. work'[c] = w /\ work' \in [Callers -> WorkType]
  BY <1>1, <1>2, <1>3
<1>5. batch' \in BatchType /\ batch'.cycles = batch.cycles + 1 /\ batch.cycles \in Nat
  <2>1. batch \in BatchType
    BY DEF IInv, TypeOK
  <2>2. batch.cycles \in 0..MaxCycles /\ batch.cycles + 1 \in 0..MaxCycles
    BY <1>1, <2>1, PublishingAssumption DEF BatchType
  <2>3. batch' = [batch EXCEPT !.cycles = batch.cycles + 1]
    BY <1>1
  <2> QED BY <2>1, <2>2, <2>3 DEF BatchType
<1>6. TypeOK'
  BY <1>1, <1>4, <1>5 DEF IInv, TypeOK, WorkType
<1>7. Grows
  BY <1>1, NothingGrows DEF IInv
<1>8. Known(c)'
  <2>1. TaskOf(c)' = TaskOf(c) /\ \A t, h, v : Recorded(t, h, v)' = Recorded(t, h, v)
    BY <1>1 DEF TaskOf, Recorded
  <2> QED BY <1>1, <1>2, <1>3, <1>4, <2>1
        DEF Known, Captured, Refers, Earned, Owns, AtRole, AtMerge, AtCorrect
<1>9. ASSUME NEW d \in Callers PROVE Known(d)'
  <2>1. CASE d # c
    <3>1. work'[d] = work[d]
      BY <1>1, <1>2, <2>1
    <3> QED BY <1>1, <1>6, <1>7, <3>1, OthersKeep
  <2> QED BY <1>8, <2>1
<1>10. Distinct'
  BY <1>1, <1>2, <1>3, <1>4 DEF IInv, Distinct, AtRole
<1>11. Counted'
  <2>1. Reserved' = Reserved \cup {c} /\ c \notin Reserved
    BY <1>1, <1>2, <1>3, <1>4 DEF Reserved, Known, Earned
  <2>2. IsFiniteSet(Reserved') /\ Cardinality(Reserved') = Cardinality(Reserved) + 1
    BY <2>1, FS_AddElement DEF IInv, Counted
  <2>3. Cardinality(Started) \in Nat /\ Cardinality(Reserved) \in Nat
    BY StartedFinite, FS_CardinalityType DEF IInv, Counted
  <2>4. Started' = Started
    BY <1>1 DEF Started
  <2> QED BY <1>5, <2>2, <2>3, <2>4 DEF IInv, Counted
<1>12. Roles' /\ MergedOnce' /\ PushedWasValidated'
  BY <1>1, <1>6, <1>7, RolesKeep, MergesKeep, PushesKeep
<1> QED BY <1>6, <1>9, <1>10, <1>11, <1>12 DEF IInv

\* A role batch is added, the caller's own.
LEMMA EnqueueStep ==
    ASSUME IInv, NEW c \in Callers, Enqueue(c)
    PROVE  IInv'
<1> DEFINE n == Len(roles) + 1
           r == [kind |-> IF work[c].op = "review" THEN "review" ELSE "correction",
                 task |-> TaskOf(c), head |-> work[c].head,
                 state |-> "QUEUED", turn |-> "none", verdict |-> "none"]
           w == [work[c] EXCEPT !.pc = "start", !.role = n]
<1>1. /\ UNCHANGED <<batch, moved, head, remote, pr, merged, validated, evidence>>
      /\ work[c].pc = "enqueue" /\ Len(roles) < MaxRoles
      /\ roles' = Append(roles, r)
  BY DEF Enqueue, At, gitHub
<1>2. work' = [work EXCEPT ![c] = w]
  BY DEF Enqueue
<1>3. Known(c) /\ work[c] \in WorkType /\ work \in [Callers -> WorkType] /\ TypeOK
  BY DEF IInv, TypeOK, WorkType
<1>4. Len(roles) \in Nat /\ n \in 1..MaxRoles /\ roles \in Seq(RoleType)
  BY <1>1, <1>3, PublishingAssumption DEF TypeOK
<1>5. /\ w \in WorkType /\ w.pc = "start" /\ w.op = work[c].op /\ w.head = work[c].head /\ w.role = n
  <2> DEFINE v == [work[c] EXCEPT !.pc = "start"]
  <2>1. v \in WorkType /\ v.pc = "start" /\ v.op = work[c].op /\ v.head = work[c].head
    BY <1>3 DEF WorkType, Labels
  <2>2. w = [v EXCEPT !.role = n]
    OBVIOUS
  <2> HIDE DEF v, w
  <2>3. n \in 0..MaxRoles
    BY <1>4
  <2> QED BY <2>1, <2>2, <2>3 DEF WorkType
<1>6. TaskOf(c) \in Tasks /\ work[c].head \in 1..MaxHeads /\ work[c].head <= head[TaskOf(c)]
      /\ work[c].op \in {"review", "correct"}
  BY <1>1, <1>3 DEF Known, Captured, Earned
<1>7. r \in RoleType /\ r.task = TaskOf(c) /\ r.head = work[c].head /\ r.turn = "none" /\ r.state = "QUEUED"
      /\ r.kind = IF work[c].op = "review" THEN "review" ELSE "correction"
  BY <1>6 DEF RoleType, Verdicts
<1> HIDE DEF w, r
<1>8. work'[c] = w /\ work' \in [Callers -> WorkType] /\ \A d \in Callers \ {c} : work'[d] = work[d]
  BY <1>2, <1>3, <1>5
<1>9. /\ roles' \in Seq(RoleType) /\ Len(roles') = n /\ roles'[n] = r
      /\ \A i \in 1..Len(roles) : roles'[i] = roles[i]
  BY <1>1, <1>4, <1>7
<1>10. TypeOK'
  <2>1. Len(roles') <= MaxRoles
    BY <1>4, <1>9, PublishingAssumption
  <2> QED BY <1>1, <1>3, <1>8, <1>9, <2>1 DEF TypeOK, WorkType
<1>11. Grows
  BY <1>1, <1>3, <1>4, <1>9 DEF TypeOK, Grows
<1>12. TaskOf(c)' = TaskOf(c)
  BY <1>1 DEF TaskOf
<1>13. Known(c)'
  <2>1. Captured(c)'
    BY <1>1, <1>3, <1>5, <1>8, <1>12 DEF Known, Captured
  <2>2. Refers(c)'
    BY <1>5, <1>8 DEF Refers
  <2>3. work[c].op = "correct" => Recorded(TaskOf(c), work[c].head, "CHANGES_REQUESTED")'
    BY <1>1, <1>3, <1>5, <1>8, <1>10, <1>11, <1>12, RecordedStays DEF Known, Earned, AtCorrect
  <2>4. Earned(c)'
    BY <1>5, <1>6, <1>8, <1>12, <2>3 DEF Earned, AtRole, AtMerge, AtCorrect
  <2>5. n \in 1..Len(roles')
    BY <1>4, <1>9
  <2>6. Owns(c)'
    BY <1>5, <1>7, <1>8, <1>9, <1>12, <2>5 DEF Owns
  <2> QED BY <2>1, <2>2, <2>4, <2>6 DEF Known
<1>14. ASSUME NEW d \in Callers PROVE Known(d)'
  <2>1. CASE d # c
    <3>1. work'[d] = work[d] /\ Known(d)
      BY <1>8, <2>1 DEF IInv
    <3>2. work[d].pc \in AtRole => work[d].role \in 1..Len(roles)
      BY <3>1 DEF Known, Owns
    <3>3. work[d].pc \in {"start", "record"} =>
             roles'[work[d].role].turn = roles[work[d].role].turn
      BY <1>9, <3>2 DEF AtRole
    <3> QED BY <1>1, <1>10, <1>11, <3>1, <3>3, OthersKeep
  <2> QED BY <1>13, <2>1
<1>15. Distinct'
  <2>1. \A d \in Callers \ {c} : work[d].pc \in AtRole => work[d].role # n
    BY <1>4 DEF IInv, Known, Owns
  <2>2. \A d, e \in Callers \ {c} :
           work[d].pc \in AtRole /\ work[e].pc \in AtRole /\ work[d].role = work[e].role => d = e
    BY DEF IInv, Distinct
  <2> QED BY <1>5, <1>8, <2>1, <2>2 DEF Distinct
<1>16. Roles'
  <2> SUFFICES ASSUME NEW i \in 1..Len(roles')
               PROVE  /\ roles'[i].head <= head'[roles'[i].task]
                      /\ roles'[i].state = "COMPLETED" => roles'[i].turn = "done"
                      /\ roles'[i].kind = "correction" /\ roles'[i].turn # "none" =>
                            Recorded(roles[i].task, roles[i].head, "CHANGES_REQUESTED")'
    BY DEF Roles
  <2>1. CASE i = n
    BY <1>1, <1>6, <1>7, <1>9, <2>1
  <2>2. CASE i # n
    <3>1. i \in 1..Len(roles) /\ roles'[i] = roles[i] /\ head' = head
      BY <1>1, <1>4, <1>9, <2>2
    <3> QED BY <1>10, <1>11, <3>1, RecordedStays DEF IInv, Roles
  <2> QED BY <2>1, <2>2
<1>17. Counted'
  <2>1. Reserved' = Reserved
    BY <1>1, <1>5, <1>8 DEF Reserved
  <2>2. Started' = Started
    <3>1. \A i : i \in 1..Len(roles') <=> i \in 1..Len(roles) \/ i = n
      BY <1>4, <1>9
    <3>2. n \notin 1..Len(roles)
      BY <1>4
    <3> QED BY <1>7, <1>9, <3>1, <3>2 DEF Started
  <2> QED BY <1>1, <2>1, <2>2, CountKeeps
<1>18. MergedOnce' /\ PushedWasValidated'
  BY <1>1, <1>10, <1>11, MergesKeep, PushesKeep
<1> QED BY <1>10, <1>14, <1>15, <1>16, <1>17, <1>18 DEF IInv

\* A turn is started: of the caller's own batch, whose correction was reserved.
LEMMA StartStep ==
    ASSUME IInv, NEW c \in Callers, Start(c)
    PROVE  IInv'
<1> DEFINE k == work[c].role
           w == [work[c] EXCEPT !.pc = "wait"]
           r == [roles[k] EXCEPT !.turn = "running"]
<1>1. /\ UNCHANGED <<batch, moved, head, remote, pr, merged, validated, evidence>>
      /\ work[c].pc = "start" /\ work' = [work EXCEPT ![c] = w]
      /\ roles' = [roles EXCEPT ![k] = r] /\ roles[k].state \in {"QUEUED", "TAKEN"}
  BY DEF Start, At, Goto, gitHub
<1>2. Known(c) /\ work[c] \in WorkType /\ work \in [Callers -> WorkType] /\ TypeOK
  BY DEF IInv, TypeOK, WorkType
<1>3. w \in WorkType /\ w.pc = "wait" /\ w.op = work[c].op /\ w.head = work[c].head /\ w.role = k
  BY <1>2 DEF WorkType, Labels
<1>4. /\ k \in 1..Len(roles)
      /\ roles[k].kind = IF work[c].op = "review" THEN "review" ELSE "correction"
      /\ roles[k].task = TaskOf(c) /\ roles[k].head = work[c].head /\ roles[k].turn = "none"
      /\ work[c].op \in {"review", "correct"}
      /\ work[c].op = "correct" => Recorded(TaskOf(c), work[c].head, "CHANGES_REQUESTED")
  BY <1>1, <1>2 DEF Known, Owns, Earned, AtRole, AtCorrect
<1>5. roles[k] \in RoleType /\ roles \in Seq(RoleType)
  BY <1>2, <1>4 DEF TypeOK
<1>6. /\ r \in RoleType /\ r.kind = roles[k].kind /\ r.task = roles[k].task /\ r.head = roles[k].head
      /\ r.state = roles[k].state /\ r.turn = "running"
  BY <1>5 DEF RoleType
<1> HIDE DEF w, r
<1>7. work'[c] = w /\ work' \in [Callers -> WorkType] /\ \A d \in Callers \ {c} : work'[d] = work[d]
  BY <1>1, <1>2, <1>3
<1>8. /\ roles' \in Seq(RoleType) /\ Len(roles') = Len(roles) /\ roles'[k] = r
      /\ \A i \in 1..Len(roles) : i # k => roles'[i] = roles[i]
  BY <1>1, <1>4, <1>5, <1>6
<1>9. TypeOK'
  BY <1>1, <1>2, <1>7, <1>8 DEF TypeOK, WorkType
<1>10. Grows
  BY <1>1, <1>2, <1>6, <1>8 DEF TypeOK, Grows
<1>11. TaskOf(c)' = TaskOf(c)
  BY <1>1 DEF TaskOf
<1>12. work[c].op = "correct" => Recorded(TaskOf(c), work[c].head, "CHANGES_REQUESTED")'
  BY <1>2, <1>3, <1>4, <1>7, <1>9, <1>10, <1>11, RecordedStays
<1>13. Known(c)'
  <2>1. Captured(c)' /\ Refers(c)' /\ Earned(c)'
    BY <1>1, <1>2, <1>3, <1>4, <1>7, <1>11
       DEF Known, Captured, Refers, Earned, AtRole, AtMerge, AtCorrect
  <2>2. Owns(c)'
    BY <1>3, <1>4, <1>6, <1>7, <1>8, <1>11 DEF Owns
  <2> QED BY <2>1, <2>2 DEF Known
<1>14. ASSUME NEW d \in Callers PROVE Known(d)'
  <2>1. CASE d # c
    <3>1. work'[d] = work[d] /\ Known(d)
      BY <1>7, <2>1 DEF IInv
    <3>2. work[d].pc \in AtRole => work[d].role \in 1..Len(roles) /\ work[d].role # k
      BY <1>1, <2>1, <3>1 DEF IInv, Distinct, Known, Owns, AtRole
    <3>3. work[d].pc \in {"start", "record"} =>
             roles'[work[d].role].turn = roles[work[d].role].turn
      BY <1>8, <3>2 DEF AtRole
    <3> QED BY <1>1, <1>9, <1>10, <3>1, <3>3, OthersKeep
  <2> QED BY <1>13, <2>1
<1>15. Distinct'
  BY <1>1, <1>3, <1>7 DEF IInv, Distinct, AtRole
<1>16. Roles'
  <2> SUFFICES ASSUME NEW i \in 1..Len(roles)
               PROVE  /\ roles'[i].head <= head'[roles'[i].task]
                      /\ roles'[i].state = "COMPLETED" => roles'[i].turn = "done"
                      /\ roles'[i].kind = "correction" /\ roles'[i].turn # "none" =>
                            Recorded(roles[i].task, roles[i].head, "CHANGES_REQUESTED")'
    BY <1>8 DEF Roles
  <2>1. roles[i].head <= head[roles[i].task]
    BY DEF IInv, Roles
  <2>2. CASE i = k
    BY <1>1, <1>4, <1>6, <1>8, <1>12, <1>7, <1>3, <1>11, <2>1, <2>2
  <2>3. CASE i # k
    <3>1. roles'[i] = roles[i] /\ head' = head
      BY <1>1, <1>8, <2>3
    <3> QED BY <1>9, <1>10, <3>1, RecordedStays DEF IInv, Roles
  <2> QED BY <2>2, <2>3
<1>17. Counted'
  <2>1. CASE work[c].op = "correct"
    <3>1. Reserved' = Reserved \ {c} /\ c \in Reserved
      BY <1>1, <1>3, <1>7, <2>1 DEF Reserved
    <3>2. Started' = Started \cup {k} /\ k \notin Started
      BY <1>4, <1>6, <1>8, <2>1 DEF Started
    <3>3. IsFiniteSet(Reserved') /\ Cardinality(Reserved') = Cardinality(Reserved) - 1
      BY <3>1, FS_RemoveElement DEF IInv, Counted
    <3>4. IsFiniteSet(Started) /\ Cardinality(Started') = Cardinality(Started) + 1
      BY <1>2, <3>2, StartedFinite, FS_AddElement
    <3>5. Cardinality(Started) \in Nat /\ Cardinality(Reserved) \in Nat
      BY <3>4, FS_CardinalityType DEF IInv, Counted
    <3> QED BY <1>1, <3>3, <3>4, <3>5 DEF IInv, Counted
  <2>2. CASE work[c].op = "review"
    <3>1. Reserved' \subseteq Reserved
      BY <1>3, <1>7 DEF Reserved
    <3>2. Started' = Started
      BY <1>4, <1>6, <1>8, <2>2 DEF Started
    <3> QED BY <1>1, <3>1, <3>2, CountKeeps
  <2> QED BY <1>4, <2>1, <2>2
<1>18. MergedOnce' /\ PushedWasValidated'
  BY <1>1, <1>9, <1>10, MergesKeep, PushesKeep
<1> QED BY <1>9, <1>14, <1>15, <1>16, <1>17, <1>18 DEF IInv

\* A step that changes the state or turn of one role batch, and its verdict if
\* it was not recorded, for callers that do not wait for it to start or record.
LEMMA RoleKeeps ==
    ASSUME IInv, NEW k \in 1..Len(roles), NEW r \in RoleType, roles' = [roles EXCEPT ![k] = r],
           UNCHANGED <<batch, moved, head, remote, pr, merged, validated, evidence>>,
           r.kind = roles[k].kind, r.task = roles[k].task, r.head = roles[k].head,
           roles[k].state = "COMPLETED" => r.state = "COMPLETED" /\ r.verdict = roles[k].verdict,
           r.state = "COMPLETED" => r.turn = "done",
           r.turn = "none" <=> roles[k].turn = "none",
           r.turn = roles[k].turn \/ roles[k].turn = "running",
           work' \in [Callers -> WorkType],
           \A c \in Callers : work'[c] = work[c] \/ work'[c] = NoWork
    PROVE  IInv'
<1>1. TypeOK /\ roles \in Seq(RoleType)
  BY DEF IInv, TypeOK
<1>2. /\ roles' \in Seq(RoleType) /\ Len(roles') = Len(roles) /\ roles'[k] = r
      /\ \A i \in 1..Len(roles) : i # k => roles'[i] = roles[i]
  BY <1>1
<1>3. TypeOK'
  BY <1>1, <1>2 DEF TypeOK, WorkType
<1>4. Grows
  BY <1>1, <1>2 DEF TypeOK, Grows
<1>5. ASSUME NEW d \in Callers PROVE Known(d)'
  <2>1. CASE work'[d] = NoWork
    BY <2>1 DEF NoWork, Known, Captured, Refers, Earned, Owns, AtRole, AtMerge, AtCorrect
  <2>2. CASE work'[d] = work[d]
    <3>1. /\ work[d].pc \in {"start", "record"} => work[d].role \in 1..Len(roles)
          /\ work[d].pc = "start" => roles[work[d].role].turn = "none"
          /\ work[d].pc = "record" => roles[work[d].role].turn = "done"
      BY DEF IInv, Known, Owns, AtRole
    <3>2. work[d].pc \in {"start", "record"} =>
             roles'[work[d].role].turn = roles[work[d].role].turn
      BY <1>2, <3>1
    <3> QED BY <1>3, <1>4, <2>2, <3>2, OthersKeep
  <2> QED BY <2>1, <2>2
<1>6. Distinct'
  BY DEF IInv, Distinct, AtRole, NoWork
<1>7. Roles'
  <2> SUFFICES ASSUME NEW i \in 1..Len(roles)
               PROVE  /\ roles'[i].head <= head'[roles'[i].task]
                      /\ roles'[i].state = "COMPLETED" => roles'[i].turn = "done"
                      /\ roles'[i].kind = "correction" /\ roles'[i].turn # "none" =>
                            Recorded(roles[i].task, roles[i].head, "CHANGES_REQUESTED")'
    BY <1>2, <1>4 DEF Roles, Grows
  <2>1. /\ roles[i].head <= head[roles[i].task]
        /\ roles[i].state = "COMPLETED" => roles[i].turn = "done"
        /\ roles[i].kind = "correction" /\ roles[i].turn # "none" =>
              Recorded(roles[i].task, roles[i].head, "CHANGES_REQUESTED")'
    BY <1>3, <1>4, RecordedStays DEF IInv, Roles
  <2>2. CASE i = k
    BY <1>2, <2>1, <2>2
  <2>3. CASE i # k
    BY <1>2, <2>1, <2>3
  <2> QED BY <2>2, <2>3
<1>8. Counted'
  <2>1. Reserved' \subseteq Reserved
    BY DEF Reserved, NoWork
  <2>2. Started' = Started
    BY <1>2 DEF Started
  <2> QED BY <2>1, <2>2, CountKeeps
<1>9. MergedOnce' /\ PushedWasValidated'
  BY <1>3, <1>4, MergesKeep, PushesKeep
<1> QED BY <1>3, <1>5, <1>6, <1>7, <1>8, <1>9 DEF IInv

\* A review or a correction is recorded: its turn is done.
LEMMA RecordStep ==
    ASSUME IInv, NEW c \in Callers, Record(c)
    PROVE  IInv'
<1> DEFINE k == work[c].role
           r == [roles[k] EXCEPT !.state = "COMPLETED"]
<1>1. /\ UNCHANGED <<batch, moved, head, remote, pr, merged, validated, evidence>>
      /\ work[c].pc = "record" /\ roles' = [roles EXCEPT ![k] = r] /\ End(c)
  BY DEF Record, At, gitHub
<1>2. k \in 1..Len(roles) /\ roles[k].turn = "done"
  BY <1>1 DEF IInv, Known, Owns, AtRole
<1>3. roles[k] \in RoleType
  BY <1>2 DEF IInv, TypeOK
<1>4. /\ r \in RoleType /\ r.kind = roles[k].kind /\ r.task = roles[k].task /\ r.head = roles[k].head
      /\ r.state = "COMPLETED" /\ r.turn = roles[k].turn /\ r.verdict = roles[k].verdict
  BY <1>3 DEF RoleType
<1> HIDE DEF k, r
<1>5. work' \in [Callers -> WorkType] /\ \A d \in Callers : work'[d] = work[d] \/ work'[d] = NoWork
  BY <1>1, EndKnown DEF End, IInv, TypeOK
<1> QED BY <1>1, <1>2, <1>4, <1>5, RoleKeeps

\* The service claims a role batch, or records its end.
LEMMA PollStep ==
    ASSUME IInv, NEW k \in 1..Len(roles), Poll(k)
    PROVE  IInv'
<1> DEFINE s == IF roles[k].state = "QUEUED" THEN "TAKEN" ELSE "OVER"
           r == [roles[k] EXCEPT !.state = s]
<1>1. /\ UNCHANGED <<batch, moved, head, remote, pr, merged, validated, evidence, work>>
      /\ roles' = [roles EXCEPT ![k] = r] /\ roles[k].state \in {"QUEUED", "TAKEN"}
  BY DEF Poll, gitHub
<1>2. roles[k] \in RoleType /\ work \in [Callers -> WorkType]
  BY DEF IInv, TypeOK, WorkType
<1>3. s \in {"TAKEN", "OVER"}
  OBVIOUS
<1> HIDE DEF s
<1>4. /\ r \in RoleType /\ r.kind = roles[k].kind /\ r.task = roles[k].task /\ r.head = roles[k].head
      /\ r.state = s /\ r.turn = roles[k].turn
  BY <1>2, <1>3 DEF RoleType
<1> HIDE DEF r
<1> QED BY <1>1, <1>2, <1>3, <1>4, RoleKeeps

\* A turn succeeds; its batch was not recorded.
LEMMA TurnEndsStep ==
    ASSUME IInv, NEW k \in 1..Len(roles), NEW v \in Verdicts, TurnEnds(k, v)
    PROVE  IInv'
<1> DEFINE d == [roles[k] EXCEPT !.turn = "done"]
           r == [d EXCEPT !.verdict = v]
<1>1. /\ UNCHANGED <<batch, moved, head, remote, pr, merged, validated, evidence, work>>
      /\ roles[k].turn = "running"
  BY DEF TurnEnds, gitHub
<1>2. roles[k] \in RoleType /\ work \in [Callers -> WorkType]
  BY DEF IInv, TypeOK, WorkType
<1>3. roles' = [roles EXCEPT ![k] = r]
  BY DEF TurnEnds
<1>4. /\ d \in RoleType /\ d.kind = roles[k].kind /\ d.task = roles[k].task /\ d.head = roles[k].head
      /\ d.state = roles[k].state /\ d.turn = "done"
  BY <1>2 DEF RoleType
<1> HIDE DEF d
<1>5. /\ r \in RoleType /\ r.kind = roles[k].kind /\ r.task = roles[k].task /\ r.head = roles[k].head
      /\ r.state = roles[k].state /\ r.turn = "done"
  BY <1>4 DEF RoleType
<1> HIDE DEF r
<1>6. roles[k].state # "COMPLETED"
  BY <1>1 DEF IInv, Roles
<1> QED BY <1>1, <1>2, <1>3, <1>5, <1>6, RoleKeeps

\* A correction's worker commits: heads grow.
LEMMA CommitStep ==
    ASSUME IInv, NEW k \in 1..Len(roles), Commit(k)
    PROVE  IInv'
<1>1. /\ UNCHANGED <<batch, moved, remote, pr, merged, validated, roles, evidence, work>>
      /\ head[roles[k].task] < MaxHeads
      /\ head' = [head EXCEPT ![roles[k].task] = head[roles[k].task] + 1]
  BY DEF Commit, gitHub
<1>2. TypeOK /\ head \in [Tasks -> 1..MaxHeads]
  BY DEF IInv, TypeOK
<1>3. head' \in [Tasks -> 1..MaxHeads] /\ \A t \in Tasks : head[t] <= head'[t]
  <2>1. roles[k].task \in Tasks
    <3>1. roles[k] \in RoleType
      BY <1>2 DEF TypeOK
    <3> QED BY <3>1 DEF RoleType
  <2>2. \A t \in Tasks : head[t] \in 1..MaxHeads
    BY <1>2
  <2>3. head[roles[k].task] + 1 \in 1..MaxHeads
    BY <1>1, <2>1, <2>2, PublishingAssumption
  <2>4. \A t \in Tasks :
           head'[t] = IF t = roles[k].task THEN head[roles[k].task] + 1 ELSE head[t]
    BY <1>1, <1>2, <2>1
  <2>5. head' \in [Tasks -> 1..MaxHeads]
    BY <1>1, <1>2, <2>3
  <2> QED BY <2>1, <2>2, <2>4, <2>5
<1>4. TypeOK'
  BY <1>1, <1>2, <1>3 DEF TypeOK
<1>5. Grows
  BY <1>1, <1>2, <1>3 DEF TypeOK, Grows
<1>6. \A c \in Callers : Known(c)'
  BY <1>1, <1>4, <1>5, OthersKeep
<1>7. Distinct' /\ Counted'
  BY <1>1, CountKeeps DEF IInv, Distinct, Reserved, Started
<1>8. Roles' /\ MergedOnce' /\ PushedWasValidated'
  BY <1>1, <1>4, <1>5, RolesKeep, MergesKeep, PushesKeep
<1> QED BY <1>4, <1>6, <1>7, <1>8 DEF IInv

\* The batch ends, or main moves.
LEMMA OutsideSteps ==
    ASSUME IInv, BatchEnds \/ MainMoves
    PROVE  IInv'
<1>1. /\ UNCHANGED <<head, remote, pr, merged, validated, roles, evidence, work>>
      /\ batch' \in BatchType /\ batch'.cycles = batch.cycles /\ moved' \in BOOLEAN
      /\ moved' = moved \/ moved'
  <2>1. batch \in BatchType /\ moved \in BOOLEAN
    BY DEF IInv, TypeOK
  <2>2. CASE BatchEnds
    BY <2>1, <2>2 DEF BatchEnds, gitHub, BatchType
  <2>3. CASE MainMoves
    BY <2>1, <2>3 DEF MainMoves, gitHub
  <2> QED BY <2>2, <2>3
<1>2. TypeOK'
  BY <1>1 DEF IInv, TypeOK
<1>3. Grows
  BY <1>1, NothingGrows DEF IInv
<1>4. \A c \in Callers : Known(c)'
  BY <1>1, <1>2, <1>3, OthersKeep
<1>5. Distinct' /\ Counted'
  BY <1>1, CountKeeps DEF IInv, Distinct, Reserved, Started
<1>6. Roles' /\ MergedOnce' /\ PushedWasValidated'
  BY <1>1, <1>2, <1>3, RolesKeep, MergesKeep, PushesKeep
<1> QED BY <1>2, <1>4, <1>5, <1>6 DEF IInv

\* Every step keeps the invariant.
LEMMA NextIInv == IInv /\ [Next]_vars => IInv'
<1> SUFFICES ASSUME IInv, [Next]_vars PROVE IInv'
  OBVIOUS
<1>1. CASE UNCHANGED vars
  BY <1>1 DEF vars, gitHub, IInv, TypeOK, Known, Captured, Refers, Earned, Owns, Distinct, Roles,
              Counted, Started, Reserved, MergedOnce, PushedWasValidated, Recorded, TaskOf
<1>2. ASSUME NEW c \in Callers, NEW t \in Tasks, Validate(c, t) PROVE IInv'
  BY <1>2, ValidateStep
<1>3. ASSUME NEW c \in Callers, Draft(c) \/ Update(c) \/ Review(c) PROVE IInv'
  <2>1. 0 \in 0..Len(roles)
    BY DEF IInv, TypeOK
  <2> QED BY <1>3, <2>1, CaptureStep DEF Draft, Update, Review
<1>4. ASSUME NEW c \in Callers, NEW ref \in 1..Len(roles), Correct(c, ref) \/ Merge(c, ref) PROVE IInv'
  <2>1. ref \in 0..Len(roles)
    BY DEF IInv, TypeOK
  <2> QED BY <1>4, <2>1, CaptureStep DEF Correct, Merge
<1>5. ASSUME NEW c \in Callers,
             \/ Look(c) \/ List(c) \/ VerifyFindings(c) \/ Wait(c) \/ VerifyApproval(c)
             \/ FirstGate(c) \/ SecondGate(c) \/ Reverify(c) \/ FinalGate(c)
      PROVE  IInv'
  BY <1>5, CheckSteps
<1>6. ASSUME NEW c \in Callers,
             \/ Push(c) \/ Create(c) \/ MarkReady(c) \/ MergePullRequest(c) \/ Throw(c) \/ Crash(c)
      PROVE  IInv'
  BY <1>6, PushStep, CreateStep, MarkReadyStep, MergeStep, ThrowSteps
<1>7. ASSUME NEW c \in Callers, Reserve(c) \/ Enqueue(c) \/ Start(c) \/ Record(c) PROVE IInv'
  BY <1>7, ReserveStep, EnqueueStep, StartStep, RecordStep
<1>8. ASSUME NEW i \in 1..Len(roles), Poll(i) \/ Commit(i) PROVE IInv'
  BY <1>8, PollStep, CommitStep
<1>9. ASSUME NEW i \in 1..Len(roles), NEW v \in Verdicts, TurnEnds(i, v) PROVE IInv'
  BY <1>9, TurnEndsStep
<1>10. CASE BatchEnds \/ MainMoves
  BY <1>10, OutsideSteps
<1> QED BY <1>1, <1>2, <1>3, <1>4, <1>5, <1>6, <1>7, <1>8, <1>9, <1>10 DEF Next

-----------------------------------------------------------------------------
(* The theorems. *)

\* What callers verified stays true while they wait and others review, correct,
\* push and merge (publishing-policy.mjs, review-runner.mjs, validation.mjs).
THEOREM Invariance == Spec => []IInv
<1> QED BY InitIInv, NextIInv, PTL DEF Spec

\* Every variable keeps its type: cycles stay within MVP_CONFIG.max_correction_cycles
\* (review-runner.mjs:592-633).
THEOREM TypeCorrect == Spec => []TypeOK
<1>1. IInv => TypeOK
  BY DEF IInv
<1> QED BY <1>1, Invariance, PTL

\* What is on GitHub was validated: a push is of the head captured after the
\* validation commands passed (publishing-policy.mjs:47-117, github.mjs:80-108).
THEOREM PushesValidated == Spec => []PushedWasValidated
<1>1. IInv => PushedWasValidated
  BY DEF IInv
<1> QED BY <1>1, Invariance, PTL

\* What is merged is what a recorded review approved, and at most one task of a
\* base is merged (publishing-policy.mjs:259-303, review-runner.mjs:481-555).
THEOREM MergesReviewed == Spec => []MergedAsReviewed
<1>1. IInv => MergedAsReviewed
  <2> SUFFICES ASSUME IInv PROVE MergedAsReviewed
    OBVIOUS
  <2> DEFINE M == {t \in Tasks : merged[t] # 0}
  <2>1. \A t, u \in M : t = u
    BY DEF IInv, MergedOnce
  <2>2. Cardinality(M) <= 1
    <3>1. CASE M = {}
      BY <3>1, FS_EmptySet
    <3>2. CASE M # {}
      <4>1. PICK t : M = {t}
        BY <2>1, <3>2
      <4> QED BY <4>1, FS_Singleton
    <3> QED BY <3>1, <3>2
  <2> QED BY <2>2 DEF IInv, MergedOnce, MergedAsReviewed
<1> QED BY <1>1, Invariance, PTL

\* Corrections started are counted and each answers a recorded request for
\* changes (review-runner.mjs:592-633).
THEOREM CorrectionsAlwaysEarned == Spec => []CorrectionsEarned
<1>1. IInv => CorrectionsEarned
  <2> SUFFICES ASSUME IInv PROVE CorrectionsEarned
    OBVIOUS
  <2>1. Cardinality(Started) <= batch.cycles
    <3>1. Cardinality(Started) \in Nat /\ Cardinality(Reserved) \in Nat
      BY StartedFinite, FS_CardinalityType DEF IInv, Counted
    <3>2. batch.cycles \in Int
      BY DEF IInv, TypeOK, BatchType
    <3> QED BY <3>1, <3>2 DEF IInv, Counted
  <2> QED BY <2>1 DEF IInv, Roles, Started, CorrectionsEarned
<1> QED BY <1>1, Invariance, PTL
=============================================================================
