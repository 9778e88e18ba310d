--------------------------- MODULE JournalProofs ----------------------------
(***************************************************************************)
(* Proofs about ControllerJournal, for any processes, authorizations and   *)
(* number of grants.                                                       *)
(*                                                                         *)
(* Two things carry them.  Only the holder of the mutex touches journal,   *)
(* state file and grant, so what a call found stays true until it lets go; *)
(* and grants are numbered as they are installed, so that a grant just     *)
(* installed is named by no rotation in the journal until its own is.      *)
(***************************************************************************)
EXTENDS ControllerJournal, TLAPS

\* The places in a call at which it holds the mutex.
Held == {"inside", "archived", "installed", "written", "failed", "releasing"}

Rotated(h) == Recovered.used[h].act = "rotated"

\* The journal is numbered from 1, the snapshot of each event expects the next,
\* and the state file is the empty state or one of them.
Numbered ==
    /\ \A i \in 1..Len(journal) :
          journal[i].sequence = i /\ journal[i].snapshot.next = i + 1
    /\ file = Empty \/ \E i \in 1..Len(journal) : file = journal[i].snapshot
    /\ journal = <<>> => file = Empty

\* Grants were installed under rising numbers, rotations name them.
Granted ==
    /\ canonical \in 0..issued
    /\ canonical = NoGrant => issued = 0
    /\ \A h \in Humans : Rotated(h) =>
          /\ Recovered.used[h].old \in archive
          /\ Recovered.used[h].new \in archive \cup {canonical}
          /\ Recovered.used[h].new \in 1..issued

\* What a call knows of itself, and that the mutex is its own.
Calling(p) ==
    /\ pc[p] \in Held => mutex = p
    /\ pc[p] # "idle" => op[p].kind # "none" /\ op[p].human \in Humans
    /\ op[p].kind \in {"enable", "dispatch"} => op[p].grant \in Grants
    /\ pc[p] \in {"waiting", "inside"} /\ op[p].kind = "rotate" => op[p].grant = NoGrant
    /\ pc[p] \in {"archived", "installed", "failed"} => op[p].kind = "rotate"

\* No rotation in the journal names the canonical grant as its new one.
Unrecorded == \A h \in Humans : Rotated(h) => Recovered.used[h].new # canonical

\* What a rotation that archived its grant may rely on.
Rotating(p) ==
    /\ pc[p] \in {"archived", "installed", "failed"} =>
          op[p].grant \in Grants /\ op[p].grant \in archive
    /\ pc[p] = "archived" => canonical = op[p].grant /\ issued < MaxGrants
    /\ pc[p] \in {"archived", "installed", "failed"} => op[p].grant \in 1..issued
    /\ pc[p] = "installed" => canonical # NoGrant /\ Unrecorded
    /\ pc[p] = "failed" => canonical # NoGrant /\ (RotationRecorded(p) \/ Unrecorded)
    /\ pc[p] = "written" /\ op[p].kind = "rotate" =>
          op[p].grant \in 1..issued /\ op[p].grant \in archive /\ RotationRecorded(p)
    /\ pc[p] = "releasing" /\ op[p].kind = "rotate" /\ op[p].grant # NoGrant =>
          canonical = op[p].grant \/ RotationRecorded(p)

\* The inductive invariant.
IInv ==
    /\ TypeOK
    /\ Numbered
    /\ Granted
    /\ \A p \in Procs : Calling(p) /\ Rotating(p)

-----------------------------------------------------------------------------
(* The journal. *)

\* The state a transaction builds on has its type.
LEMMA RecoveredType == TypeOK => Recovered \in SnapshotType
<1> SUFFICES ASSUME TypeOK PROVE Recovered \in SnapshotType
  OBVIOUS
<1>1. CASE journal = <<>>
  BY <1>1 DEF TypeOK, Recovered
<1>2. CASE journal # <<>>
  <2>1. Len(journal) \in 1..Len(journal)
    BY <1>2 DEF TypeOK
  <2>2. journal[Len(journal)] \in [sequence : Nat \ {0}, snapshot : SnapshotType]
    <3> DEFINE R == [sequence : Nat \ {0}, snapshot : SnapshotType]
    <3>1. journal \in Seq(R)
      BY DEF TypeOK
    <3> HIDE DEF R
    <3>2. journal[Len(journal)] \in R
      BY <2>1, <3>1
    <3> QED BY <3>2 DEF R
  <2> QED BY <1>2, <2>2 DEF Recovered
<1> QED BY <1>1, <1>2

\* The next event has the number that follows the last one's.
LEMMA NextNumber == TypeOK /\ Numbered => Recovered.next = Len(journal) + 1
<1> SUFFICES ASSUME TypeOK, Numbered PROVE Recovered.next = Len(journal) + 1
  OBVIOUS
<1>1. CASE journal = <<>>
  BY <1>1 DEF Numbered, Recovered, Empty
<1>2. CASE journal # <<>>
  <2>1. Len(journal) \in 1..Len(journal)
    BY <1>2 DEF TypeOK
  <2> QED BY <1>2, <2>1 DEF Numbered, Recovered
<1> QED BY <1>1, <1>2

\* Steps that append nothing leave the state recovered as it was.
LEMMA NothingAppended ==
    ASSUME UNCHANGED journal, file' = file \/ file' = Recovered
    PROVE  Recovered' = Recovered
  BY DEF Recovered

\* What a transaction makes of the state recovered: a snapshot of its type.
LEMMA ChangedType ==
    ASSUME IInv, NEW p \in Procs, pc[p] # "idle"
    PROVE  Changed(p, Recovered) \in SnapshotType
<1> DEFINE s == Recovered
<1>1. s \in SnapshotType
  BY RecoveredType DEF IInv
<1>2. op[p].human \in Humans /\ op[p].grant \in Grants \cup {NoGrant} /\ canonical \in Grants \cup {NoGrant}
  BY DEF IInv, Calling, TypeOK
<1>3. ASSUME NEW act \in Acts, NEW old \in Grants \cup {NoGrant}, NEW new \in Grants \cup {NoGrant}
      PROVE  Used(s, op[p].human, act, old, new)
                \in [Humans -> [act : Acts, old : Grants \cup {NoGrant}, new : Grants \cup {NoGrant}]]
  BY <1>1, <1>2 DEF Used, SnapshotType
<1>4. s.grant \in Grants \cup {NoGrant} /\ NoGrant \in Grants \cup {NoGrant}
  BY <1>1 DEF SnapshotType
<1>5. /\ Used(s, op[p].human, "enabled", op[p].grant, NoGrant) \in [Humans -> [act : Acts, old : Grants \cup {NoGrant}, new : Grants \cup {NoGrant}]]
      /\ Used(s, op[p].human, "retired", s.grant, NoGrant) \in [Humans -> [act : Acts, old : Grants \cup {NoGrant}, new : Grants \cup {NoGrant}]]
      /\ Used(s, op[p].human, "rotated", op[p].grant, canonical) \in [Humans -> [act : Acts, old : Grants \cup {NoGrant}, new : Grants \cup {NoGrant}]]
  BY <1>2, <1>3, <1>4 DEF Acts
<1> HIDE DEF s
<1>6. Changed(p, s) \in SnapshotType
  BY <1>1, <1>2, <1>5 DEF Changed, SnapshotType
<1> QED BY <1>6 DEF s

-----------------------------------------------------------------------------
(* The inductive invariant. *)

\* Nothing is written or installed at the start.
LEMMA InitIInv == Init => IInv
<1> SUFFICES ASSUME Init PROVE IInv
  OBVIOUS
<1> USE JournalAssumption DEF Grants, NoGrant
<1>1. Empty \in SnapshotType
  BY DEF Empty, Unused, Acts, SnapshotType
<1>2. TypeOK
  <2>1. journal \in Seq([sequence : Nat \ {0}, snapshot : SnapshotType])
    BY DEF Init
  <2>2. NoCall \in [kind : {"none", "enable", "dispatch", "retire", "rotate"},
                    human : Humans \cup {NoHuman}, grant : Grants \cup {NoGrant},
                    late : SUBSET Grants]
    BY DEF NoCall
  <2>3. pc \in [Procs -> {"idle", "waiting", "inside", "archived", "installed", "written",
                          "failed", "releasing"}]
    BY DEF Init
  <2>4. op \in [Procs -> [kind : {"none", "enable", "dispatch", "retire", "rotate"},
                          human : Humans \cup {NoHuman}, grant : Grants \cup {NoGrant},
                          late : SUBSET Grants]]
    BY <2>2 DEF Init
  <2>5. /\ mutex \in Procs \cup {NoProc, Orphan} /\ torn \in BOOLEAN /\ file \in SnapshotType
        /\ canonical \in Grants \cup {NoGrant} /\ archive \subseteq Grants /\ expired \subseteq Grants
    BY <1>1 DEF Init
  <2>6. issued \in 0..MaxGrants
    BY DEF Init
  <2> QED BY <2>1, <2>3, <2>4, <2>5, <2>6 DEF TypeOK
<1>3. Recovered = Empty
  BY DEF Init, Recovered
<1>4. Numbered
  BY DEF Init, Numbered
<1>5. Granted
  BY <1>3 DEF Init, Granted, Rotated, Empty, Unused
<1>6. ASSUME NEW p \in Procs PROVE Calling(p) /\ Rotating(p)
  BY DEF Init, NoCall, Calling, Rotating, Held
<1> QED BY <1>2, <1>4, <1>5, <1>6 DEF IInv

\* What steps keep that touch neither the journal, nor the state file, nor a grant.
LEMMA Untouched ==
    ASSUME IInv, UNCHANGED <<stateVars, canonical, archive, issued>>
    PROVE  /\ Numbered' /\ Granted' /\ Recovered' = Recovered /\ Replays' = Replays
           /\ Unrecorded' = Unrecorded
<1>1. Recovered' = Recovered /\ Replays' = Replays
  BY DEF stateVars, Recovered, Replays
<1>2. Numbered'
  BY DEF IInv, stateVars, Numbered
<1>3. Granted'
  BY <1>1 DEF IInv, Granted, Rotated
<1>4. Unrecorded' = Unrecorded
  BY <1>1 DEF Unrecorded, Rotated
<1> QED BY <1>1, <1>2, <1>3, <1>4

\* What a call may rely on is not disturbed by steps of others that touch
\* neither the journal, nor the state file, nor a grant.
LEMMA OthersKeep ==
    ASSUME IInv, UNCHANGED <<stateVars, canonical, archive, issued>>,
           NEW q \in Procs, pc'[q] = pc[q], op'[q] = op[q], mutex' = mutex \/ mutex # q
    PROVE  Calling(q)' /\ Rotating(q)'
<1>1. Calling(q) /\ Rotating(q)
  BY DEF IInv
<1>2. Calling(q)'
  BY <1>1 DEF Calling
<1>3. RotationRecorded(q)' = RotationRecorded(q)
  BY Untouched DEF RotationRecorded
<1>4. Rotating(q)'
  BY <1>1, <1>3, Untouched DEF Rotating
<1> QED BY <1>2, <1>4

\* A call begins.
LEMMA CallStep ==
    ASSUME IInv, NEW p \in Procs, NEW h \in Humans,
           NEW kind \in {"enable", "dispatch", "retire", "rotate"}, Call(p, kind, h)
    PROVE  IInv'
<1>1. UNCHANGED <<stateVars, canonical, archive, issued>>
  BY DEF Call, grantVars
<1>2. TypeOK'
  BY DEF Call, IInv, TypeOK, stateVars, grantVars, Goto, NoGrant
<1>3. Calling(p)' /\ Rotating(p)'
  BY DEF Call, IInv, TypeOK, Calling, Rotating, Held, Goto, grantVars
<1>4. ASSUME NEW q \in Procs, q # p PROVE Calling(q)' /\ Rotating(q)'
  BY <1>1, <1>4, OthersKeep DEF Call, Goto, IInv, TypeOK
<1> QED BY <1>1, <1>2, <1>3, <1>4, Untouched DEF IInv

\* Taking the mutex, giving it up, waiting in vain, and dying.
LEMMA MutexSteps ==
    ASSUME IInv, NEW p \in Procs, Acquire(p) \/ TimeOut(p) \/ Release(p) \/ Crash(p)
    PROVE  IInv'
<1> USE DEF Goto, End, NoCall, grantVars
<1>1. UNCHANGED <<stateVars, canonical, archive, issued>>
  BY DEF Acquire, TimeOut, Release, Crash
<1>2. TypeOK'
  BY DEF Acquire, TimeOut, Release, Crash, IInv, TypeOK, stateVars
<1>3. Calling(p)' /\ Rotating(p)'
  <2>1. Calling(p) /\ Rotating(p)
    BY DEF IInv
  <2>2. CASE Acquire(p)
    BY <2>1, <2>2 DEF Acquire, IInv, TypeOK, Calling, Rotating, Held
  <2>3. CASE TimeOut(p) \/ Release(p) \/ Crash(p)
    BY <2>1, <2>3 DEF TimeOut, Release, Crash, IInv, TypeOK, Calling, Rotating, Held
  <2> QED BY <2>2, <2>3
<1>4. ASSUME NEW q \in Procs, q # p PROVE Calling(q)' /\ Rotating(q)'
  <2>1. mutex' = mutex \/ mutex # q
    BY <1>4, JournalAssumption DEF Acquire, TimeOut, Release, Crash
  <2>2. pc'[q] = pc[q] /\ op'[q] = op[q]
    BY <1>4 DEF Acquire, TimeOut, Release, Crash, IInv, TypeOK
  <2> QED BY <1>1, <2>1, <2>2, OthersKeep
<1> QED BY <1>1, <1>2, <1>3, <1>4, Untouched DEF IInv

\* An exception, before or after the event was appended.
LEMMA FailStep ==
    ASSUME IInv, NEW p \in Procs, Fail(p)
    PROVE  IInv'
<1>1. UNCHANGED <<stateVars, canonical, archive, issued>> /\ op' = op /\ mutex' = mutex
  BY DEF Fail, grantVars
<1>2. TypeOK'
  BY <1>1 DEF Fail, IInv, TypeOK, stateVars, grantVars, Goto
<1>3. Calling(p)' /\ Rotating(p)'
  <2>1. Calling(p) /\ Rotating(p) /\ op[p].grant \in Grants \cup {NoGrant}
    BY DEF IInv, TypeOK
  <2>2. Calling(p)'
    BY <1>1, <2>1 DEF Fail, IInv, TypeOK, Calling, Held, Goto
  <2>3. RotationRecorded(p)' = RotationRecorded(p)
    BY <1>1, Untouched DEF RotationRecorded
  <2>4. Rotating(p)'
    BY <1>1, <2>1, <2>3, Untouched DEF Fail, IInv, TypeOK, Calling, Rotating, Goto, Granted, Grants, NoGrant
  <2> QED BY <2>2, <2>4
<1>4. ASSUME NEW q \in Procs, q # p PROVE Calling(q)' /\ Rotating(q)'
  BY <1>1, <1>4, OthersKeep DEF Fail, Goto, IInv, TypeOK
<1> QED BY <1>1, <1>2, <1>3, <1>4, Untouched DEF IInv

\* Time, and the removal of a mutex left by a dead process.
LEMMA WorldSteps == IInv /\ (Reclaim \/ Expire) => IInv'
<1> SUFFICES ASSUME IInv, Reclaim \/ Expire PROVE IInv'
  OBVIOUS
<1>1. UNCHANGED <<stateVars, canonical, archive, issued, pc, op>>
  BY DEF Reclaim, Expire, grantVars
<1>2. TypeOK'
  BY <1>1 DEF Reclaim, Expire, IInv, TypeOK, stateVars, grantVars, Grants, NoGrant
<1>3. ASSUME NEW q \in Procs PROVE Calling(q)' /\ Rotating(q)'
  BY <1>1, OthersKeep, JournalAssumption DEF Reclaim, Expire
<1> QED BY <1>1, <1>2, <1>3, Untouched DEF IInv

-----------------------------------------------------------------------------
(* The steps of the holder of the mutex. *)

\* Nobody else is inside.
LEMMA Alone ==
    ASSUME IInv, NEW p \in Procs, pc[p] \in Held, NEW q \in Procs, q # p
    PROVE  pc[q] \notin Held
  BY DEF IInv, Calling

\* So a step of the holder that leaves the others' calls alone, and the mutex,
\* disturbs nothing they rely on.
LEMMA OthersOutside ==
    ASSUME IInv, NEW p \in Procs, pc[p] \in Held, NEW q \in Procs, q # p,
           pc'[q] = pc[q], op'[q] = op[q], mutex' = mutex
    PROVE  Calling(q)' /\ Rotating(q)'
<1>1. Calling(q) /\ pc[q] \notin Held
  BY Alone DEF IInv
<1>2. Calling(q)'
  BY <1>1 DEF Calling
<1>3. Rotating(q)'
  BY <1>1 DEF Rotating, Held
<1> QED BY <1>2, <1>3

\* The state file is written, or the line is torn.
LEMMA WriteSteps ==
    ASSUME IInv, NEW p \in Procs, Save(p) \/ Tear(p)
    PROVE  IInv'
<1> USE DEF Goto
<1>1. UNCHANGED <<mutex, journal, grantVars, op>> /\ pc[p] \in Held
  BY DEF Save, Tear, Held
<1>2. Recovered' = Recovered
  <2>1. file' = file \/ file' = Recovered
    BY DEF Save, Tear
  <2> QED BY <1>1, <2>1, NothingAppended
<1>3. TypeOK'
  <2>1. file' \in SnapshotType /\ torn' \in BOOLEAN
    BY RecoveredType DEF Save, Tear, IInv, TypeOK
  <2>2. pc' \in [Procs -> {"idle", "waiting", "inside", "archived", "installed", "written",
                           "failed", "releasing"}]
    BY DEF Save, Tear, IInv, TypeOK
  <2> QED BY <1>1, <2>1, <2>2 DEF IInv, TypeOK, grantVars
<1>4. Numbered'
  <2>1. CASE journal = <<>>
    BY <1>1, <2>1 DEF IInv, Numbered, Save, Tear, Recovered
  <2>2. CASE journal # <<>>
    <3>1. Len(journal) \in 1..Len(journal)
      BY <2>2 DEF IInv, TypeOK
    <3> QED BY <1>1, <2>2, <3>1 DEF IInv, Numbered, Save, Tear, Recovered
  <2> QED BY <2>1, <2>2
<1>5. Granted'
  BY <1>1, <1>2 DEF IInv, Granted, Rotated, grantVars
<1>6. Calling(p)' /\ Rotating(p)'
  <2>1. Calling(p) /\ Rotating(p)
    BY DEF IInv
  <2>2. Unrecorded' = Unrecorded
    BY <1>1, <1>2 DEF Unrecorded, Rotated, grantVars
  <2>3. CASE Save(p)
    <3>1. RotationRecorded(p)' = RotationRecorded(p)
      BY <1>1, <1>2, <2>3 DEF Save, RotationRecorded, Replays, grantVars
    <3> QED BY <1>1, <2>1, <2>3, <3>1 DEF Save, IInv, TypeOK, Calling, Rotating, Held
  <2>4. CASE Tear(p)
    BY <1>1, <2>1, <2>2, <2>4 DEF Tear, IInv, TypeOK, Calling, Rotating, Held, grantVars
  <2> QED BY <2>3, <2>4 
<1>7. ASSUME NEW q \in Procs, q # p PROVE Calling(q)' /\ Rotating(q)'
  BY <1>1, <1>7, OthersOutside DEF Save, Tear, IInv, TypeOK
<1> QED BY <1>3, <1>4, <1>5, <1>6, <1>7 DEF IInv

\* The old grant is archived.
LEMMA ArchiveStep ==
    ASSUME IInv, NEW p \in Procs, Archive(p)
    PROVE  IInv'
<1> USE DEF Goto
<1>1. UNCHANGED <<mutex, stateVars, canonical, issued, expired>> /\ pc[p] \in Held
  BY DEF Archive, Held
<1>2. Recovered' = Recovered
  BY <1>1 DEF stateVars, Recovered
<1>3. canonical \in Grants /\ archive \subseteq archive'
  BY DEF Archive, IInv, TypeOK
<1>4. TypeOK'
  BY <1>1, <1>3 DEF Archive, IInv, TypeOK, stateVars
<1>5. Numbered'
  BY <1>1 DEF IInv, Numbered, stateVars
<1>6. Granted'
  BY <1>1, <1>2, <1>3 DEF IInv, Granted, Rotated
<1>7. Calling(p)' /\ Rotating(p)'
  <2>1. Calling(p) /\ canonical \in 1..issued
    BY <1>3 DEF IInv, Granted, TypeOK, Grants
  <2> QED BY <1>1, <1>3, <2>1 DEF Archive, IInv, TypeOK, Calling, Rotating, Held
<1>8. ASSUME NEW q \in Procs, q # p PROVE Calling(q)' /\ Rotating(q)'
  BY <1>1, <1>8, OthersOutside DEF Archive, IInv, TypeOK
<1> QED BY <1>4, <1>5, <1>6, <1>7, <1>8 DEF IInv

\* The new grant is installed: no rotation in the journal can name it yet.
LEMMA InstallStep ==
    ASSUME IInv, NEW p \in Procs, Install(p)
    PROVE  IInv'
<1> USE DEF Goto
<1>1. /\ UNCHANGED <<mutex, stateVars, archive, expired, op>> /\ pc[p] \in Held
      /\ canonical' = issued + 1 /\ issued' = issued + 1
  BY DEF Install, Held
<1>2. Recovered' = Recovered
  BY <1>1 DEF stateVars, Recovered
<1>3. issued \in Nat /\ issued < MaxGrants /\ MaxGrants \in Nat
      /\ canonical = op[p].grant /\ canonical \in archive /\ op[p].grant \in 1..issued
  BY JournalAssumption DEF Install, IInv, TypeOK, Rotating
<1>4. TypeOK'
  <2>1. issued' \in 0..MaxGrants /\ canonical' \in Grants \cup {NoGrant}
    BY <1>1, <1>3 DEF Grants
  <2> QED BY <1>1, <2>1 DEF Install, IInv, TypeOK, stateVars
<1>5. Numbered'
  BY <1>1 DEF IInv, Numbered, stateVars
<1>6. Granted'
  BY <1>1, <1>2, <1>3 DEF IInv, Granted, Rotated, NoGrant
<1>7. Calling(p)' /\ Rotating(p)'
  <2>1. Calling(p) /\ Rotating(p)
    BY DEF IInv
  <2>2. Unrecorded'
    BY <1>1, <1>2, <1>3 DEF IInv, Granted, Rotated, Unrecorded
  <2> QED BY <1>1, <1>3, <2>1, <2>2 DEF Install, IInv, TypeOK, Calling, Rotating, Held, NoGrant
<1>8. ASSUME NEW q \in Procs, q # p PROVE Calling(q)' /\ Rotating(q)'
  BY <1>1, <1>8, OthersOutside DEF Install, IInv, TypeOK
<1> QED BY <1>4, <1>5, <1>6, <1>7, <1>8 DEF IInv

\* A rotation that threw puts its old grant back only when the journal does not
\* name the new one.
LEMMA RollBackStep ==
    ASSUME IInv, NEW p \in Procs, RollBack(p)
    PROVE  IInv'
<1> USE DEF Goto
<1>1. UNCHANGED <<mutex, stateVars, archive, issued, expired, op>> /\ pc[p] \in Held
  BY DEF RollBack, Held
<1>2. Recovered' = Recovered /\ Replays' = Replays
  BY <1>1 DEF stateVars, Recovered, Replays
<1>3. op[p].grant \in Grants /\ op[p].grant \in archive /\ op[p].grant \in 1..issued
      /\ (RotationRecorded(p) \/ Unrecorded)
  BY DEF RollBack, IInv, Rotating
<1>4. TypeOK'
  BY <1>1, <1>3 DEF RollBack, IInv, TypeOK, stateVars
<1>5. Numbered'
  BY <1>1 DEF IInv, Numbered, stateVars
<1>6. Granted'
  <2>1. CASE RotationRecorded(p)
    BY <1>1, <1>2, <2>1 DEF RollBack, IInv, Granted, Rotated
  <2>2. CASE ~RotationRecorded(p)
    <3>1. canonical' = op[p].grant /\ Unrecorded
      BY <1>3, <2>2 DEF RollBack
    <3>2. issued \in Nat
      BY DEF IInv, TypeOK
    <3> QED BY <1>1, <1>2, <1>3, <3>1, <3>2 DEF IInv, Granted, Rotated, Unrecorded, NoGrant
  <2> QED BY <2>1, <2>2
<1>7. Calling(p)' /\ Rotating(p)'
  <2>1. Calling(p)
    BY DEF IInv
  <2>2. canonical' = op'[p].grant \/ RotationRecorded(p)'
    BY <1>1, <1>2 DEF RollBack, RotationRecorded
  <2> QED BY <1>1, <2>1, <2>2 DEF RollBack, IInv, TypeOK, Calling, Rotating, Held
<1>8. ASSUME NEW q \in Procs, q # p PROVE Calling(q)' /\ Rotating(q)'
  BY <1>1, <1>8, OthersOutside DEF RollBack, IInv, TypeOK
<1> QED BY <1>4, <1>5, <1>6, <1>7, <1>8 DEF IInv

\* The first grant: nothing was rotated before it.
LEMMA InstallFirstStep == IInv /\ InstallFirst => IInv'
<1> SUFFICES ASSUME IInv, InstallFirst PROVE IInv'
  OBVIOUS
<1>1. UNCHANGED <<mutex, stateVars, archive, expired, pc, op>> /\ canonical' = 1 /\ issued' = 1
  BY DEF InstallFirst, IInv, Granted
<1>2. issued = 0 /\ canonical = NoGrant
  BY DEF InstallFirst, IInv, Granted
<1>3. Recovered' = Recovered /\ Replays' = Replays
  BY <1>1 DEF stateVars, Recovered, Replays
<1>4. TypeOK'
  BY <1>1, JournalAssumption DEF IInv, TypeOK, stateVars, Grants
<1>5. Numbered'
  BY <1>1 DEF IInv, Numbered, stateVars
<1>6. \A h \in Humans : ~Rotated(h)
  BY <1>2 DEF IInv, Granted
<1>7. Granted'
  BY <1>1, <1>3, <1>6 DEF Granted, Rotated, NoGrant
<1>8. ASSUME NEW q \in Procs PROVE Calling(q)' /\ Rotating(q)'
  <2>1. Calling(q) /\ Rotating(q)
    BY DEF IInv
  <2>2. ~RotationRecorded(q) \/ op[q].human \notin Humans
    BY <1>6 DEF RotationRecorded, Rotated
  <2>3. pc[q] \notin {"archived", "installed", "failed"}
    BY <1>2, <2>1 DEF Rotating
  <2>4. ~(pc[q] = "written" /\ op[q].kind = "rotate")
    BY <1>2, <2>1 DEF Rotating
  <2>5. ~(pc[q] = "releasing" /\ op[q].kind = "rotate" /\ op[q].grant # NoGrant)
    BY <1>2, <2>1, <2>2 DEF Rotating, Calling
  <2>6. Calling(q)'
    BY <1>1, <2>1 DEF Calling
  <2> QED BY <1>1, <2>3, <2>4, <2>5, <2>6 DEF Rotating
<1> QED BY <1>4, <1>5, <1>7, <1>8 DEF IInv

-----------------------------------------------------------------------------
(* The transaction. *)

\* The event of a transaction: the act is done by p under its authorization, and
\* the recovered state is what it makes of the one before.
LEMMA Committed ==
    ASSUME IInv, NEW p \in Procs, Commit(p)
    PROVE  /\ journal' = Append(journal, [sequence |-> Len(journal) + 1, snapshot |-> Recovered'])
           /\ Recovered' = [Changed(p, Recovered) EXCEPT !.next = Len(journal) + 2]
           /\ Recovered' \in SnapshotType
<1> DEFINE n == Len(journal) + 1
           e == [Changed(p, Recovered) EXCEPT !.next = n + 1]
<1>1. n \in Nat \ {0} /\ Recovered.next = n
  BY NextNumber DEF IInv, TypeOK
<1>2. Changed(p, Recovered) \in SnapshotType
  BY ChangedType DEF Commit
<1>3. e \in SnapshotType
  BY <1>1, <1>2 DEF SnapshotType
<1>4. journal' = Append(journal, [sequence |-> n, snapshot |-> e])
  BY <1>1 DEF Commit, Append1
<1>5. Recovered' = e
  <2> HIDE DEF e
  <2> DEFINE R == [sequence : Nat \ {0}, snapshot : SnapshotType]
  <2>1. journal \in Seq(R)
    BY DEF IInv, TypeOK
  <2> HIDE DEF R
  <2>2. journal' # <<>> /\ Len(journal') = n /\ journal'[n] = [sequence |-> n, snapshot |-> e]
    BY <1>4, <2>1
  <2> QED BY <2>2 DEF Recovered
<1> QED BY <1>3, <1>4, <1>5

\* What the event says of the authorizations: that of p is used as it asked, the
\* others are as they were.
LEMMA UsedOnce ==
    ASSUME IInv, NEW p \in Procs, Commit(p), NEW h \in Humans
    PROVE  /\ h # op[p].human \/ op[p].kind = "dispatch" => Recovered'.used[h] = Recovered.used[h]
           /\ h = op[p].human /\ op[p].kind = "rotate" =>
                 Recovered'.used[h] = [act |-> "rotated", old |-> op[p].grant, new |-> canonical]
           /\ h = op[p].human /\ op[p].kind \in {"enable", "retire"} =>
                 Recovered'.used[h].act # "rotated"
<1> DEFINE s == Recovered
<1>1. s \in SnapshotType /\ Changed(p, s) \in SnapshotType
  BY RecoveredType, ChangedType DEF Commit, IInv
<1>2. Recovered'.used = Changed(p, s).used
  BY <1>1, Committed DEF SnapshotType
<1>3. \E old, new : Changed(p, s).used =
         CASE op[p].kind = "enable"   -> Used(s, op[p].human, "enabled", old, new)
           [] op[p].kind = "dispatch" -> s.used
           [] op[p].kind = "retire"   -> Used(s, op[p].human, "retired", old, new)
           [] OTHER                   -> Used(s, op[p].human, "rotated", op[p].grant, canonical)
  <2> HIDE DEF s
  <2>1. CASE op[p].kind = "enable"
    BY <1>1, <2>1 DEF Changed, SnapshotType
  <2>2. CASE op[p].kind = "dispatch"
    BY <1>1, <2>2 DEF Changed, SnapshotType
  <2>3. CASE op[p].kind = "retire"
    BY <1>1, <2>3 DEF Changed, SnapshotType
  <2>4. CASE op[p].kind \notin {"enable", "dispatch", "retire"}
    BY <1>1, <2>4 DEF Changed, SnapshotType
  <2> QED BY <2>1, <2>2, <2>3, <2>4
<1>4. DOMAIN s.used = Humans
  BY <1>1 DEF SnapshotType
<1> QED BY <1>2, <1>3, <1>4 DEF Used

\* A transaction: the journal goes on, and a rotation is recorded as it happened.
LEMMA CommitStep ==
    ASSUME IInv, NEW p \in Procs, Commit(p)
    PROVE  IInv'
<1> DEFINE n == Len(journal) + 1
           R == [sequence : Nat \ {0}, snapshot : SnapshotType]
           line == [sequence |-> n, snapshot |-> Recovered']
<1>1. /\ UNCHANGED <<mutex, torn, file, grantVars>> /\ pc[p] \in Held /\ ~torn
      /\ pc' = [pc EXCEPT ![p] = "written"] /\ op' = [op EXCEPT ![p].late = {}]
      /\ op[p].kind # "none" /\ op[p].human \in Humans
  BY DEF Commit, Held, Goto, Replays, IInv, Calling
<1>2. /\ journal' = Append(journal, line)
      /\ Recovered' = [Changed(p, Recovered) EXCEPT !.next = n + 1]
      /\ line \in R
  <2>1. Len(journal) \in Nat
    BY DEF IInv, TypeOK
  <2> QED BY <2>1, Committed
<1>3. journal \in Seq(R) /\ n \in Nat
  BY DEF IInv, TypeOK
<1>4. Recovered'.next = n + 1
  BY <1>2, ChangedType DEF SnapshotType, Commit
<1> HIDE DEF R
<1>5. journal' \in Seq(R) /\ Len(journal') = n /\ journal'[n] = line
      /\ \A i \in 1..Len(journal) : journal'[i] = journal[i]
  BY <1>2, <1>3
<1>6. TypeOK'
  <2>1. journal' \in Seq([sequence : Nat \ {0}, snapshot : SnapshotType])
    BY <1>5 DEF R
  <2>2. op' \in [Procs -> [kind : {"none", "enable", "dispatch", "retire", "rotate"},
                           human : Humans \cup {NoHuman}, grant : Grants \cup {NoGrant},
                           late : SUBSET Grants]]
    BY <1>1 DEF IInv, TypeOK
  <2>3. pc' \in [Procs -> {"idle", "waiting", "inside", "archived", "installed", "written",
                           "failed", "releasing"}]
    BY <1>1 DEF IInv, TypeOK
  <2> QED BY <1>1, <2>1, <2>2, <2>3 DEF IInv, TypeOK, grantVars
<1>7. \A i \in 1..Len(journal') :
         journal'[i].sequence = i /\ journal'[i].snapshot.next = i + 1
  <2>1. ASSUME NEW i \in 1..Len(journal)
        PROVE  journal'[i].sequence = i /\ journal'[i].snapshot.next = i + 1
    BY <1>5 DEF IInv, Numbered
  <2>2. line.sequence = n /\ line.snapshot.next = n + 1
    BY <1>4
  <2>3. \A i \in 1..n : i \in 1..Len(journal) \/ i = n
    BY <1>3
  <2> QED BY <1>5, <2>1, <2>2, <2>3
<1>8. Numbered'
  <2>1. file = Empty \/ \E i \in 1..Len(journal') : file = journal'[i].snapshot
    <3>1. 1..Len(journal) \subseteq 1..Len(journal')
      BY <1>3, <1>5
    <3> QED BY <1>5, <3>1 DEF IInv, Numbered
  <2>2. journal' # <<>>
    BY <1>3, <1>5
  <2> QED BY <1>1, <1>7, <2>1, <2>2 DEF Numbered
<1>9. Replays'
  BY <1>1, <1>7 DEF Replays
<1>10. op[p].kind = "rotate" => pc[p] = "installed" /\ canonical # NoGrant
          /\ op[p].grant \in archive /\ op[p].grant \in 1..issued
  BY DEF Commit, IInv, Rotating
<1>11. \A h \in Humans :
          /\ h # op[p].human \/ op[p].kind = "dispatch" => Recovered'.used[h] = Recovered.used[h]
          /\ h = op[p].human /\ op[p].kind = "rotate" =>
                Recovered'.used[h] = [act |-> "rotated", old |-> op[p].grant, new |-> canonical]
          /\ h = op[p].human /\ op[p].kind \in {"enable", "retire"} =>
                Recovered'.used[h].act # "rotated"
  BY UsedOnce
<1>12. Granted'
  <2>1. canonical \in 0..issued /\ (canonical = NoGrant => issued = 0) /\ UNCHANGED <<canonical, issued, archive>>
    BY <1>1 DEF IInv, Granted, grantVars
  <2>2. issued \in Nat
    BY DEF IInv, TypeOK
  <2>3. ASSUME NEW h \in Humans, Recovered'.used[h].act = "rotated"
        PROVE  /\ Recovered'.used[h].old \in archive
               /\ Recovered'.used[h].new \in archive \cup {canonical}
               /\ Recovered'.used[h].new \in 1..issued
    <3>1. Rotated(h) => /\ Recovered.used[h].old \in archive
                        /\ Recovered.used[h].new \in archive \cup {canonical}
                        /\ Recovered.used[h].new \in 1..issued
      BY DEF IInv, Granted
    <3>2. CASE h = op[p].human /\ op[p].kind = "rotate"
      <4>1. canonical \in 1..issued
        BY <1>10, <2>1, <2>2, <3>2 DEF NoGrant
      <4> QED BY <1>10, <1>11, <3>2, <4>1
    <3>3. CASE h # op[p].human \/ op[p].kind = "dispatch"
      BY <1>11, <2>3, <3>1, <3>3 DEF Rotated
    <3>4. op[p].kind \in {"none", "enable", "dispatch", "retire", "rotate"}
      BY DEF IInv, TypeOK
    <3> QED BY <1>1, <1>11, <2>3, <3>2, <3>3, <3>4
  <2> QED BY <2>1, <2>3 DEF Granted, Rotated
<1>13. Calling(p)' /\ Rotating(p)'
  <2>1. /\ op'[p].kind = op[p].kind /\ op'[p].human = op[p].human /\ op'[p].grant = op[p].grant
        /\ pc'[p] = "written"
    BY <1>1 DEF IInv, TypeOK
  <2>2. Calling(p)
    BY DEF IInv
  <2>3. op[p].kind = "rotate" => RotationRecorded(p)'
    BY <1>1, <1>9, <1>11, <2>1 DEF RotationRecorded, grantVars
  <2> QED BY <1>1, <1>10, <2>1, <2>2, <2>3 DEF Calling, Rotating, Held, grantVars
<1>14. ASSUME NEW q \in Procs, q # p PROVE Calling(q)' /\ Rotating(q)'
  BY <1>1, <1>14, OthersOutside DEF IInv, TypeOK
<1> QED BY <1>6, <1>8, <1>12, <1>13, <1>14 DEF IInv

\* Every step keeps the invariant.
LEMMA NextIInv == IInv /\ [Next]_vars => IInv'
<1> SUFFICES ASSUME IInv, [Next]_vars PROVE IInv'
  OBVIOUS
<1>1. ASSUME NEW p \in Procs, NEW h \in Humans, NEW kind \in {"enable", "dispatch", "retire", "rotate"},
             Call(p, kind, h)
      PROVE  IInv'
  BY <1>1, CallStep
<1>2. ASSUME NEW p \in Procs, Step(p) \/ Crash(p)
      PROVE  IInv'
  BY <1>2, MutexSteps, FailStep, RollBackStep, WriteSteps, InstallStep, ArchiveStep, CommitStep DEF Step
<1>3. CASE Reclaim \/ Expire
  BY <1>3, WorldSteps
<1>4. CASE InstallFirst
  BY <1>4, InstallFirstStep
<1>5. CASE UNCHANGED vars
  <2>1. UNCHANGED <<stateVars, canonical, archive, issued>> /\ UNCHANGED <<pc, op, mutex>>
    BY <1>5 DEF vars, grantVars
  <2>2. TypeOK'
    BY <1>5 DEF IInv, TypeOK, vars, stateVars, grantVars
  <2>3. ASSUME NEW q \in Procs PROVE Calling(q)' /\ Rotating(q)'
    BY <2>1, OthersKeep
  <2> QED BY <2>1, <2>2, <2>3, Untouched DEF IInv
<1> QED BY <1>1, <1>2, <1>3, <1>4, <1>5 DEF Next

\* Whatever dies, fails or waits, the inductive invariant holds
\* (withStateMutexInternal, mutateControllerStateUnderMutex, rotateExpiredSyntheticPilotGrant).
THEOREM Invariance == Spec => []IInv
  BY InitIInv, NextIInv, PTL DEF Spec

-----------------------------------------------------------------------------
(* What follows. *)

\* Every variable of the journal, the grants and the calls keeps its type.
THEOREM TypeCorrect == Spec => []TypeOK
<1>1. IInv => TypeOK
  BY DEF IInv
<1> QED BY <1>1, Invariance, PTL

\* Unless a line is torn, replayControllerJournal accepts the journal, and the
\* state file is never ahead of it.
THEOREM JournalAlwaysReplays == Spec => []JournalReplays
<1>1. IInv => JournalReplays
  BY DEF IInv, Numbered, Replays, JournalReplays
<1> QED BY <1>1, Invariance, PTL

\* A rotation the journal names keeps its old grant in the archive and its new
\* one in force or in the archive (rotateExpiredSyntheticPilotGrant).
THEOREM GrantsAlwaysKept == Spec => []RotatedGrantsKept
<1>1. IInv => RotatedGrantsKept
  BY DEF IInv, Granted, Rotated, RotatedGrantsKept
<1> QED BY <1>1, Invariance, PTL

\* A rotation ends with the grant it found or with the one the journal says it
\* installed, whichever of its operations threw.
THEOREM RotationsAlwaysWhole == Spec => []RotationsWhole
<1>1. IInv => RotationsWhole
  BY DEF IInv, Rotating, RotationsWhole
<1> QED BY <1>1, Invariance, PTL

-----------------------------------------------------------------------------
(* Refinement. *)

\* What PilotLedger sees.
Ledger == [status |-> Recovered.status, grant |-> Recovered.grant, used |-> Recovered.used]

\* A transaction is the act of the ledger it stands for.
LEMMA CommitActs == ASSUME IInv, NEW p \in Procs, Commit(p) PROVE PL!Next
<1> DEFINE s == Recovered
<1>1. s \in SnapshotType /\ Changed(p, s) \in SnapshotType
  BY RecoveredType, ChangedType DEF Commit, IInv
<1>2. Recovered'.status = Changed(p, s).status /\ Recovered'.grant = Changed(p, s).grant
      /\ Recovered'.used = Changed(p, s).used
  BY <1>1, Committed DEF SnapshotType
<1>3. op[p].human \in Humans /\ Allowed(p, s)
  BY DEF Commit, IInv, Calling
<1> HIDE DEF s
<1>4. CASE op[p].kind = "enable"
  <2>1. op[p].grant \in Grants
    BY <1>4 DEF IInv, Calling
  <2>2. s.status # "READY" /\ s.used[op[p].human] = Unused
    BY <1>3, <1>4 DEF Allowed, Fresh
  <2>3. /\ Changed(p, s).status = "READY" /\ Changed(p, s).grant = op[p].grant
        /\ Changed(p, s).used = Used(s, op[p].human, "enabled", op[p].grant, NoGrant)
    BY <1>1, <1>4 DEF Changed, SnapshotType
  <2>4. PL!Enable(op[p].human, op[p].grant)
    BY <1>2, <2>2, <2>3 DEF s, PL!Enable, PL!Use, PL!Unused, Unused, Used, NoGrant
  <2> QED BY <1>3, <2>1, <2>4 DEF PL!Next
<1>5. CASE op[p].kind = "dispatch"
  <2>1. s.status = "READY"
    BY <1>3, <1>5 DEF Allowed
  <2>2. Changed(p, s).status = "CONSUMED" /\ Changed(p, s).grant = s.grant /\ Changed(p, s).used = s.used
    BY <1>1, <1>5 DEF Changed, SnapshotType
  <2>3. PL!Consume
    BY <1>2, <2>1, <2>2 DEF s, PL!Consume
  <2> QED BY <2>3 DEF PL!Next
<1>6. CASE op[p].kind = "retire"
  <2>1. s.status = "READY" /\ s.used[op[p].human] = Unused
    BY <1>3, <1>6 DEF Allowed, Fresh
  <2>2. /\ Changed(p, s).status = "RETIRED" /\ Changed(p, s).grant = s.grant
        /\ Changed(p, s).used = Used(s, op[p].human, "retired", s.grant, NoGrant)
    BY <1>1, <1>6 DEF Changed, SnapshotType
  <2>3. PL!Retire(op[p].human)
    BY <1>2, <2>1, <2>2 DEF s, PL!Retire, PL!Use, PL!Unused, Unused, Used, NoGrant
  <2> QED BY <1>3, <2>3 DEF PL!Next
<1>7. CASE op[p].kind = "rotate"
  <2>1. RotationSafe(s, op[p].human, op[p].grant) /\ pc[p] = "installed"
    BY <1>3, <1>7 DEF Allowed
  <2>2. op[p].grant \in Grants /\ canonical \in Grants
    BY <2>1 DEF IInv, Rotating, TypeOK
  <2>3. /\ Changed(p, s).status = s.status /\ Changed(p, s).grant = s.grant
        /\ Changed(p, s).used = Used(s, op[p].human, "rotated", op[p].grant, canonical)
    BY <1>1, <1>7 DEF Changed, SnapshotType
  <2>4. PL!Rotate(op[p].human, op[p].grant, canonical)
    BY <1>2, <2>1, <2>3 DEF s, PL!Rotate, PL!Use, PL!Unused, Unused, Used, NoGrant, RotationSafe, Fresh
  <2> QED BY <1>3, <2>2, <2>4 DEF PL!Next
<1> QED BY <1>3, <1>4, <1>5, <1>6, <1>7 DEF Allowed

\* The others change nothing the ledger shows.
LEMMA StepRefines == IInv /\ [Next]_vars => [PL!Next]_Ledger
<1> SUFFICES ASSUME IInv, [Next]_vars PROVE PL!Next \/ Recovered' = Recovered
  BY DEF Ledger
<1>1. ASSUME NEW p \in Procs, Commit(p) PROVE PL!Next
  BY <1>1, CommitActs
<1>2. ASSUME NEW p \in Procs,
             \/ Acquire(p) \/ TimeOut(p) \/ Fail(p) \/ Release(p) \/ RollBack(p)
             \/ Save(p) \/ Install(p) \/ Archive(p) \/ Tear(p) \/ Crash(p)
      PROVE  Recovered' = Recovered
  <2>1. UNCHANGED journal /\ (file' = file \/ file' = Recovered)
    BY <1>2 DEF Acquire, TimeOut, Fail, Release, RollBack, Save, Install, Archive, Tear, Crash, stateVars
  <2> QED BY <2>1, NothingAppended
<1>3. ASSUME NEW p \in Procs, NEW h \in Humans, NEW kind \in {"enable", "dispatch", "retire", "rotate"},
             Call(p, kind, h)
      PROVE  Recovered' = Recovered
  BY <1>3 DEF Call, stateVars, Recovered
<1>4. CASE Reclaim \/ Expire \/ InstallFirst \/ UNCHANGED vars
  BY <1>4 DEF Reclaim, Expire, InstallFirst, vars, stateVars, Recovered
<1> QED BY <1>1, <1>2, <1>3, <1>4 DEF Next, Step

\* What the journal records of the pilot is a ledger of whole acts: one activation
\* at a time, every human authorization used once, nothing undone
\* (controller-state-engine.mjs, pilot-admin-engine.mjs).
THEOREM Refinement == Spec => ImplementsPilotLedger
<1>1. Init => PL!Init
  BY DEF Init, Recovered, Empty, Unused, NoGrant, PL!Init, PL!Unused
<1> QED BY <1>1, StepRefines, Invariance, PTL DEF Spec, ImplementsPilotLedger, PL!Spec, Ledger

=============================================================================
