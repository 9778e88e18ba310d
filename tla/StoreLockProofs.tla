--------------------------- MODULE StoreLockProofs ---------------------------
(***************************************************************************)
(* Proofs about the lock of the runtime store, for any processes, any      *)
(* number of calls and any directory a dead process left behind.           *)
(*                                                                         *)
(* The argument: as long as no live process's marker was moved aside, the  *)
(* path of the lock shows the record of the process in its callback, and   *)
(* the path of the marker that of the process removing a lock.  What a     *)
(* process removes is the record it read under the marker: nobody else may *)
(* remove it then, its owner is dead, and death is final.                  *)
(***************************************************************************)
EXTENDS StoreLock, TLAPS

HoldsLock   == {"load", "save", "readOwn", "unlinkOwn"}
HoldsMarker == {"reread", "list", "unlinkDead", "rmdirDead", "readOwnMarker", "unlinkMarker"}
Removing    == {"list", "unlinkDead"}

\* Where a process goes on because the owner it read is dead.
Decided     == {"readMarker", "checkMarker", "quarantine", "examine", "putBack",
                "publishMarker", "reread"} \cup Removing

\* What p decided is right, and stays right: the dead stay dead.
Sound(p) ==
    /\ pc[p] # "idle" => alive[p]
    /\ pc[p] \in Decided \cup {"check"} => seen[p] \in Records
    /\ pc[p] \in Decided => ~alive[seen[p][1]]

\* While no live process's marker was moved: the paths show what p believes they
\* show, and what it moved aside was a dead process's.
Held(p) ==
    /\ pc[p] \in HoldsLock => mine[p] \in Records /\ mine[p][1] = p /\ lock = mine[p]
    /\ pc[p] \in HoldsMarker => mark[p] \in Records /\ mark[p][1] = p /\ marker = mark[p]
    /\ pc[p] \in Removing => lock = seen[p]
    /\ pc[p] = "examine" => aside[p] = Empty \/ (aside[p] \in Records /\ ~alive[aside[p][1]])
    /\ pc[p] = "restore" => aside[p] = Empty
    /\ pc[p] # "putBack"
    /\ pc[p] = "save" => base[p] = store

IInv ==
    /\ TypeOK
    /\ \A p \in Procs : Sound(p)
    /\ ~disturbed => NoLostUpdate /\ \A p \in Procs : Held(p)

-----------------------------------------------------------------------------
(* Paths, types and the frame of a step. *)

\* A path shows nothing, an empty directory or a record, which names a process.
LEMMA Paths ==
    /\ Free \cap Records = {} /\ None # Empty /\ Dirs = Records \cup Free
    /\ None \in Free /\ Empty \in Free /\ Free = {None, Empty}
    /\ \A x \in Records : x[1] \in Procs
  BY LockAssumption DEF Free, Records, Dirs, None, Empty

\* What a process publishes is a record of its own.
LEMMA FreshRecord ==
    ASSUME TypeOK, NEW p \in Procs, Publish(p)
    PROVE  Fresh(p) \in Records /\ Fresh(p)[1] = p /\ draws' \in [Procs -> 0..MaxDraws]
<1>1. draws[p] + 1 \in 0..MaxDraws
  BY LockAssumption DEF TypeOK, Publish
<1> QED BY <1>1 DEF TypeOK, Publish, Fresh, Records

\* A call that ends forgets what it knew.
LEMMA LeaveTypes ==
    ASSUME TypeOK, NEW p \in Procs, Leave(p)
    PROVE  /\ pc' \in [Procs -> Places] /\ base' \in [Procs -> Nat]
           /\ mine' \in [Procs -> Dirs] /\ mark' \in [Procs -> Dirs] /\ seen' \in [Procs -> Dirs]
           /\ verdict' \in [Procs -> {"false", "true", "throw"}]
  BY Paths DEF TypeOK, Leave, Places

\* Going back to the acquisition, or giving up.
LEMMA RetryTypes ==
    ASSUME TypeOK, NEW p \in Procs, Retry(p)
    PROVE  /\ pc' \in [Procs -> Places] /\ base' \in [Procs -> Nat]
           /\ mine' \in [Procs -> Dirs] /\ mark' \in [Procs -> Dirs] /\ seen' \in [Procs -> Dirs]
           /\ verdict' \in [Procs -> {"false", "true", "throw"}]
  BY Paths, LeaveTypes DEF TypeOK, Retry, Goto, Places

\* Every step keeps the types.
LEMMA TypeStep ==
    ASSUME TypeOK, [Next]_vars
    PROVE  TypeOK'
<1> USE Paths DEF TypeOK, Goto, locals, files, Finally, Places
<1>1. ASSUME NEW p \in Procs, Call(p) PROVE TypeOK'
  <2>1. calls[p] + 1 \in 0..MaxCalls
    BY <1>1, LockAssumption DEF Call
  <2> QED BY <1>1, <2>1 DEF Call
<1>2. ASSUME NEW p \in Procs, Acquire(p) PROVE TypeOK'
  BY <1>2, FreshRecord DEF Acquire
<1>3. ASSUME NEW p \in Procs, AcquireFails(p) PROVE TypeOK'
  BY <1>3 DEF AcquireFails
<1>4. ASSUME NEW p \in Procs, Inspect(p) PROVE TypeOK'
  BY <1>4, RetryTypes DEF Inspect
<1>5. ASSUME NEW p \in Procs, Check(p) PROVE TypeOK'
  BY <1>5, RetryTypes DEF Check
<1>6. ASSUME NEW p \in Procs, ReadMarker(p) PROVE TypeOK'
  BY <1>6 DEF ReadMarker
<1>7. ASSUME NEW p \in Procs, CheckMarker(p) PROVE TypeOK'
  BY <1>7 DEF CheckMarker
<1>8. ASSUME NEW p \in Procs, Quarantine(p) PROVE TypeOK'
  BY <1>8 DEF Quarantine
<1>9. ASSUME NEW p \in Procs, Examine(p) PROVE TypeOK'
  BY <1>9 DEF Examine
<1>10. ASSUME NEW p \in Procs, PutBack(p) PROVE TypeOK'
  BY <1>10 DEF PutBack
<1>11. ASSUME NEW p \in Procs, Restore(p) PROVE TypeOK'
  BY <1>11, LeaveTypes DEF Restore
<1>12. ASSUME NEW p \in Procs, PublishMarker(p) PROVE TypeOK'
  BY <1>12, FreshRecord, RetryTypes DEF PublishMarker
<1>13. ASSUME NEW p \in Procs, Reread(p) \/ List(p) PROVE TypeOK'
  BY <1>13 DEF Reread, List
<1>14. ASSUME NEW p \in Procs, UnlinkDead(p) \/ RmdirDead(p) PROVE TypeOK'
  BY <1>14 DEF UnlinkDead, RmdirDead
<1>15. ASSUME NEW p \in Procs, ReadOwnMarker(p) \/ UnlinkMarker(p) PROVE TypeOK'
  BY <1>15, LeaveTypes DEF ReadOwnMarker, UnlinkMarker
<1>16. ASSUME NEW p \in Procs, RmdirMarker(p) PROVE TypeOK'
  BY <1>16, LeaveTypes DEF RmdirMarker
<1>17. ASSUME NEW p \in Procs, Load(p) \/ Save(p) PROVE TypeOK'
  BY <1>17 DEF Load, Save
<1>18. ASSUME NEW p \in Procs, ReadOwn(p) \/ UnlinkOwn(p) \/ RmdirOwn(p) PROVE TypeOK'
  BY <1>18, LeaveTypes DEF ReadOwn, UnlinkOwn, RmdirOwn
<1>19. ASSUME NEW p \in Procs, Exit(p) PROVE TypeOK'
  BY <1>19, LeaveTypes DEF Exit
<1>20. CASE UNCHANGED vars
  BY <1>20 DEF vars
<1> QED BY <1>1, <1>2, <1>3, <1>4, <1>5, <1>6, <1>7, <1>8, <1>9, <1>10, <1>11, <1>12, <1>13, <1>14,
           <1>15, <1>16, <1>17, <1>18, <1>19, <1>20 DEF Next

-----------------------------------------------------------------------------
(* What a step of p leaves to the others. *)

\* A step of p: nobody else moves or dies, the lock is removed by its holder or
\* by a process that is removing it, and a marker by its owner, by a process that
\* moves it aside, or by its rmdir; only a callback replaces the state file.
Acts(p) ==
    /\ alive[p]
    /\ \A q \in Procs \ {p} :
          /\ pc'[q] = pc[q] /\ mine'[q] = mine[q] /\ mark'[q] = mark[q]
          /\ seen'[q] = seen[q] /\ base'[q] = base[q] /\ aside'[q] = aside[q]
          /\ alive'[q] <=> alive[q]
    /\ disturbed => disturbed'
    /\ lock' # lock => \/ lock \in Free
                       \/ pc[p] = "unlinkOwn"
                       \/ pc[p] = "unlinkDead"
    /\ marker' # marker => \/ marker \in Free
                           \/ pc[p] = "unlinkMarker"
                           \/ ~alive[marker[1]]
                           \/ disturbed'
    /\ store' # store => pc[p] = "save"

\* Every action is such a step.
LEMMA EveryAction ==
    ASSUME TypeOK, NEW p \in Procs,
           \/ Call(p) \/ Acquire(p) \/ AcquireFails(p) \/ Inspect(p) \/ Check(p)
           \/ ReadMarker(p) \/ CheckMarker(p) \/ Quarantine(p) \/ Examine(p) \/ PutBack(p)
           \/ Restore(p) \/ PublishMarker(p) \/ Reread(p) \/ List(p) \/ UnlinkDead(p)
           \/ RmdirDead(p) \/ ReadOwnMarker(p) \/ UnlinkMarker(p) \/ RmdirMarker(p)
           \/ Load(p) \/ Save(p) \/ ReadOwn(p) \/ UnlinkOwn(p) \/ RmdirOwn(p) \/ Exit(p)
    PROVE  Acts(p)
<1> USE Paths DEF TypeOK, Acts, At, Goto, Leave, Retry, Finally, Publish, locals, files
<1>1. CASE Call(p) \/ Acquire(p) \/ AcquireFails(p)
  BY <1>1 DEF Call, Acquire, AcquireFails
<1>2. CASE Inspect(p) \/ Check(p)
  BY <1>2 DEF Inspect, Check
<1>3. CASE ReadMarker(p) \/ CheckMarker(p)
  BY <1>3 DEF ReadMarker, CheckMarker
<1>4. CASE Quarantine(p)
  BY <1>4 DEF Quarantine
<1>5. CASE Examine(p)
  BY <1>5 DEF Examine
<1>6. CASE PutBack(p) \/ Restore(p)
  BY <1>6 DEF PutBack, Restore
<1>7. CASE PublishMarker(p)
  BY <1>7 DEF PublishMarker
<1>8. CASE Reread(p) \/ List(p)
  BY <1>8 DEF Reread, List
<1>9. CASE UnlinkDead(p) \/ RmdirDead(p)
  BY <1>9 DEF UnlinkDead, RmdirDead
<1>10. CASE ReadOwnMarker(p) \/ UnlinkMarker(p)
  BY <1>10 DEF ReadOwnMarker, UnlinkMarker
<1>11. CASE RmdirMarker(p)
  BY <1>11 DEF RmdirMarker
<1>12. CASE Load(p) \/ Save(p)
  BY <1>12 DEF Load, Save
<1>13. CASE ReadOwn(p) \/ UnlinkOwn(p) \/ RmdirOwn(p)
  BY <1>13 DEF ReadOwn, UnlinkOwn, RmdirOwn
<1>14. CASE Exit(p)
  BY <1>14 DEF Exit
<1> QED BY <1>1, <1>2, <1>3, <1>4, <1>5, <1>6, <1>7, <1>8, <1>9, <1>10, <1>11, <1>12, <1>13, <1>14

\* What holds for another process survives a step of p.
LEMMA OthersKeep ==
    ASSUME IInv, NEW p \in Procs, Acts(p), NEW q \in Procs, q # p
    PROVE  Sound(q)' /\ (~disturbed' => Held(q)')
<1>1. /\ pc'[q] = pc[q] /\ mine'[q] = mine[q] /\ mark'[q] = mark[q]
      /\ seen'[q] = seen[q] /\ base'[q] = base[q] /\ aside'[q] = aside[q]
      /\ alive'[q] <=> alive[q]
  BY DEF Acts
<1>2. \A x \in Procs : alive'[x] => alive[x]
  BY DEF Acts
<1>3. Sound(q) /\ Sound(p)
  BY DEF IInv
<1>4. Sound(q)'
  BY <1>1, <1>2, <1>3, Paths DEF Sound
<1>5. ASSUME ~disturbed' PROVE Held(q)'
  <2>1. ~disturbed /\ Held(p) /\ Held(q)
    BY <1>5 DEF Acts, IInv
  <2>2. pc[q] \in HoldsLock => lock' = lock
    BY <1>3, <2>1, Paths DEF Acts, Held, Sound, HoldsLock, HoldsMarker, Removing, Decided
  <2>3. pc[q] \in HoldsMarker => marker' = marker
    BY <1>3, <1>5, <2>1, Paths DEF Acts, Held, Sound, HoldsMarker
  <2>4. pc[q] \in Removing => lock' = lock
    <3>1. pc[q] \in Removing => lock = seen[q] /\ pc[q] \in HoldsMarker \cap Decided
      BY <2>1 DEF Held, Removing, HoldsMarker, Decided
    <3>2. pc[q] \in Removing => pc[p] # "unlinkDead"
      BY <2>1, <3>1 DEF Held, HoldsMarker
    <3>3. pc[q] \in Removing => pc[p] # "unlinkOwn"
      BY <1>3, <2>1, <3>1 DEF Held, HoldsLock, Sound, Acts
    <3> QED BY <1>3, <3>1, <3>2, <3>3, Paths DEF Acts, Sound
  <2>5. pc[q] = "save" => store' = store
    BY <2>1 DEF Acts, Held, HoldsLock
  <2> QED BY <1>1, <1>2, <2>1, <2>2, <2>3, <2>4, <2>5, Paths DEF Held
<1> QED BY <1>4, <1>5

-----------------------------------------------------------------------------
(* What a step of p makes of p itself. *)

Own(p) == /\ Sound(p)'
          /\ ~disturbed' => NoLostUpdate' /\ Held(p)'

\* A step to a place where p relies on nothing leaves nothing to show, if the
\* state file is as before.
Unbound == {"idle", "acquire", "inspect", "rmdirMarker", "rmdirOwn"}

LEMMA OwnUnbound ==
    ASSUME IInv, NEW p \in Procs, pc'[p] \in Unbound, pc'[p] # "idle" => alive'[p],
           disturbed' = disturbed, UNCHANGED <<store, writes>>
    PROVE  Own(p)
  BY DEF IInv, Own, Sound, Held, NoLostUpdate, Unbound, Decided, HoldsLock, HoldsMarker, Removing

\* Ending the call, or trying again.
LEMMA OwnLeave ==
    ASSUME IInv, NEW p \in Procs, Leave(p) \/ Retry(p), alive[p], alive' = alive,
           disturbed' = disturbed, UNCHANGED <<store, writes>>
    PROVE  Own(p)
<1>1. pc'[p] \in Unbound
  BY DEF IInv, TypeOK, Leave, Retry, Goto, Unbound
<1> QED BY <1>1, OwnUnbound

\* The acquisition: what was renamed onto the lock is there.
LEMMA OwnAcquire ==
    ASSUME IInv, NEW p \in Procs, Call(p) \/ Acquire(p) \/ AcquireFails(p)
    PROVE  Own(p)
<1>1. CASE Call(p) \/ AcquireFails(p)
  <2>1. pc'[p] \in Unbound
    BY <1>1 DEF IInv, TypeOK, Call, AcquireFails, Goto, Unbound
  <2> QED BY <1>1, <2>1, OwnUnbound DEF Call, AcquireFails, At
<1>2. CASE Acquire(p)
  <2>1. Fresh(p) \in Records /\ Fresh(p)[1] = p
    BY <1>2, FreshRecord DEF IInv, Acquire
  <2>2. pc'[p] = "load" /\ mine'[p] = Fresh(p) /\ lock' = Fresh(p) /\ alive'[p]
    BY <1>2 DEF IInv, TypeOK, Acquire, At, Goto
  <2>3. disturbed' = disturbed /\ store' = store /\ writes' = writes
    BY <1>2 DEF Acquire
  <2> QED BY <2>1, <2>2, <2>3
          DEF IInv, Own, Sound, Held, NoLostUpdate, Decided, HoldsLock, HoldsMarker, Removing
<1> QED BY <1>1, <1>2

\* Reading the lock, and finding its owner alive or dead.
LEMMA OwnCheck ==
    ASSUME IInv, NEW p \in Procs, Inspect(p) \/ Check(p)
    PROVE  Own(p)
<1>1. CASE Inspect(p)
  <2>1. CASE lock \in Free /\ Retry(p)
    BY <1>1, <2>1, OwnLeave DEF Inspect, At
  <2>2. CASE lock \notin Free /\ seen' = [seen EXCEPT ![p] = lock] /\ Goto(p, "check")
    <3>1. pc'[p] = "check" /\ seen'[p] = lock /\ lock \in Records /\ alive'[p]
      BY <1>1, <2>2, Paths DEF IInv, TypeOK, Inspect, At, Goto
    <3> QED BY <1>1, <3>1 DEF Inspect, IInv, Own, Sound, Held, NoLostUpdate, Decided, HoldsLock,
                             HoldsMarker, Removing
  <2> QED BY <1>1, <2>1, <2>2 DEF Inspect
<1>2. CASE Check(p)
  <2>1. CASE Retry(p)
    BY <1>2, <2>1, OwnLeave DEF Check, At
  <2>2. CASE ~alive[seen[p][1]] /\ Goto(p, "readMarker") /\ UNCHANGED locals
    <3>1. /\ pc[p] = "check" /\ pc'[p] = "readMarker" /\ seen'[p] = seen[p] /\ alive'[p]
          /\ alive' = alive
      BY <1>2, <2>2 DEF IInv, TypeOK, Check, At, Goto, locals
    <3>2. disturbed' = disturbed /\ store' = store /\ writes' = writes
      BY <1>2 DEF Check
    <3> QED BY <2>2, <3>1, <3>2 DEF IInv, Own, Sound, Held, NoLostUpdate, Decided, HoldsLock,
                             HoldsMarker, Removing
  <2> QED BY <1>2, <2>1, <2>2 DEF Check
<1> QED BY <1>1, <1>2

\* A step among the places where p goes on because of the dead owner it read,
\* none of which relies on more.
LEMMA OwnDecided ==
    ASSUME IInv, NEW p \in Procs, pc[p] \in Decided, alive' = alive, disturbed' = disturbed,
           pc'[p] \in {"readMarker", "checkMarker", "quarantine", "publishMarker"},
           seen'[p] = seen[p], UNCHANGED <<store, writes>>
    PROVE  Own(p)
<1>1. Sound(p) /\ pc[p] # "idle"
  BY DEF IInv, Decided, Removing
<1> QED BY <1>1 DEF IInv, Own, Sound, Held, NoLostUpdate, Decided, HoldsLock, HoldsMarker, Removing

\* Reading the marker, and finding its owner alive or dead.
LEMMA OwnReadMarker ==
    ASSUME IInv, NEW p \in Procs, ReadMarker(p) \/ CheckMarker(p)
    PROVE  Own(p)
<1>1. /\ pc[p] \in Decided /\ pc'[p] \in {"readMarker", "checkMarker", "quarantine", "publishMarker"}
      /\ alive' = alive /\ disturbed' = disturbed /\ seen'[p] = seen[p] /\ UNCHANGED <<store, writes>>
  BY DEF ReadMarker, CheckMarker, IInv, TypeOK, At, Goto, Decided
<1> QED BY <1>1, OwnDecided

\* Moving the marker aside: a live process's is the disturbance, so what was
\* moved without one is a dead process's or has no record.
LEMMA OwnQuarantine ==
    ASSUME IInv, NEW p \in Procs, Quarantine(p)
    PROVE  Own(p)
<1>1. /\ pc[p] = "quarantine" /\ alive[p] /\ alive' = alive /\ seen'[p] = seen[p]
      /\ UNCHANGED <<store, writes>> /\ Sound(p)
  BY DEF Quarantine, IInv, At, locals
<1>2. CASE marker = None /\ Goto(p, "publishMarker")
  <2>1. disturbed' = disturbed
    BY <1>2, Paths DEF Quarantine, IInv, TypeOK
  <2>2. pc'[p] = "publishMarker" /\ pc[p] \in Decided
    BY <1>1, <1>2 DEF IInv, TypeOK, Goto, Decided
  <2> QED BY <1>1, <2>1, <2>2, OwnDecided
<1>3. CASE marker # None /\ aside' = [aside EXCEPT ![p] = marker] /\ Goto(p, "examine")
  <2>1. pc'[p] = "examine" /\ aside'[p] = marker
    BY <1>3 DEF IInv, TypeOK, Goto
  <2>2. ~disturbed' => ~disturbed /\ (marker \in Free \/ ~alive[marker[1]])
    BY DEF Quarantine
  <2>3. marker \in Free \/ marker \in Records
    BY Paths DEF IInv, TypeOK
  <2>4. marker \in Free => marker = Empty
    BY <1>3, Paths
  <2> QED BY <1>1, <2>1, <2>2, <2>3, <2>4
          DEF IInv, Own, Sound, Held, NoLostUpdate, Decided, HoldsLock, HoldsMarker, Removing
<1> QED BY <1>2, <1>3 DEF Quarantine

\* Examining it, putting it back, and the exception's handler.
LEMMA OwnExamine ==
    ASSUME IInv, NEW p \in Procs, Examine(p) \/ PutBack(p) \/ Restore(p)
    PROVE  Own(p)
<1>1. CASE Examine(p)
  <2>1. /\ pc[p] = "examine" /\ alive[p] /\ alive' = alive /\ seen'[p] = seen[p] /\ Sound(p)
        /\ disturbed' = disturbed /\ UNCHANGED <<store, writes>>
    BY <1>1 DEF Examine, IInv, At, locals
  <2>2. \/ aside[p] = Empty /\ pc'[p] = "restore" /\ aside' = aside
        \/ aside[p] # Empty /\ alive[aside[p][1]] /\ pc'[p] = "putBack"
        \/ pc'[p] = "publishMarker"
    BY <1>1 DEF Examine, IInv, TypeOK, Goto
  <2>3. pc[p] \in Decided
    BY <2>1 DEF Decided
  <2>4. CASE pc'[p] = "publishMarker"
    BY <2>1, <2>3, <2>4, OwnDecided
  <2>5. CASE aside[p] = Empty /\ pc'[p] = "restore" /\ aside' = aside
    BY <2>1, <2>5 DEF IInv, Own, Sound, Held, NoLostUpdate, Decided, HoldsLock, HoldsMarker, Removing
  <2>6. CASE aside[p] # Empty /\ alive[aside[p][1]] /\ pc'[p] = "putBack"
    BY <2>1, <2>3, <2>6 DEF IInv, Own, Sound, Held, Decided
  <2> QED BY <2>2, <2>4, <2>5, <2>6
<1>2. CASE PutBack(p)
  <2>1. pc[p] = "putBack" /\ alive[p] /\ alive' = alive /\ seen'[p] = seen[p] /\ Sound(p)
        /\ disturbed' = disturbed /\ UNCHANGED <<store, writes>>
    BY <1>2 DEF PutBack, IInv, At, locals
  <2>2. pc'[p] = "publishMarker" \/ pc'[p] = "restore"
    BY <1>2 DEF PutBack, IInv, TypeOK, Goto
  <2>3. disturbed
    BY <2>1 DEF IInv, Held
  <2> QED BY <2>1, <2>2, <2>3 DEF Own, Sound, Decided
<1>3. CASE Restore(p)
  BY <1>3, OwnLeave DEF Restore, At
<1> QED BY <1>1, <1>2, <1>3

\* The marker renamed into place is there; a marker that was there is left.
LEMMA OwnPublishMarker ==
    ASSUME IInv, NEW p \in Procs, PublishMarker(p)
    PROVE  Own(p)
<1>1. CASE Retry(p)
  BY <1>1, OwnLeave DEF PublishMarker, At
<1>2. CASE /\ Publish(p) /\ marker' = Fresh(p) /\ mark' = [mark EXCEPT ![p] = Fresh(p)]
           /\ Goto(p, "reread") /\ UNCHANGED <<mine, seen, base, verdict>>
  <2>1. Fresh(p) \in Records /\ Fresh(p)[1] = p
    BY <1>2, FreshRecord DEF IInv
  <2>2. /\ pc[p] = "publishMarker" /\ alive[p] /\ alive' = alive /\ Sound(p)
        /\ disturbed' = disturbed /\ UNCHANGED <<store, writes>>
    BY DEF PublishMarker, IInv, At
  <2>3. pc'[p] = "reread" /\ mark'[p] = Fresh(p) /\ seen'[p] = seen[p]
    BY <1>2 DEF IInv, TypeOK, Goto
  <2> QED BY <1>2, <2>1, <2>2, <2>3
          DEF IInv, Own, Sound, Held, NoLostUpdate, Decided, HoldsLock, HoldsMarker, Removing
<1> QED BY <1>1, <1>2 DEF PublishMarker

\* Under its marker p removes the record it read, or lets the lock be.
LEMMA OwnRemoval ==
    ASSUME IInv, NEW p \in Procs, Reread(p) \/ List(p) \/ UnlinkDead(p) \/ RmdirDead(p)
    PROVE  Own(p)
<1>1. /\ pc[p] \in {"reread", "list", "unlinkDead", "rmdirDead"} /\ alive[p] /\ alive' = alive
      /\ disturbed' = disturbed /\ UNCHANGED <<store, writes>> /\ Sound(p)
      /\ mark' = mark /\ marker' = marker /\ seen' = seen
  BY DEF Reread, List, UnlinkDead, RmdirDead, IInv, At, locals, files
<1>2. \/ pc'[p] = "list" /\ pc[p] = "reread" /\ lock = seen[p] /\ lock' = lock
      \/ pc'[p] = "unlinkDead" /\ pc[p] = "list" /\ lock' = lock
      \/ pc'[p] \in {"rmdirDead", "readOwnMarker"}
  BY DEF Reread, List, UnlinkDead, RmdirDead, IInv, TypeOK, At, Goto, Finally, files
<1>3. ~disturbed => Held(p)
  BY DEF IInv
<1> QED BY <1>1, <1>2, <1>3
        DEF IInv, Own, Sound, Held, NoLostUpdate, Decided, HoldsLock, HoldsMarker, Removing

\* The marker is released by the process it names.
LEMMA OwnReleaseMarker ==
    ASSUME IInv, NEW p \in Procs, ReadOwnMarker(p) \/ UnlinkMarker(p) \/ RmdirMarker(p)
    PROVE  Own(p)
<1>1. CASE ReadOwnMarker(p)
  <2>1. CASE Leave(p)
    BY <1>1, <2>1, OwnLeave DEF ReadOwnMarker, At
  <2>2. CASE marker = mark[p] /\ Goto(p, "unlinkMarker") /\ UNCHANGED locals
    <3>1. /\ pc[p] = "readOwnMarker" /\ pc'[p] = "unlinkMarker" /\ alive[p] /\ alive' = alive
          /\ disturbed' = disturbed /\ UNCHANGED <<store, writes, mark, marker>>
      BY <1>1, <2>2 DEF ReadOwnMarker, IInv, TypeOK, At, Goto, locals, files
    <3> QED BY <3>1 DEF IInv, Own, Sound, Held, NoLostUpdate, Decided, HoldsLock, HoldsMarker,
                        Removing
  <2> QED BY <1>1, <2>1, <2>2 DEF ReadOwnMarker
<1>2. CASE UnlinkMarker(p)
  <2>1. CASE Leave(p)
    BY <1>2, <2>1, OwnLeave DEF UnlinkMarker, At
  <2>2. CASE Goto(p, "rmdirMarker")
    <3>1. pc'[p] \in Unbound
      BY <2>2 DEF IInv, TypeOK, Goto, Unbound
    <3> QED BY <1>2, <3>1, OwnUnbound DEF UnlinkMarker, At
  <2> QED BY <1>2, <2>1, <2>2 DEF UnlinkMarker
<1>3. CASE RmdirMarker(p)
  <2>1. pc'[p] \in Unbound
    BY <1>3 DEF RmdirMarker, Leave, IInv, TypeOK, Goto, Unbound
  <2> QED BY <1>3, <2>1, OwnUnbound DEF RmdirMarker, At
<1> QED BY <1>1, <1>2, <1>3

\* The callback replaces the revision it loaded, since nobody else is in one.
LEMMA OwnCallback ==
    ASSUME IInv, NEW p \in Procs, Load(p) \/ Save(p)
    PROVE  Own(p)
<1>1. CASE Load(p)
  <2>1. /\ pc[p] = "load" /\ pc'[p] = "save" /\ base'[p] = store /\ alive[p] /\ alive' = alive
        /\ disturbed' = disturbed /\ UNCHANGED <<store, writes, lock>> /\ mine' = mine
    BY <1>1 DEF Load, IInv, TypeOK, At, Goto, files
  <2> QED BY <2>1 DEF IInv, Own, Sound, Held, NoLostUpdate, Decided, HoldsLock, HoldsMarker,
                      Removing
<1>2. CASE Save(p)
  <2>1. /\ pc[p] = "save" /\ pc'[p] = "readOwn" /\ alive[p] /\ alive' = alive
        /\ disturbed' = disturbed /\ lock' = lock /\ mine' = mine
    BY <1>2 DEF Save, IInv, TypeOK, At, Goto, files, locals
  <2>2. \/ UNCHANGED <<store, writes>>
        \/ store' = base[p] + 1 /\ writes' = writes + 1
    BY <1>2 DEF Save
  <2>3. ~disturbed => NoLostUpdate' /\ Held(p)
    <3>1. ~disturbed => base[p] = store /\ store = writes /\ Held(p)
      BY <2>1 DEF IInv, Held, NoLostUpdate
    <3> QED BY <2>2, <3>1 DEF NoLostUpdate
  <2> QED BY <2>1, <2>3 DEF IInv, Own, Sound, Held, Decided, HoldsLock, HoldsMarker, Removing
<1> QED BY <1>1, <1>2

\* The lock is released by the process it names.
LEMMA OwnRelease ==
    ASSUME IInv, NEW p \in Procs, ReadOwn(p) \/ UnlinkOwn(p) \/ RmdirOwn(p)
    PROVE  Own(p)
<1>1. CASE Leave(p)
  BY <1>1, OwnLeave DEF ReadOwn, UnlinkOwn, RmdirOwn, At
<1>2. CASE UnlinkOwn(p) /\ Goto(p, "rmdirOwn")
  <2>1. pc'[p] \in Unbound
    BY <1>2 DEF IInv, TypeOK, Goto, Unbound
  <2> QED BY <1>2, <2>1, OwnUnbound DEF UnlinkOwn, At
<1>3. CASE ReadOwn(p) /\ Goto(p, "unlinkOwn") /\ lock = mine[p] /\ UNCHANGED locals
  <2>1. /\ pc[p] = "readOwn" /\ pc'[p] = "unlinkOwn" /\ alive[p] /\ alive' = alive
        /\ disturbed' = disturbed /\ UNCHANGED <<store, writes, lock>> /\ mine' = mine
    BY <1>3 DEF ReadOwn, IInv, TypeOK, At, Goto, files, locals
  <2> QED BY <2>1 DEF IInv, Own, Sound, Held, NoLostUpdate, Decided, HoldsLock, HoldsMarker,
                      Removing
<1> QED BY <1>1, <1>2, <1>3 DEF ReadOwn, UnlinkOwn, RmdirOwn

\* A process that dies is nowhere in a call.
LEMMA OwnExit ==
    ASSUME IInv, NEW p \in Procs, Exit(p)
    PROVE  Own(p)
<1>1. pc'[p] = "idle" /\ disturbed' = disturbed /\ UNCHANGED <<store, writes>>
  BY DEF Exit, Leave, IInv, TypeOK
<1> QED BY <1>1, OwnUnbound DEF Unbound

-----------------------------------------------------------------------------
(* The invariant, and what it gives. *)

\* Nobody is in a call at first.
LEMMA InitIInv == Init => IInv
<1> SUFFICES ASSUME Init PROVE IInv
  OBVIOUS
<1>1. Left(LockLeftBy) \in Dirs /\ Left(MarkerLeftBy) \in Dirs
  <2>1. \A p \in Procs \cup {NoProc} : Left(p) \in Dirs
    BY LockAssumption DEF Left, Dirs, Records, Free
  <2> QED BY <2>1, LockAssumption
<1>2. TypeOK
  <2>1. 0 \in 0..MaxCalls /\ 0 \in 0..MaxDraws
    BY LockAssumption
  <2> QED BY <1>1, <2>1, Paths DEF Init, TypeOK, Places
<1>3. \A p \in Procs : pc[p] = "idle"
  BY DEF Init
<1> QED BY <1>2, <1>3
        DEF IInv, Init, NoLostUpdate, Sound, Held, Decided, HoldsLock, HoldsMarker, Removing

\* A step that keeps what the acting process relies on keeps the invariant.
LEMMA StepIInv ==
    ASSUME IInv, NEW p \in Procs, Acts(p), Own(p), TypeOK'
    PROVE  IInv'
<1>1. \A q \in Procs : Sound(q)' /\ (~disturbed' => Held(q)')
  BY OthersKeep DEF Own
<1>2. ~disturbed' => NoLostUpdate'
  BY DEF Own
<1> QED BY <1>1, <1>2 DEF IInv

\* Every step keeps it.
LEMMA NextIInv == IInv /\ [Next]_vars => IInv'
<1> SUFFICES ASSUME IInv, [Next]_vars PROVE IInv'
  OBVIOUS
<1>1. TypeOK'
  BY TypeStep DEF IInv
<1>2. CASE Next
  <2>1. PICK p \in Procs :
           \/ Call(p) \/ Acquire(p) \/ AcquireFails(p) \/ Inspect(p) \/ Check(p)
           \/ ReadMarker(p) \/ CheckMarker(p) \/ Quarantine(p) \/ Examine(p) \/ PutBack(p)
           \/ Restore(p) \/ PublishMarker(p) \/ Reread(p) \/ List(p) \/ UnlinkDead(p)
           \/ RmdirDead(p) \/ ReadOwnMarker(p) \/ UnlinkMarker(p) \/ RmdirMarker(p)
           \/ Load(p) \/ Save(p) \/ ReadOwn(p) \/ UnlinkOwn(p) \/ RmdirOwn(p) \/ Exit(p)
    BY <1>2 DEF Next
  <2>2. Acts(p)
    BY <2>1, EveryAction DEF IInv
  <2>3. Own(p)
    BY <2>1, OwnAcquire, OwnCheck, OwnReadMarker, OwnQuarantine, OwnExamine, OwnPublishMarker,
       OwnRemoval, OwnReleaseMarker, OwnCallback, OwnRelease, OwnExit
  <2> QED BY <1>1, <2>2, <2>3, StepIInv
<1>3. CASE UNCHANGED vars
  BY <1>1, <1>3 DEF vars, files, IInv, NoLostUpdate, Sound, Held
<1> QED BY <1>2, <1>3

\* The inductive invariant, of every reachable state.
THEOREM Invariance == Spec => []IInv
  BY InitIInv, NextIInv, PTL DEF Spec

\* Paths, places, records and counts keep their types, for any processes and
\* any bounds (runtime-store.mjs:849-1049).
THEOREM TypeCorrect == Spec => []TypeOK
<1>1. IInv => TypeOK
  BY DEF IInv
<1> QED BY <1>1, Invariance, PTL

\* Whoever dies with the lock or with the marker, and however many processes
\* recover it at once, no two callbacks overlap before a live process's marker is
\* moved aside (runtime-store.mjs:948-1049).
THEOREM MutualExclusionAlways == Spec => []MutualExclusion
<1>1. IInv => MutualExclusion
  <2> SUFFICES ASSUME IInv, ~disturbed,
                      NEW p \in Procs, NEW q \in Procs,
                      pc[p] \in InCallback, pc[q] \in InCallback
               PROVE  p = q
    BY DEF MutualExclusion
  <2>1. Held(p) /\ Held(q)
    BY DEF IInv
  <2> QED BY <2>1 DEF Held, HoldsLock, InCallback
<1> QED BY <1>1, Invariance, PTL

\* Nor is a revision written over by then (runtime-store.mjs:415-465).
THEOREM NoLostUpdateAlways == Spec => []NoLostUpdate
<1>1. IInv => NoLostUpdate
  BY DEF IInv, NoLostUpdate
<1> QED BY <1>1, Invariance, PTL

\* Nor is the owner.json of a live process removed by another (runtime-store.mjs:971-985).
THEOREM RemovedByOwnerAlways == Spec => RemovedByOwner
<1>1. IInv /\ [Next]_vars =>
      [lock \notin Free /\ lock' # lock
       => \/ disturbed \/ ~alive[lock[1]]
          \/ mine[lock[1]] = lock /\ pc[lock[1]] = "unlinkOwn"]_vars
  <2> SUFFICES ASSUME IInv, Next, lock \notin Free, lock' # lock, ~disturbed, alive[lock[1]]
               PROVE  mine[lock[1]] = lock /\ pc[lock[1]] = "unlinkOwn"
    BY DEF vars, files
  <2>1. PICK p \in Procs : Acts(p)
    BY EveryAction, Zenon DEF Next, IInv
  <2>2. Sound(p) /\ Held(p)
    BY DEF IInv
  <2>3. pc[p] = "unlinkOwn" \/ pc[p] = "unlinkDead"
    BY <2>1 DEF Acts
  <2>4. pc[p] # "unlinkDead"
    BY <2>2 DEF Sound, Held, Decided, Removing
  <2> QED BY <2>2, <2>3, <2>4 DEF Held, HoldsLock
<1> QED BY <1>1, Invariance, PTL DEF Spec, RemovedByOwner
=============================================================================
