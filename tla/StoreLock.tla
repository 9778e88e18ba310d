------------------------------ MODULE StoreLock ------------------------------
(***************************************************************************)
(* The lock of the RuntimeStore (night-worker/runtime-store.mjs), one file *)
(* operation at a time, on POSIX.                                          *)
(*                                                                         *)
(* The lock is a directory holding the owner.json of the process that      *)
(* renamed it into place; a second directory, the recovery marker, guards  *)
(* the removal of a lock whose owner died.  A directory is what its path   *)
(* shows: None when there is nothing there, Empty between the unlink of    *)
(* its owner.json and its rmdir, and otherwise the record in owner.json,   *)
(* <<process, token>>.  Renaming a directory onto a path works when the    *)
(* path is None or Empty and fails with ENOTEMPTY when it holds a record.  *)
(*                                                                         *)
(* The callback of withLock is RuntimeStore.mutate's: read the state file, *)
(* then perhaps replace it by the next revision.                           *)
(***************************************************************************)
EXTENDS Integers, FiniteSets

CONSTANTS Procs,         \* the processes that use the store
          MaxCalls,      \* bound: calls of mutate a process makes
          MaxDraws,      \* bound: directories a process renames into place
          LockLeftBy,    \* a process that died holding the lock, or NoProc
          MarkerLeftBy,  \* a process that died holding the marker, or NoProc
          NoProc

ASSUME LockAssumption ==
    /\ MaxCalls \in Nat /\ MaxDraws \in Nat
    /\ NoProc \notin Procs
    /\ LockLeftBy \in Procs \cup {NoProc}
    /\ MarkerLeftBy \in Procs \cup {NoProc}
    /\ LockLeftBy = MarkerLeftBy => LockLeftBy = NoProc

VARIABLES
    lock,    \* the directory at lock_path
    marker,  \* the directory at lock_path.recovery
    aside,   \* the quarantine directory of each process
    alive,   \* process.kill(pid, 0) succeeds
    pc,      \* where withLock stands in each process
    mine,    \* the record it holds the lock with
    mark,    \* the record it read in the marker, then holds the marker with
    seen,    \* the record it read and then decides from
    verdict, \* what recoverDeadOwnerLock will return, or "throw"
    base,    \* the revision the callback loaded
    store,   \* the revision in the state file
    writes,  \* observation: how many times the state file was replaced
    disturbed, \* observation: a live process's marker was moved aside
    calls,   \* calls made by each process
    draws    \* directories published by each process

files   == <<lock, marker, aside>>
vars    == <<files, alive, pc, mine, mark, seen, verdict, base, store, writes,
             disturbed, calls, draws>>

None    == <<NoProc, 0>>
Empty   == <<NoProc, 1>>
Free    == {None, Empty}
Records == Procs \X (0..MaxDraws)
Dirs    == Records \cup Free

\* Where withLock may stand, one place for each file operation that comes next.
Places ==
    {"idle", "acquire", "inspect", "check", "readMarker", "checkMarker", "quarantine",
     "examine", "putBack", "restore", "publishMarker", "reread", "list", "unlinkDead",
     "rmdirDead", "readOwnMarker", "unlinkMarker", "rmdirMarker",
     "load", "save", "readOwn", "unlinkOwn", "rmdirOwn"}

Left(p) == IF p = NoProc THEN None ELSE <<p, 0>>

Init ==
    /\ lock = Left(LockLeftBy)
    /\ marker = Left(MarkerLeftBy)
    /\ aside = [p \in Procs |-> None]
    /\ alive = [p \in Procs |-> p \notin {LockLeftBy, MarkerLeftBy}]
    /\ pc = [p \in Procs |-> "idle"]
    /\ mine = [p \in Procs |-> None]
    /\ mark = [p \in Procs |-> None]
    /\ seen = [p \in Procs |-> None]
    /\ verdict = [p \in Procs |-> "false"]
    /\ base = [p \in Procs |-> 0]
    /\ store = 0
    /\ writes = 0
    /\ disturbed = FALSE
    /\ calls = [p \in Procs |-> 0]
    /\ draws = [p \in Procs |-> 0]

-----------------------------------------------------------------------------
(* Steps. Each reads or changes one path. *)

At(p, here) == alive[p] /\ pc[p] = here

Goto(p, there) == pc' = [pc EXCEPT ![p] = there]

\* The call ends, with a result or an exception; what it knew is forgotten.
Leave(p) ==
    /\ pc' = [pc EXCEPT ![p] = "idle"]
    /\ mine' = [mine EXCEPT ![p] = None]
    /\ mark' = [mark EXCEPT ![p] = None]
    /\ seen' = [seen EXCEPT ![p] = None]
    /\ base' = [base EXCEPT ![p] = 0]
    /\ verdict' = [verdict EXCEPT ![p] = "false"]

locals == <<mine, mark, seen, base, verdict>>

\* The next record p publishes.
Fresh(p) == <<p, draws[p] + 1>>

Publish(p) ==
    /\ draws[p] < MaxDraws
    /\ draws' = [draws EXCEPT ![p] = @ + 1]

Call(p) ==
    /\ At(p, "idle")
    /\ calls[p] < MaxCalls
    /\ calls' = [calls EXCEPT ![p] = @ + 1]
    /\ Goto(p, "acquire")
    /\ UNCHANGED <<files, alive, disturbed, locals, store, writes, draws>>

\* Rename the prepared directory onto the lock.
Acquire(p) ==
    /\ At(p, "acquire")
    /\ lock \in Free
    /\ Publish(p)
    /\ lock' = Fresh(p)
    /\ mine' = [mine EXCEPT ![p] = Fresh(p)]
    /\ Goto(p, "load")
    /\ UNCHANGED <<marker, aside, alive, disturbed, mark, seen, base, verdict, store, writes, calls>>

\* ENOTEMPTY: read the owner record of the lock that is there.
AcquireFails(p) ==
    /\ At(p, "acquire")
    /\ lock \notin Free
    /\ Goto(p, "inspect")
    /\ UNCHANGED <<files, alive, disturbed, locals, store, writes, calls, draws>>

\* recoverDeadOwnerLock returned false: sleep and try again, or time out.
Retry(p) ==
    /\ \/ Goto(p, "acquire") /\ seen' = [seen EXCEPT ![p] = None]
                             /\ UNCHANGED <<mine, mark, base, verdict>>
       \/ Leave(p)

Inspect(p) ==
    /\ At(p, "inspect")
    /\ \/ lock \in Free /\ Retry(p)
       \/ /\ lock \notin Free
          /\ seen' = [seen EXCEPT ![p] = lock]
          /\ Goto(p, "check")
          /\ UNCHANGED <<mine, mark, base, verdict>>
    /\ UNCHANGED <<files, alive, disturbed, store, writes, calls, draws>>

\* Mutants stand before what they change.  The owner is taken to be dead.
CheckNothing(p) ==
    /\ At(p, "check")
    /\ Goto(p, "readMarker")
    /\ UNCHANGED <<files, alive, disturbed, locals, store, writes, calls, draws>>

Check(p) ==
    /\ At(p, "check")
    /\ \/ alive[seen[p][1]] /\ Retry(p)
       \/ ~alive[seen[p][1]] /\ Goto(p, "readMarker") /\ UNCHANGED locals
    /\ UNCHANGED <<files, alive, disturbed, store, writes, calls, draws>>

-----------------------------------------------------------------------------
(* reclaimDeadRecoveryMarker: move a dead process's marker aside. *)

\* Read the marker's record (kept in mark until the process has its own).
ReadMarker(p) ==
    /\ At(p, "readMarker")
    /\ \/ marker \in Free /\ Goto(p, "publishMarker") /\ UNCHANGED mark
       \/ /\ marker \notin Free
          /\ mark' = [mark EXCEPT ![p] = marker]
          /\ Goto(p, "checkMarker")
    /\ UNCHANGED <<files, alive, disturbed, mine, seen, base, verdict, store, writes, calls, draws>>

CheckMarker(p) ==
    /\ At(p, "checkMarker")
    /\ Goto(p, IF alive[mark[p][1]] THEN "publishMarker" ELSE "quarantine")
    /\ mark' = [mark EXCEPT ![p] = None]
    /\ UNCHANGED <<files, alive, disturbed, mine, seen, base, verdict, store, writes, calls, draws>>

\* Whatever is at the marker's path by now is moved.
Quarantine(p) ==
    /\ At(p, "quarantine")
    /\ \/ marker = None /\ Goto(p, "publishMarker") /\ UNCHANGED <<marker, aside>>
       \/ /\ marker # None
          /\ aside' = [aside EXCEPT ![p] = marker]
          /\ marker' = None
          /\ Goto(p, "examine")
    /\ disturbed' = (disturbed \/ (marker \notin Free /\ alive[marker[1]]))
    /\ UNCHANGED <<lock, alive, locals, store, writes, calls, draws>>

\* Examine what was moved: drop a dead process's record, put a live one back,
\* and throw on a directory without a record.
Examine(p) ==
    /\ At(p, "examine")
    /\ CASE aside[p] = Empty -> Goto(p, "restore") /\ UNCHANGED aside
         [] aside[p] # Empty /\ alive[aside[p][1]] -> Goto(p, "putBack") /\ UNCHANGED aside
         [] OTHER -> Goto(p, "publishMarker") /\ aside' = [aside EXCEPT ![p] = None]
    /\ UNCHANGED <<lock, marker, alive, disturbed, locals, store, writes, calls, draws>>

PutBack(p) ==
    /\ At(p, "putBack")
    /\ \/ /\ marker \in Free
          /\ marker' = aside[p]
          /\ aside' = [aside EXCEPT ![p] = None]
          /\ Goto(p, "publishMarker")
       \/ marker \notin Free /\ Goto(p, "restore") /\ UNCHANGED <<marker, aside>>
    /\ UNCHANGED <<lock, alive, disturbed, locals, store, writes, calls, draws>>

\* The exception's handler: put the directory back if the path is free by
\* then, otherwise leave it in quarantine for good; the call throws.
Restore(p) ==
    /\ At(p, "restore")
    /\ \/ marker \in Free /\ marker' = aside[p]
       \/ marker # None /\ UNCHANGED marker
    /\ aside' = [aside EXCEPT ![p] = None]
    /\ Leave(p)
    /\ UNCHANGED <<lock, alive, disturbed, store, writes, calls, draws>>

-----------------------------------------------------------------------------
(* tryAcquireRecoveryMarker and the removal it guards. *)

\* Mutant: a marker that is there is replaced.
PublishMarkerOver(p) ==
    /\ At(p, "publishMarker")
    /\ Publish(p)
    /\ marker' = Fresh(p)
    /\ mark' = [mark EXCEPT ![p] = Fresh(p)]
    /\ Goto(p, "reread")
    /\ UNCHANGED <<lock, aside, alive, disturbed, mine, seen, base, verdict, store, writes, calls>>

PublishMarker(p) ==
    /\ At(p, "publishMarker")
    /\ \/ /\ marker \in Free
          /\ Publish(p)
          /\ marker' = Fresh(p)
          /\ mark' = [mark EXCEPT ![p] = Fresh(p)]
          /\ Goto(p, "reread")
          /\ UNCHANGED <<mine, seen, base, verdict>>
       \/ marker \notin Free /\ Retry(p) /\ UNCHANGED <<marker, draws>>
    /\ UNCHANGED <<lock, aside, alive, disturbed, store, writes, calls>>

\* To the finally block of recoverDeadOwnerLock, to return or throw v.
Finally(p, v) ==
    /\ Goto(p, "readOwnMarker")
    /\ verdict' = [verdict EXCEPT ![p] = v]

\* Mutant: the record under the marker is not compared with the one read before.
RereadAny(p) ==
    /\ At(p, "reread")
    /\ \/ lock \notin Free /\ Goto(p, "list") /\ UNCHANGED verdict
       \/ lock \in Free /\ Finally(p, "false")
    /\ UNCHANGED <<files, alive, disturbed, mine, mark, seen, base, store, writes, calls, draws>>

Reread(p) ==
    /\ At(p, "reread")
    /\ \/ lock = seen[p] /\ Goto(p, "list") /\ UNCHANGED verdict
       \/ lock # seen[p] /\ Finally(p, "false")
    /\ UNCHANGED <<files, alive, disturbed, mine, mark, seen, base, store, writes, calls, draws>>

\* readdir of the lock: one entry, owner.json, whosever it is.
List(p) ==
    /\ At(p, "list")
    /\ \/ lock \notin Free /\ Goto(p, "unlinkDead") /\ UNCHANGED verdict
       \/ lock = Empty /\ Finally(p, "false")
       \/ lock = None /\ Finally(p, "throw")
    /\ UNCHANGED <<files, alive, disturbed, mine, mark, seen, base, store, writes, calls, draws>>

UnlinkDead(p) ==
    /\ At(p, "unlinkDead")
    /\ \/ lock \notin Free /\ lock' = Empty /\ Goto(p, "rmdirDead") /\ UNCHANGED verdict
       \/ lock \in Free /\ Finally(p, "throw") /\ UNCHANGED lock
    /\ UNCHANGED <<marker, aside, alive, disturbed, mine, mark, seen, base, store, writes, calls, draws>>

RmdirDead(p) ==
    /\ At(p, "rmdirDead")
    /\ \/ lock = Empty /\ lock' = None /\ Finally(p, "true")
       \/ lock # Empty /\ Finally(p, "throw") /\ UNCHANGED lock
    /\ UNCHANGED <<marker, aside, alive, disturbed, mine, mark, seen, base, store, writes, calls, draws>>

\* releaseRecoveryMarker.
ReadOwnMarker(p) ==
    /\ At(p, "readOwnMarker")
    /\ \/ marker = mark[p] /\ Goto(p, "unlinkMarker") /\ UNCHANGED locals
       \/ marker # mark[p] /\ Leave(p)
    /\ UNCHANGED <<files, alive, disturbed, store, writes, calls, draws>>

UnlinkMarker(p) ==
    /\ At(p, "unlinkMarker")
    /\ \/ marker \notin Free /\ marker' = Empty /\ Goto(p, "rmdirMarker") /\ UNCHANGED locals
       \/ marker \in Free /\ Leave(p) /\ UNCHANGED marker
    /\ UNCHANGED <<lock, aside, alive, disturbed, store, writes, calls, draws>>

\* The marker is gone: go on with the verdict, unless rmdir throws.
RmdirMarker(p) ==
    /\ At(p, "rmdirMarker")
    /\ marker' = IF marker = Empty THEN None ELSE marker
    /\ CASE marker # Empty \/ verdict[p] = "throw" -> Leave(p)
         [] marker = Empty /\ verdict[p] = "false" ->
              /\ mark' = [mark EXCEPT ![p] = None]
              /\ seen' = [seen EXCEPT ![p] = None]
              /\ \E there \in {"acquire", "idle"} : Goto(p, there)
              /\ UNCHANGED <<mine, base, verdict>>
         [] OTHER ->
              /\ mark' = [mark EXCEPT ![p] = None]
              /\ seen' = [seen EXCEPT ![p] = None]
              /\ verdict' = [verdict EXCEPT ![p] = "false"]
              /\ Goto(p, "acquire")
              /\ UNCHANGED <<mine, base>>
    /\ UNCHANGED <<lock, aside, alive, disturbed, store, writes, calls, draws>>

-----------------------------------------------------------------------------
(* The critical section, and the release of the lock. *)

Load(p) ==
    /\ At(p, "load")
    /\ base' = [base EXCEPT ![p] = store]
    /\ Goto(p, "save")
    /\ UNCHANGED <<files, alive, disturbed, mine, mark, seen, verdict, store, writes, calls, draws>>

\* Mutant: the revision counts down.
SaveBefore(p) ==
    /\ At(p, "save")
    /\ store' = base[p] - 1
    /\ writes' = writes + 1
    /\ Goto(p, "readOwn")
    /\ UNCHANGED <<files, alive, disturbed, locals, calls, draws>>

\* The mutator throws, or the next revision replaces the state file.
Save(p) ==
    /\ At(p, "save")
    /\ \/ UNCHANGED <<store, writes>>
       \/ store' = base[p] + 1 /\ writes' = writes + 1
    /\ Goto(p, "readOwn")
    /\ UNCHANGED <<files, alive, disturbed, locals, calls, draws>>

ReadOwn(p) ==
    /\ At(p, "readOwn")
    /\ \/ lock = mine[p] /\ Goto(p, "unlinkOwn") /\ UNCHANGED locals
       \/ lock # mine[p] /\ Leave(p)
    /\ UNCHANGED <<files, alive, disturbed, store, writes, calls, draws>>

UnlinkOwn(p) ==
    /\ At(p, "unlinkOwn")
    /\ \/ lock \notin Free /\ lock' = Empty /\ Goto(p, "rmdirOwn") /\ UNCHANGED locals
       \/ lock \in Free /\ Leave(p) /\ UNCHANGED lock
    /\ UNCHANGED <<marker, aside, alive, disturbed, store, writes, calls, draws>>

\* rmdir fails, and the call throws, when another process took the path first.
RmdirOwn(p) ==
    /\ At(p, "rmdirOwn")
    /\ lock' = IF lock = Empty THEN None ELSE lock
    /\ Leave(p)
    /\ UNCHANGED <<marker, aside, alive, disturbed, store, writes, calls, draws>>

\* A process exits or is killed, between any two file operations.  Its files
\* stay, a quarantine directory nobody will look at again among them.
Exit(p) ==
    /\ alive[p]
    /\ alive' = [alive EXCEPT ![p] = FALSE]
    /\ aside' = [aside EXCEPT ![p] = None]
    /\ Leave(p)
    /\ UNCHANGED <<lock, marker, disturbed, store, writes, calls, draws>>

Next == \E p \in Procs :
    \/ Call(p) \/ Acquire(p) \/ AcquireFails(p) \/ Inspect(p) \/ Check(p)
    \/ ReadMarker(p) \/ CheckMarker(p) \/ Quarantine(p) \/ Examine(p) \/ PutBack(p)
    \/ Restore(p) \/ PublishMarker(p) \/ Reread(p) \/ List(p) \/ UnlinkDead(p)
    \/ RmdirDead(p) \/ ReadOwnMarker(p) \/ UnlinkMarker(p) \/ RmdirMarker(p)
    \/ Load(p) \/ Save(p) \/ ReadOwn(p) \/ UnlinkOwn(p) \/ RmdirOwn(p) \/ Exit(p)

Spec == Init /\ [][Next]_vars

-----------------------------------------------------------------------------
(* Properties. *)

TypeOK ==
    /\ lock \in Dirs /\ marker \in Dirs
    /\ aside \in [Procs -> Dirs]
    /\ alive \in [Procs -> BOOLEAN] /\ pc \in [Procs -> Places]
    /\ mine \in [Procs -> Dirs] /\ mark \in [Procs -> Dirs] /\ seen \in [Procs -> Dirs]
    /\ verdict \in [Procs -> {"false", "true", "throw"}]
    /\ base \in [Procs -> Nat] /\ store \in Nat /\ writes \in Nat
    /\ disturbed \in BOOLEAN
    /\ calls \in [Procs -> 0..MaxCalls] /\ draws \in [Procs -> 0..MaxDraws]

InCallback == {"load", "save"}

\* Until a live process's marker is moved aside (StoreLockRace shows that it can
\* be, and what follows), two live processes are never in their callbacks at
\* once, whoever died where.
MutualExclusion ==
    ~disturbed =>
        \A p, q \in Procs :
            At(p, pc[p]) /\ pc[p] \in InCallback /\ At(q, pc[q]) /\ pc[q] \in InCallback
            => p = q

\* Nor is a revision of the runtime state written over: the state file counts
\* its replacements.
NoLostUpdate == ~disturbed => store = writes

\* The owner.json at the lock is removed by nobody but its owner as long as the
\* owner lives and the markers stay where they are.
RemovedByOwner ==
    [][LET owner == lock[1] IN
       lock \notin Free /\ lock' # lock
       => disturbed \/ ~alive[owner] \/ (mine[owner] = lock /\ pc[owner] = "unlinkOwn")]_vars

\* "Atomic dead-owner recovery removes a published lock only after validating
\* its owner record and proving the recorded process is dead"
\* (worklog/agent-61-night-worker-runtime.md:118): the owner.json of a live
\* process is unlinked by that process alone.
OnlyDeadLocksRemoved ==
    [][LET owner == lock[1] IN
       lock \notin Free /\ lock' # lock
       => ~alive[owner] \/ (mine[owner] = lock /\ pc[owner] = "unlinkOwn")]_vars
=============================================================================
