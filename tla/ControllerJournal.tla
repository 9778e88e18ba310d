------------------------- MODULE ControllerJournal --------------------------
(***************************************************************************)
(* How the controller's state is kept (controller-state-engine) and what   *)
(* the administration of the one-time pilot does with it and with the      *)
(* grant files (pilot-admin-engine, authority-admin): the mutex directory, *)
(* the append-only journal, the state file written after it, and the       *)
(* canonical grant with its archive.                                       *)
(*                                                                         *)
(* One file operation of a call may throw (the rollback of a rotation that *)
(* threw meets no second error), and the process may die between any two.  *)
(* A process that dies, or that cannot remove the mutex, leaves it to      *)
(* nobody; no code reclaims it.  The transactions are the four that touch  *)
(* the pilot; those of Controller go the same way, and the leases and runs *)
(* kept there make these four refuse more than here.  A call reads the     *)
(* clock when it begins, so it keeps the set of grants expired by then.    *)
(***************************************************************************)
EXTENDS Integers, Sequences

CONSTANTS Procs,    \* processes of the controller and its administration
          NoProc,
          Orphan,   \* holder of a mutex whose process died
          Humans,   \* human authorization ids
          NoHuman,
          MaxGrants \* bound: grants installed

ASSUME JournalAssumption ==
    /\ NoProc \notin Procs /\ Orphan \notin Procs /\ NoProc # Orphan
    /\ NoHuman \notin Humans
    /\ MaxGrants \in Nat \ {0}

Grants  == 1..MaxGrants
NoGrant == 0

VARIABLES
    mutex,     \* who made .controller-mutex
    journal,   \* controller-journal.jsonl: sequence number and snapshot of each event
    torn,      \* its last line is incomplete: no reader accepts the journal
    file,      \* controller-state.json
    canonical, \* the installed grant
    archive,   \* archived grants
    issued,    \* grants installed so far
    expired,   \* grants past their expiry
    pc,        \* where each process stands
    op         \* its call

grantVars == <<canonical, archive, issued, expired>>
stateVars == <<journal, torn, file>>
vars      == <<mutex, stateVars, grantVars, pc, op>>

Unused == [act |-> "none", old |-> NoGrant, new |-> NoGrant]

\* emptyControllerState, of which the pilot's part and the histories matter.
Empty ==
    [next |-> 1, status |-> "DISABLED", grant |-> NoGrant, by |-> NoHuman,
     used |-> [h \in Humans |-> Unused]]

NoCall == [kind |-> "none", human |-> NoHuman, grant |-> NoGrant, late |-> {}]

Init ==
    /\ mutex = NoProc
    /\ journal = <<>> /\ torn = FALSE /\ file = Empty
    /\ canonical = NoGrant /\ archive = {} /\ issued = 0 /\ expired = {}
    /\ pc = [p \in Procs |-> "idle"]
    /\ op = [p \in Procs |-> NoCall]

Goto(p, label) == pc' = [pc EXCEPT ![p] = label]

\* The call of p is over.
End(p) == Goto(p, "idle") /\ op' = [op EXCEPT ![p] = NoCall]

-----------------------------------------------------------------------------
(* recoverControllerState and mutateControllerStateUnderMutex. *)

\* replayControllerJournal finds no gap in lines that can all be read.
Replays == ~torn /\ \A i \in 1..Len(journal) : journal[i].sequence = i

\* Mutant: the state is read from its file.
RecoveredFile == file

\* The last snapshot of the journal, if there is one.
Recovered == IF journal = <<>> THEN file ELSE journal[Len(journal)].snapshot

\* A mutation turned the recovered state into s: the event is appended.
Append1(s) ==
    journal' = Append(journal, [sequence |-> Recovered.next,
                                snapshot |-> [s EXCEPT !.next = Recovered.next + 1]])

\* What the call of p makes of state s.
Used(s, h, act, old, new) == [s.used EXCEPT ![h] = [act |-> act, old |-> old, new |-> new]]

Changed(p, s) ==
    LET call == op[p] IN
    CASE call.kind = "enable"   -> [s EXCEPT !.status = "READY", !.grant = call.grant, !.by = call.human,
                                             !.used = Used(s, call.human, "enabled", call.grant, NoGrant)]
      [] call.kind = "dispatch" -> [s EXCEPT !.status = "CONSUMED"]
      [] call.kind = "retire"   -> [s EXCEPT !.status = "RETIRED",
                                             !.used = Used(s, call.human, "retired", s.grant, NoGrant)]
      [] OTHER                  -> [s EXCEPT !.used = Used(s, call.human, "rotated", call.grant, canonical)]

\* Mutant: an id that was used in another history is new.
FreshInEnabled(s, h) == s.used[h].act # "enabled"

\* The human authorization id is in none of the three histories.
Fresh(s, h) == s.used[h] = Unused

\* assertRotationStateSafe, for the grant to be rotated.
RotationSafe(s, h, old) ==
    /\ s.status # "READY"
    /\ s.status = "RETIRED" => s.grant = old
    /\ Fresh(s, h)

\* The guards of the four transactions.
Allowed(p, s) ==
    LET call == op[p] IN
    \/ call.kind = "enable" /\ s.status # "READY" /\ Fresh(s, call.human)
    \/ call.kind = "dispatch" /\ s.status = "READY" /\ s.grant = call.grant /\ s.by = call.human
    \/ call.kind = "retire" /\ s.status = "READY" /\ s.grant = canonical
          /\ canonical \in call.late /\ Fresh(s, call.human)
    \/ call.kind = "rotate" /\ pc[p] = "installed" /\ RotationSafe(s, call.human, call.grant)

\* The event is in the journal; from here on the act has happened.
Commit(p) ==
    /\ pc[p] = IF op[p].kind = "rotate" THEN "installed" ELSE "inside"
    /\ Replays
    /\ Allowed(p, Recovered)
    /\ Append1(Changed(p, Recovered))
    /\ op' = [op EXCEPT ![p].late = {}]
    /\ Goto(p, "written")
    /\ UNCHANGED <<mutex, torn, file, grantVars>>

\* Appending the line fails halfway.
Tear(p) ==
    /\ pc[p] = IF op[p].kind = "rotate" THEN "installed" ELSE "inside"
    /\ Replays
    /\ Allowed(p, Recovered)
    /\ torn' = TRUE
    /\ Goto(p, IF op[p].kind = "rotate" THEN "failed" ELSE "releasing")
    /\ UNCHANGED <<mutex, journal, file, grantVars, op>>

Save(p) ==
    /\ pc[p] = "written"
    /\ file' = Recovered
    /\ Goto(p, "releasing")
    /\ UNCHANGED <<mutex, journal, torn, grantVars, op>>

\* The transaction throws: a guard, a reader or the state file's write.
Fail(p) ==
    /\ pc[p] \in {"inside", "archived", "installed", "written"}
    /\ Goto(p, IF pc[p] = "installed" \/ (pc[p] = "written" /\ op[p].kind = "rotate")
               THEN "failed" ELSE "releasing")
    /\ UNCHANGED <<mutex, stateVars, grantVars, op>>

-----------------------------------------------------------------------------
(* The mutex. *)

\* A call begins with what it reads before it has the mutex: enabling the grant,
\* a dispatch the grant and the activation too, the others the clock.
Call(p, kind, h) ==
    /\ pc[p] = "idle"
    /\ canonical # NoGrant
    /\ kind \in {"enable", "dispatch"} => canonical \notin expired
    /\ kind = "dispatch" => Replays /\ Recovered.status = "READY" /\ Recovered.by = h
    /\ op' = [op EXCEPT ![p] =
                 IF kind \in {"enable", "dispatch"}
                 THEN [kind |-> kind, human |-> h, grant |-> canonical, late |-> {}]
                 ELSE [kind |-> kind, human |-> h, grant |-> NoGrant, late |-> expired]]
    /\ Goto(p, "waiting")
    /\ UNCHANGED <<mutex, stateVars, grantVars>>

Acquire(p) ==
    /\ pc[p] = "waiting"
    /\ mutex = NoProc
    /\ mutex' = p
    /\ Goto(p, "inside")
    /\ UNCHANGED <<stateVars, grantVars, op>>

\* Mutant: it waits for as long as it takes.
TimeOutNever(p) == FALSE /\ UNCHANGED vars

TimeOut(p) ==
    /\ pc[p] = "waiting"
    /\ mutex # NoProc
    /\ End(p)
    /\ UNCHANGED <<mutex, stateVars, grantVars>>

Release(p) ==
    /\ pc[p] = "releasing"
    /\ mutex = p
    /\ mutex' = NoProc
    /\ End(p)
    /\ UNCHANGED <<stateVars, grantVars>>

\* The process dies, or throws where it cannot even clean up.
Crash(p) ==
    /\ pc[p] # "idle"
    /\ mutex' = IF mutex = p THEN Orphan ELSE mutex
    /\ End(p)
    /\ UNCHANGED <<stateVars, grantVars>>

\* The separately authorized recovery path for a mutex whose process is gone.
Reclaim ==
    /\ mutex = Orphan
    /\ mutex' = NoProc
    /\ UNCHANGED <<stateVars, grantVars, pc, op>>

-----------------------------------------------------------------------------
(* Grants. *)

\* issueAndInstallSyntheticPilotGrant, which replaces nothing and takes no mutex.
InstallFirst ==
    /\ canonical = NoGrant
    /\ canonical' = issued + 1 /\ issued' = issued + 1
    /\ UNCHANGED <<mutex, stateVars, archive, expired, pc, op>>

Expire ==
    /\ canonical # NoGrant
    /\ canonical \notin expired
    /\ expired' = expired \cup {canonical}
    /\ UNCHANGED <<mutex, stateVars, canonical, archive, issued, pc, op>>

\* rotateExpiredSyntheticPilotGrant: the checks, and the old bytes archived.
Archive(p) ==
    /\ pc[p] = "inside"
    /\ op[p].kind = "rotate"
    /\ issued < MaxGrants
    /\ canonical \in op[p].late
    /\ Replays
    /\ RotationSafe(Recovered, op[p].human, canonical)
    /\ canonical \notin archive
    /\ archive' = archive \cup {canonical}
    /\ op' = [op EXCEPT ![p].grant = canonical, ![p].late = {}]
    /\ Goto(p, "archived")
    /\ UNCHANGED <<mutex, stateVars, canonical, issued, expired>>

\* The fresh grant is renamed over the canonical one.
Install(p) ==
    /\ pc[p] = "archived"
    /\ canonical' = issued + 1 /\ issued' = issued + 1
    /\ Goto(p, "installed")
    /\ UNCHANGED <<mutex, stateVars, archive, expired, op>>

\* rotationRecorded.
RotationRecorded(p) ==
    Replays /\ Recovered.used[op[p].human] = [act |-> "rotated", old |-> op[p].grant, new |-> canonical]

\* Mutants: whatever failed is rolled back; nothing is.
RollBackAlways(p) ==
    /\ pc[p] = "failed"
    /\ canonical' = op[p].grant
    /\ Goto(p, "releasing")
    /\ UNCHANGED <<mutex, stateVars, archive, issued, expired, op>>
RollBackNothing(p) ==
    /\ pc[p] = "failed"
    /\ Goto(p, "releasing")
    /\ UNCHANGED <<mutex, stateVars, grantVars, op>>

\* The rotation threw after its grant was installed: unless the journal has it,
\* the old bytes are put back.
RollBack(p) ==
    /\ pc[p] = "failed"
    /\ canonical' = IF RotationRecorded(p) THEN canonical ELSE op[p].grant
    /\ Goto(p, "releasing")
    /\ UNCHANGED <<mutex, stateVars, archive, issued, expired, op>>

-----------------------------------------------------------------------------
\* What process p itself does next in a call.
Step(p) ==
    \/ Acquire(p) \/ TimeOut(p) \/ Fail(p) \/ Release(p) \/ RollBack(p)
    \/ Save(p) \/ Install(p) \/ Archive(p) \/ Commit(p) \/ Tear(p)

Next ==
    \/ \E p \in Procs :
          \/ \E kind \in {"enable", "dispatch", "retire", "rotate"}, h \in Humans :
                Call(p, kind, h)
          \/ Step(p) \/ Crash(p)
    \/ Reclaim \/ InstallFirst \/ Expire

Fairness == \A p \in Procs : WF_vars(Step(p))

Spec == Init /\ [][Next]_vars /\ Fairness

-----------------------------------------------------------------------------
(* Properties. *)

Acts == {"none", "enabled", "retired", "rotated"}

SnapshotType ==
    [next : Nat \ {0}, status : {"DISABLED", "READY", "CONSUMED", "RETIRED"},
     grant : Grants \cup {NoGrant}, by : Humans \cup {NoHuman},
     used : [Humans -> [act : Acts, old : Grants \cup {NoGrant}, new : Grants \cup {NoGrant}]]]

\* Every variable keeps its type.
TypeOK ==
    /\ mutex \in Procs \cup {NoProc, Orphan}
    /\ journal \in Seq([sequence : Nat \ {0}, snapshot : SnapshotType])
    /\ torn \in BOOLEAN
    /\ file \in SnapshotType
    /\ canonical \in Grants \cup {NoGrant}
    /\ archive \subseteq Grants
    /\ issued \in 0..MaxGrants
    /\ expired \subseteq Grants
    /\ pc \in [Procs -> {"idle", "waiting", "inside", "archived", "installed", "written",
                         "failed", "releasing"}]
    /\ op \in [Procs -> [kind : {"none", "enable", "dispatch", "retire", "rotate"},
                         human : Humans \cup {NoHuman}, grant : Grants \cup {NoGrant},
                         late : SUBSET Grants]]

\* Unless a line is torn the journal replays, whatever died between an append
\* and the write of the state file, and that file is never ahead of it
\* (controller-state-engine.mjs:129-163, 197-229).
JournalReplays ==
    /\ ~torn => Replays
    /\ file = Empty \/ \E i \in 1..Len(journal) : file = journal[i].snapshot

\* A rotation in the journal has its old grant in the archive, and its new one
\* in force or archived in its turn: no error or crash leaves an audit record
\* of a grant that is gone (pilot-admin-engine.mjs:645-744).
RotatedGrantsKept ==
    \A h \in Humans :
        LET use == Recovered.used[h] IN
        use.act = "rotated" => use.old \in archive /\ use.new \in archive \cup {canonical}

\* When a rotation comes to its end, the canonical grant is the one it found or
\* the one the journal says it installed (pilot-admin-engine.mjs:707-741).
RotationsWhole ==
    \A p \in Procs :
        pc[p] = "releasing" /\ op[p].kind = "rotate" /\ op[p].grant # NoGrant =>
            canonical = op[p].grant \/ RotationRecorded(p)

PL == INSTANCE PilotLedger WITH ledger <- [status |-> Recovered.status, grant |-> Recovered.grant,
                                           used |-> Recovered.used]

\* The journal, with its crashes, errors and concurrent callers, is a ledger of
\* whole acts, none of them lost, repeated or undone.
ImplementsPilotLedger == PL!Spec

\* Every call ends, the one that waits for a mutex nobody will release too
\* (controller-state-engine.mjs:73-104).
EveryCallEnds == \A p \in Procs : pc[p] # "idle" ~> pc[p] = "idle"
=============================================================================
