----------------------------- MODULE MCStoreLock -----------------------------
(***************************************************************************)
(* Small instances of StoreLock for TLC.                                   *)
(***************************************************************************)
EXTENDS StoreLock, TLC

\* The processes that are alive at first are interchangeable.
Symmetry == Permutations(Procs \ {LockLeftBy, MarkerLeftBy})
=============================================================================
