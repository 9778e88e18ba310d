---------------------------- MODULE MCNightQueue ----------------------------
(***************************************************************************)
(* The instance of NightQueue for TLC.  The batches differ by the place     *)
(* they get and the services by who is steady; there is no symmetry to      *)
(* use, since liveness is checked as well.                                 *)
(***************************************************************************)
EXTENDS NightQueue
=============================================================================
