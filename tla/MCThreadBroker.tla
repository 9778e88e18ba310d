--------------------------- MODULE MCThreadBroker ---------------------------
(* Instances of ThreadBroker for TLC. *)
EXTENDS ThreadBroker, TLC

CONSTANTS b1

\* Every worker is a task of the one batch.
OneBatch == [w \in Workers |-> b1]

Symmetry == Permutations(Workers) \cup Permutations(Procs)
=============================================================================
