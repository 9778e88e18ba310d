------------------------ MODULE MCControllerJournal -------------------------
(* Instances of ControllerJournal for TLC. *)
EXTENDS ControllerJournal

CONSTANTS p1, p2, h1, h2, h3

Taken(h) == Recovered.used[h] # Unused \/ \E p \in Procs : op[p].human = h

\* The second process dispatches and rotates only.  The authorizations come in
\* order; a third one, or a third grant, is for the first process alone, once
\* the first authorization has been used.
InOrder ==
    /\ op[p2].kind \in {"none", "dispatch", "rotate"}
    /\ Taken(h2) => Taken(h1)
    /\ Taken(h3) => Recovered.used[h1] # Unused /\ Recovered.used[h2] # Unused
    /\ Taken(h3) \/ issued = 3 => pc[p2] = "idle" /\ Recovered.used[h1] # Unused
=============================================================================
