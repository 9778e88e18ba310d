---------------------------- MODULE MCExecution -----------------------------
(* Instances of Execution for TLC. *)
EXTENDS Execution

CONSTANTS a, b, c, p1, p2

Bundle(deps, overlap) ==
    [deps |-> deps, overlap |-> overlap,
     position |-> [t \in Tasks |-> CASE t = a -> 1 [] t = b -> 2 [] OTHER -> 3]]

NoDeps == [t \in Tasks |-> {}]

\* c waits for a and shares its scope with b; or a waits for b.
SomeBundles == {Bundle([NoDeps EXCEPT ![c] = {a}], {<<b, c>>, <<c, b>>}),
                Bundle([NoDeps EXCEPT ![a] = {b}, ![c] = {a}], {})}

=============================================================================
