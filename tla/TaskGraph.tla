----------------------------- MODULE TaskGraph ------------------------------
(***************************************************************************)
(* What executing a batch promises, whoever executes it and however often: *)
(* one accepted plan bundle, each of its tasks worked on at most once and  *)
(* only after the tasks it depends on have succeeded.                      *)
(***************************************************************************)
CONSTANTS Tasks, Bundles, NoBundle

VARIABLES
    graph,  \* the accepted bundle
    work    \* how far the work on each task is

vars == <<graph, work>>

Init ==
    /\ graph = NoBundle
    /\ work = [t \in Tasks |-> "none"]

Accept(b) ==
    /\ graph = NoBundle
    /\ graph' = b
    /\ UNCHANGED work

Begin(t) ==
    /\ graph # NoBundle
    /\ work[t] = "none"
    /\ \A d \in graph.deps[t] : work[d] = "succeeded"
    /\ work' = [work EXCEPT ![t] = "running"]
    /\ UNCHANGED graph

End(t) ==
    /\ work[t] = "running"
    /\ \E outcome \in {"succeeded", "failed"} : work' = [work EXCEPT ![t] = outcome]
    /\ UNCHANGED graph

Next ==
    \/ \E b \in Bundles : Accept(b)
    \/ \E t \in Tasks : Begin(t) \/ End(t)

Spec == Init /\ [][Next]_vars
=============================================================================
