---------------------------- MODULE MCController ----------------------------
(* Instances of Controller for TLC. *)
EXTENDS Controller

CONSTANTS t1, t2, t3, t4, t5

\* t1 and t2 touch the same paths, t4 and t5 none of theirs; the pilot's t3 is
\* kept alone by its ceiling.
SomeConflicts == {<<t1, t2>>, <<t2, t1>>} \cap (Tasks \X Tasks)

TwoWorkers == [t \in Tasks |-> 2]

\* What one run explores, in two parts that share their first states: all that
\* can become of the reviewed task alone, once activated, and all that
\* admission, the workers and the leases can do with the five tasks whose HEAD
\* stays, from any two wakeups to the third.
OneTask  == /\ \A r \in Used : TaskOf(r) = t2
            /\ \A t \in Tasks \ {t2} : head[t] = 0
            /\ pilot.id = 0
            /\ generation = 0 \/ activated
AllTasks == /\ \A t \in Tasks : head[t] = 0
            /\ Cardinality(woken) <= 2
OneOrAll == OneTask \/ AllTasks
=============================================================================
