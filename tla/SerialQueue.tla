----------------------------- MODULE SerialQueue -----------------------------
(***************************************************************************)
(* What the Night Worker queue promises its submitters: one line of        *)
(* batches served one at a time, in the order they joined.  The batch      *)
(* being served may go back to the head of the line, and a batch that      *)
(* waits too long may be dropped from it; nothing else ever leaves it.     *)
(*                                                                         *)
(* The line is who waits and, of each that waits, who is ahead of it.      *)
(***************************************************************************)
CONSTANTS Batches, NoBatch

VARIABLES
    waiting,  \* the batches in the line
    ahead,    \* of each batch in the line, those that will be served before it
    serving,  \* the batch being served
    outcome   \* how each batch ended, "NONE" until it did

vars == <<waiting, ahead, serving, outcome>>

Init ==
    /\ waiting = {}
    /\ ahead = [b \in Batches |-> {}]
    /\ serving = NoBatch
    /\ outcome = [b \in Batches |-> "NONE"]

\* A batch joins behind everybody.
Join(b) ==
    /\ b \notin waiting \cup {serving}
    /\ outcome[b] = "NONE"
    /\ waiting' = waiting \cup {b}
    /\ ahead' = [ahead EXCEPT ![b] = waiting]
    /\ UNCHANGED <<serving, outcome>>

\* The line once the batches of X gave up and those of R, the one being served
\* or none, went back to its head.
Queue(X, R) == (waiting \ X) \cup R
Ahead(X, R, b) == IF b \in waiting \ X THEN (ahead[b] \ X) \cup R ELSE {}

\* The batches of X end without having been served.
Expire(X) == outcome' = [b \in Batches |-> IF b \in X THEN "EXPIRED" ELSE outcome[b]]

\* The waiting batches of X give up, and so may the one being served.
GiveUp(X) ==
    /\ waiting' = Queue(X, {})
    /\ ahead' = [b \in Batches |-> Ahead(X, {}, b)]
    /\ \/ serving' = serving /\ Expire(X)
       \/ serving' = NoBatch /\ Expire(X \cup {serving})

\* The batch being served goes back to the head of the line.
Return(X) ==
    /\ serving # NoBatch
    /\ waiting' = Queue(X, {serving})
    /\ ahead' = [b \in Batches |-> Ahead(X, {serving}, b)]
    /\ serving' = NoBatch
    /\ Expire(X)

\* The head of the line is served next: the batch that was being served, if
\* there is one, is given up or goes back first and so is the head itself.
Serve(X) ==
    LET Freed == {serving} \cap Batches IN
    \E R \in {{}, Freed} :
        /\ \E b \in Queue(X, R) :
              /\ Ahead(X, R, b) = {}
              /\ serving' = b
              /\ waiting' = Queue(X, R) \ {b}
              /\ ahead' = [c \in Batches |-> IF c = b THEN {} ELSE Ahead(X, R, c) \ {b}]
        /\ Expire(X \cup (Freed \ R))

Finish ==
    /\ serving # NoBatch
    /\ \E o \in {"COMPLETED", "FAILED"} : outcome' = [outcome EXCEPT ![serving] = o]
    /\ serving' = NoBatch
    /\ UNCHANGED <<waiting, ahead>>

Next ==
    \/ \E b \in Batches : Join(b)
    \/ \E X \in SUBSET waiting : GiveUp(X) \/ Return(X) \/ Serve(X)
    \/ Finish

Spec == Init /\ [][Next]_vars
=============================================================================
