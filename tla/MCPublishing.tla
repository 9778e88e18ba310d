---------------------------- MODULE MCPublishing ----------------------------
(* Instances of Publishing for TLC. *)
EXTENDS Publishing

CONSTANTS t1, t2, c1, c2

Untaken(first) ==
    \A i \in first..Len(roles) : roles[i].state \in {"QUEUED", "COMPLETED"}

\* Each caller has a task of its own, to draft, then review (the second's after
\* the first's), then merge; or ...
TwoTasks ==
    /\ TaskOf(c1) # t2 /\ TaskOf(c2) # t1
    /\ \A c \in Callers :
          work[c].op \in CASE roles = <<>>   -> {"none", "draft", "review"}
                           [] Len(roles) = 1 -> {"none", "review"}
                           [] OTHER          -> {"none", "review", "merge"}
    /\ roles # <<>> => roles[1].task = t1 /\ \A t \in Tasks : pr[t] # "none"
    /\ batch.over /\ Untaken(1)
    /\ moved => \E t \in Tasks : merged[t] # 0
    /\ Len(roles) <= 2

\* ... both have the first task: the second caller drafts it, or corrects it
\* after the first review; the service takes no role batch but the first; from
\* the second on, the batch is over and main stays.
OneTask ==
    /\ TaskOf(c1) # t2 /\ TaskOf(c2) # t2
    /\ remote[t2] = 0 /\ \A i \in 1..Len(roles) : roles[i].task = t1
    /\ work[c2].op \in CASE Len(roles) < 2 -> {"none", "draft", "correct"}
                         [] Len(roles) = 2 -> {"none", "correct"}
                         [] OTHER          -> {"none", "draft"}
    /\ Untaken(2)
    /\ Len(roles) > 1 => batch.over /\ ~moved
    /\ Len(roles) > 2 => Untaken(1)

Bounds == OneTask \/ TwoTasks
=============================================================================
