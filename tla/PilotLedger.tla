---------------------------- MODULE PilotLedger -----------------------------
(***************************************************************************)
(* What the administration of the one-time pilot promises: one activation  *)
(* at a time, every human authorization id good for one act, each act      *)
(* whole and never undone.                                                 *)
(***************************************************************************)
CONSTANTS Humans, Grants

VARIABLE ledger

Unused == [act |-> "none", old |-> 0, new |-> 0]

Init == ledger = [status |-> "DISABLED", grant |-> 0, used |-> [h \in Humans |-> Unused]]

\* Authorization h, not used before, is used for an act.
Use(h, act, old, new) == [ledger.used EXCEPT ![h] = [act |-> act, old |-> old, new |-> new]]

Enable(h, g) ==
    /\ ledger.status # "READY"
    /\ ledger.used[h] = Unused
    /\ ledger' = [status |-> "READY", grant |-> g, used |-> Use(h, "enabled", g, 0)]

Consume ==
    /\ ledger.status = "READY"
    /\ ledger' = [ledger EXCEPT !.status = "CONSUMED"]

Retire(h) ==
    /\ ledger.status = "READY"
    /\ ledger.used[h] = Unused
    /\ ledger' = [status |-> "RETIRED", grant |-> ledger.grant,
                  used |-> Use(h, "retired", ledger.grant, 0)]

Rotate(h, old, new) ==
    /\ ledger.status # "READY"
    /\ ledger.status = "RETIRED" => ledger.grant = old
    /\ ledger.used[h] = Unused
    /\ ledger' = [ledger EXCEPT !.used = Use(h, "rotated", old, new)]

Next ==
    \/ \E h \in Humans, g \in Grants : Enable(h, g)
    \/ Consume
    \/ \E h \in Humans : Retire(h)
    \/ \E h \in Humans, old, new \in Grants : Rotate(h, old, new)

Spec == Init /\ [][Next]_ledger
=============================================================================
