---------------------------- MODULE PlanLifecycle ----------------------------
(***************************************************************************)
(* What an operation plan promises its administrators, from                *)
(* docs/ARCHITECTURE.md, AI Operations Lifecycle, and the history-clear    *)
(* rule: a plan is decided once, only an approved plan is executed, its    *)
(* execution ends once, and the history of unfinished work is kept.        *)
(***************************************************************************)
CONSTANT Plans

VARIABLE status

PlanStatus ==
    {"absent", "pending", "approved", "rejected", "executing", "completed", "failed", "deleted"}

Init == status = [p \in Plans |-> "absent"]

Propose(p) == status[p] = "absent" /\ status' = [status EXCEPT ![p] = "pending"]

Decide(p) ==
    /\ status[p] = "pending"
    /\ \E decision \in {"approved", "rejected"} : status' = [status EXCEPT ![p] = decision]

Execute(p) == status[p] = "approved" /\ status' = [status EXCEPT ![p] = "executing"]

Conclude(p) ==
    /\ status[p] = "executing"
    /\ \E outcome \in {"completed", "failed"} : status' = [status EXCEPT ![p] = outcome]

(* One call clears all history, and only when no plan is unfinished.       *)
Clear ==
    /\ \A p \in Plans : status[p] \notin {"approved", "executing"}
    /\ status' = [p \in Plans |-> IF status[p] = "absent" THEN "absent" ELSE "deleted"]

Next ==
    \/ \E p \in Plans : Propose(p) \/ Decide(p) \/ Execute(p) \/ Conclude(p)
    \/ Clear

Spec == Init /\ [][Next]_status
=============================================================================
