----------------------------- MODULE MCOpsPlans -----------------------------
(* Instances of OpsPlans for TLC.                                          *)
EXTENDS OpsPlans, TLC

CONSTANTS s1, p1, p2, t1, t2, t3, t4, r1, r2

(* Request threads, and task and plan identifiers, are interchangeable.    *)
OpsSymmetry == Permutations(Requests) \cup Permutations(Tasks) \cup Permutations(Plans)
=============================================================================
