---------------------------- MODULE MCTaskEngine ----------------------------
(* Instances of TaskEngine for TLC: two lanes, tasks of each lane.         *)
EXTENDS TaskEngine, TLC

CONSTANTS t1, t2, t3, control, download, k, r1, r2

MCLaneOf == [t \in Tasks |-> IF t = t3 THEN download ELSE control]

(* Request threads are interchangeable.                                    *)
RequestSymmetry == Permutations(Requests)
=============================================================================
