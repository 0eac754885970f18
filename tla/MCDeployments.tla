--------------------------- MODULE MCDeployments ---------------------------
(* Instances of Deployments for TLC: two specifications of deployment A    *)
(* (the second is an edit of the first, and the managed chat template      *)
(* turns the first into it), one of B that leaves the port open.           *)
EXTENDS Deployments, TLC

CONSTANTS a1, a2, b1, d1, d2, d3

MCNameOf == a1 :> "A" @@ a2 :> "A" @@ b1 :> "B"
MCPortOf == a1 :> 1 @@ a2 :> 1 @@ b1 :> AutoPort
MCFixOf == a1 :> a2 @@ a2 :> a2 @@ b1 :> b1
=============================================================================
