----------------------------- MODULE MCGateway -----------------------------
\* Constants of Gateway: a route with two chat deployments, one of which takes
\* images, a decision model, and two upstreams, of which Magpie is the default.
EXTENDS Gateway, TLC

CONSTANTS c1, c2, u1, u2, k1, d1, d2, d3, local, other, alias

MCRouteOf == d1 :> local @@ d2 :> local @@ d3 :> other
MCCapsOf == d1 :> {"chat"} @@ d2 :> {"chat", "image"} @@ d3 :> {"decision"}
MCPublished == u1 :> {other, local} @@ u2 :> {alias, other}
MCAliasOf == local :> alias @@ other :> None @@ alias :> None
MCMaxEvents == c1 :> 2 @@ c2 :> 1
MCFirstConfig == [url |-> u1, key |-> k1, sel |-> Models]
MCFallbackEnv == [url |-> u2, key |-> None]
=============================================================================
