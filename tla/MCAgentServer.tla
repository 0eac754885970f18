--------------------------- MODULE MCAgentServer ---------------------------
(* A small instance of AgentServer: see AgentServer.cfg.                   *)
EXTENDS AgentServer, TLC

CONSTANTS a, b

MCKindOf == a :> "read" @@ b :> "shell"

(* Connections and threads are interchangeable.                            *)
Symmetry == Permutations(Conns) \cup Permutations(Handlers)
=============================================================================
