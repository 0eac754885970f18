---------------------------- MODULE MCJobRunner ----------------------------
(* An instance of JobRunner for TLC.  Jobs share only the agent's life and *)
(* the loop over their files, so one of them meets every case of its own.  *)
EXTENDS JobRunner

CONSTANT j1
=============================================================================
