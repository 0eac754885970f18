---------------------------- MODULE MCModelFiles ----------------------------
(* Instances of ModelFiles for TLC.                                        *)
EXTENDS ModelFiles

CONSTANTS f1, f2
=============================================================================
