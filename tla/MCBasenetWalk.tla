--------------------------- MODULE MCBasenetWalk ---------------------------
(* Instance of BasenetWalk for TLC: batches of four legs, sites of up to      *)
(* three batches.                                                             *)
EXTENDS BasenetWalk
=============================================================================
