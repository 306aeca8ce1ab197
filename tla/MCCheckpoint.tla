---------------------------- MODULE MCCheckpoint ----------------------------
(***************************************************************************)
(* Checkpoint on small instances.                                          *)
(***************************************************************************)
EXTENDS Checkpoint

CONSTANTS t1, t2
=============================================================================
