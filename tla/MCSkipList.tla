----------------------------- MODULE MCSkipList -----------------------------
(***************************************************************************)
(* SkipList on small instances.                                            *)
(***************************************************************************)
EXTENDS SkipList, TLC

CONSTANTS v1, v2, w1, w2, w3

WriterSymmetry == Permutations(Writers)
=============================================================================
