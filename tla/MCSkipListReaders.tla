------------------------- MODULE MCSkipListReaders -------------------------
(***************************************************************************)
(* SkipListReaders on small instances.                                     *)
(***************************************************************************)
EXTENDS SkipListReaders, TLC

CONSTANTS v1, w1, w2, r1

WriterSymmetry == Permutations(Writers)
=============================================================================
