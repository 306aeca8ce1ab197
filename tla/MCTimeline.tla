----------------------------- MODULE MCTimeline -----------------------------
(***************************************************************************)
(* Timeline on small instances.                                            *)
(***************************************************************************)
EXTENDS Timeline

CONSTANTS t1, t2, t3

MixedFields == {NoField, 42}
=============================================================================
