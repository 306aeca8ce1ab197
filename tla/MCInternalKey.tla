--------------------------- MODULE MCInternalKey ---------------------------
(***************************************************************************)
(* InternalKey with two-valued bytes: all short user keys, among them the  *)
(* empty one and prefixes of others, and all short inputs.                 *)
(***************************************************************************)
EXTENDS InternalKey

BytesUpTo(n) == UNION {[1 .. m -> Byte] : m \in 0 .. n}
ShortKeys == BytesUpTo(1) \cup {<<0, 0>>, <<0, 1>>}
ShortInputs == BytesUpTo(3) \cup {<<0, 0, 0, 0>>, <<0, 1, 0, 1>>, <<1, 1, 1, 1>>}
=============================================================================
