---------------------------- MODULE MCNodeLayout ----------------------------
(***************************************************************************)
(* NodeLayout on small instances: a node without data and two levels, the  *)
(* head's kind; one whose key and value end in the middle of a word; and   *)
(* one whose key is too long for the length field.                         *)
(***************************************************************************)
EXTENDS NodeLayout

CONSTANTS t1, t2

SmallShapes ==
  { [key |-> << >>, value |-> << >>, height |-> 1],
    [key |-> <<1, 2, 3>>, value |-> <<4, 5, 6, 7, 8, 9, 10>>, height |-> 0],
    [key |-> <<1, 2, 3, 4, 5, 6, 7, 8, 9>>, value |-> <<1>>, height |-> 0] }

SmallSizes == {NodeSize(s) : s \in SmallShapes}
=============================================================================
