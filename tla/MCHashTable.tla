---------------------------- MODULE MCHashTable ----------------------------
(* Instances of HashTable for TLC.  0 and 8 share a home in every table,   *)
(* 0 and 4 only in the smallest one.                                       *)
EXTENDS HashTable, TLC

Columns(set, lens) == UNION {[1 .. n -> set] : n \in lens}

MCHashes == {0, 4, 8, 3}
MCGroupInputs == Columns(Rows, 0 .. 4) \cup {<<a, b, c, d, e>> \in [1 .. 5 -> Rows] : a # b}
SmallRows == {0, 8, Null}
MCJoinInputs ==
  (Columns(SmallRows, 0 .. 2) \X Columns(SmallRows, 0 .. 3))
  \cup (Columns({0, 4}, {1, 2}) \X Columns({0, 4, 3}, {5}))
  \cup {<<<<0, 0, 0>>, <<0, 0, 0>>>>}
=============================================================================
