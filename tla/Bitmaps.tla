------------------------------ MODULE Bitmaps ------------------------------
(***************************************************************************)
(* Bitmaps as the kernels and the memory layer lay them out: Arrow's least *)
(* significant bit first, eight rows to a byte.  A bitmap is a function    *)
(* from a byte's offset to the set of its bits that are 1.                 *)
(***************************************************************************)
EXTENDS Integers, FiniteSets

\* The null pointer: no bitmap, every row is valid.
NullPtr == << >>

ByteValues == SUBSET (0 .. 7)

\* ceil(n / 8)
BytesFor(n) == (n + 7) \div 8

\* Elements and their validity.
Column(data, vp) == [data |-> data, vp |-> vp]

Bit(vp, i) == vp = NullPtr \/ i % 8 \in vp[i \div 8]

\* zero_bytes, and then the bits of the given rows.
Packed(n, rows) == [k \in 0 .. BytesFor(n) - 1 |-> {b \in 0 .. 7 : 8 * k + b < n /\ 8 * k + b \in rows}]

\* Full bytes are counted whole, the last one up to the rows' end.
CountValid(vp, n) ==
  LET ones[k \in 0 .. n \div 8] == IF k = 0 THEN 0 ELSE ones[k - 1] + Cardinality(vp[k - 1])
      rest == n % 8 IN
  IF vp = NullPtr THEN n
  ELSE ones[n \div 8] + IF rest = 0 THEN 0 ELSE Cardinality(vp[n \div 8] \cap (0 .. rest - 1))
=============================================================================
