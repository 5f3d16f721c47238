------------------------------- MODULE Select -------------------------------
(***************************************************************************)
(* The selection kernels (select.rs): filter, gather, argsort and topk.    *)
(* A permutation and a list of row indices are sequences of rows, a row    *)
(* counts from 0.                                                          *)
(***************************************************************************)
EXTENDS Bitmaps, Scalars, SequencesExt

CONSTANT InitRun   \* rows of a run sorted by insertion, 16 in the code

ASSUME InitRunAssumption == InitRun \in Nat \ {0}

-----------------------------------------------------------------------------
(* Filter and gather.                                                      *)

TailBits(mask, n) == mask[n \div 8] \cap (0 .. (n % 8) - 1)

\* The bits of a byte from the lowest to the highest.
RowsOf(byte, base) ==
  LET rows[b \in 0 .. 8] ==
        IF b = 0 THEN << >> ELSE IF b - 1 \in byte THEN Append(rows[b - 1], base + b - 1) ELSE rows[b - 1]
  IN rows[8]

FilterIndices(mask, n) ==
  LET full[k \in 0 .. n \div 8] ==
        IF k = 0 THEN << >> ELSE full[k - 1] \o RowsOf(mask[k - 1], 8 * (k - 1)) IN
  full[n \div 8] \o IF n % 8 = 0 THEN << >> ELSE RowsOf(TailBits(mask, n), 8 * (n \div 8))

\* A SIMD build copies the eight rows of a full byte at once.
Filter(data, mask, n) ==
  LET rows == FilterIndices(mask, n) IN [k \in 1 .. Len(rows) |-> data[rows[k]]]

Gather(data, idx) == [k \in 0 .. Len(idx) - 1 |-> data[idx[k + 1]]]

\* It writes nothing for no index, and a null pointer is not one of its inputs.
GatherValidity(vp, idx, out) ==
  IF Len(idx) = 0 THEN out
  ELSE LET bits == Packed(Len(idx), {k \in 0 .. Len(idx) - 1 : Bit(vp, idx[k + 1])}) IN
       [k \in DOMAIN out |-> IF k \in DOMAIN bits THEN bits[k] ELSE out[k]]

-----------------------------------------------------------------------------
(* argsort: NaN is the largest value, and a null comes last in both orders. *)

Over(v, w) == (v = NaN /\ w # NaN) \/ Below(w, v)

\* Mutant: a null is the largest value.
PrecedesNullsFirst(col, desc, x, y) ==
  LET Bigger(i, j) == \/ ~Bit(col.vp, i) /\ Bit(col.vp, j)
                      \/ Bit(col.vp, i) /\ Bit(col.vp, j) /\ Over(col.data[i], col.data[j])
  IN IF desc THEN Bigger(x, y) ELSE Bigger(y, x)

Precedes(col, desc, x, y) ==
  /\ Bit(col.vp, x)
  /\ Bit(col.vp, y) =>
       IF desc THEN Over(col.data[x], col.data[y]) ELSE Over(col.data[y], col.data[x])

\* An order is the set of the pairs of rows whose first comes before the second.
\* The row at i moves in front of those behind lo that it precedes, from the end.
Insert(perm, lo, i, order) ==
  LET key == perm[i]
      at == CHOOSE j \in lo .. i - 1 : /\ \A k \in j + 1 .. i - 1 : <<key, perm[k]>> \in order
                                       /\ j > lo => <<key, perm[j]>> \notin order
  IN [k \in DOMAIN perm |->
       IF k = at + 1 THEN key ELSE IF k \in at + 2 .. i THEN perm[k - 1] ELSE perm[k]]

\* Every run of that many rows, by insertion.
InsertionSort(perm, run, order) ==
  LET sorted[i \in 0 .. Len(perm)] ==
        IF i = 0 THEN perm ELSE Insert(sorted[i - 1], (i - 1) - ((i - 1) % run), i, order)
  IN sorted[Len(perm)]

\* The left run has been copied out and is merged back with the right one, in its
\* place; equals come from the left first.
MergeStep(m, left, lo, hi, order) ==
  LET out == lo + m.l + m.r + 1
      right == lo + Len(left) + m.r + 1 IN
  IF m.l = Len(left) THEN m
  ELSE IF right <= hi /\ <<m.perm[right], left[m.l + 1]>> \in order
  THEN [m EXCEPT !.perm[out] = m.perm[right], !.r = @ + 1]
  ELSE [m EXCEPT !.perm[out] = left[m.l + 1], !.l = @ + 1]

Merge(perm, lo, mid, hi, order) ==
  LET left == SubSeq(perm, lo + 1, mid)
      merged[k \in 0 .. hi - lo] ==
        IF k = 0 THEN [l |-> 0, r |-> 0, perm |-> perm]
        ELSE MergeStep(merged[k - 1], left, lo, hi, order)
  IN IF mid < hi THEN merged[hi - lo].perm ELSE perm

\* Every two runs of width rows; the last of them ends with the rows.
MergePass(perm, width, order) ==
  LET End(k) == IF k < Len(perm) THEN k ELSE Len(perm)
      passed[k \in 0 .. Len(perm)] ==
        IF k = 0 THEN perm
        ELSE IF (k - 1) % (2 * width) = 0
        THEN Merge(passed[k - 1], k - 1, End(k - 1 + width), End(k - 1 + 2 * width), order)
        ELSE passed[k - 1]
  IN passed[Len(perm)]

Doubled(s, order) ==
  IF s.width < Len(s.perm)
  THEN [width |-> 2 * s.width, perm |-> MergePass(s.perm, s.width, order)]
  ELSE s

StableSort(perm, order) ==
  LET passes[k \in 0 .. Len(perm)] ==
        IF k = 0 THEN [width |-> InitRun, perm |-> InsertionSort(perm, InitRun, order)]
        ELSE Doubled(passes[k - 1], order)
  IN IF Len(perm) <= 1 THEN perm ELSE passes[Len(perm)].perm

Argsort(col, perm, desc) ==
  StableSort(perm, {p \in ToSet(perm) \X ToSet(perm) : Precedes(col, desc, p[1], p[2])})

-----------------------------------------------------------------------------
(* topk: a heap of the rows kept, the first to be replaced at its root.    *)

\* Mutant: of equal values the first is replaced.
HeapLessFirst(col, largest, a, b) ==
  LET v == col.data[a]
      w == col.data[b] IN
  IF largest THEN Over(w, v) \/ (~Over(v, w) /\ a < b) ELSE Over(v, w) \/ (~Over(w, v) /\ a < b)

HeapLess(col, largest, a, b) ==
  LET v == col.data[a]
      w == col.data[b] IN
  IF largest THEN Over(w, v) \/ (~Over(v, w) /\ a > b) ELSE Over(v, w) \/ (~Over(w, v) /\ a > b)

OutputLess(col, largest, a, b) ==
  LET v == col.data[a]
      w == col.data[b] IN
  IF largest THEN Over(v, w) \/ (~Over(w, v) /\ a < b) ELSE Over(w, v) \/ (~Over(v, w) /\ a < b)

WorseChild(heap, pos, order) ==
  IF 2 * pos < Len(heap) /\ <<heap[2 * pos + 1], heap[2 * pos]>> \in order THEN 2 * pos + 1 ELSE 2 * pos

\* Positions count from 1: the children of one are at its double and behind it.
\* Where no child is to be replaced before the row at s.at the loop ends.
SiftStep(s, order) ==
  LET c == WorseChild(s.heap, s.at, order) IN
  IF 2 * s.at <= Len(s.heap) /\ <<s.heap[c], s.heap[s.at]>> \in order
  THEN [heap |-> [s.heap EXCEPT ![s.at] = s.heap[c], ![c] = s.heap[s.at]], at |-> c]
  ELSE s

SiftDown(heap, start, order) ==
  LET sift[i \in 0 .. Len(heap)] ==
        IF i = 0 THEN [heap |-> heap, at |-> start] ELSE SiftStep(sift[i - 1], order)
  IN sift[Len(heap)].heap

\* From the last row that has a child to the root.
HeapBuild(heap, order) ==
  LET half == Len(heap) \div 2
      built[i \in 0 .. half] == IF i = 0 THEN heap ELSE SiftDown(built[i - 1], half - i + 1, order)
  IN built[half]

\* A row is offered to the k rows kept.
Offer(heap, row, k, vp, order) ==
  IF ~Bit(vp, row) THEN heap
  ELSE IF Len(heap) < k
    THEN IF Len(heap) + 1 = k THEN HeapBuild(Append(heap, row), order) ELSE Append(heap, row)
  ELSE IF <<heap[1], row>> \in order THEN SiftDown([heap EXCEPT ![1] = row], 1, order) ELSE heap

TopK(col, k, n, largest) ==
  LET rows == 0 .. n - 1
      worse == {p \in rows \X rows : HeapLess(col, largest, p[1], p[2])}
      before == {p \in rows \X rows : OutputLess(col, largest, p[1], p[2])}
      kept[i \in 0 .. n] == IF i = 0 THEN << >> ELSE Offer(kept[i - 1], i - 1, k, col.vp, worse)
  IN IF k = 0 \/ n = 0 THEN << >> ELSE InsertionSort(kept[n], k, before)
=============================================================================
