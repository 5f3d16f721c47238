----------------------------- MODULE MCThreads -----------------------------
(***************************************************************************)
(* Programs for Threads: three columns of seventeen rows, so that three    *)
(* chunks have rows, with null rows, NaNs and bitmaps padded with ones.    *)
(***************************************************************************)
EXTENDS Threads

MaxRows == 17
ColA == 0
ColB == 20
ColOut == 40

\* Between the columns, and in the column of the results, a value no row has.
Cells(third) ==
  [x \in 0 .. 59 |->
     CASE x \in 0 .. MaxRows - 1 -> IF x = 3 THEN NaN ELSE IF x \in 8 .. 15 /\ third # 0 THEN third ELSE ((5 * x) % 7) - 3
       [] x - ColB \in 0 .. MaxRows - 1 -> x - ColB
       [] OTHER -> 99]

\* Bitmaps of three bytes: all valid but some, every second row, the second byte
\* null, and only the last row.
Bytes ==
  [k \in 0 .. 12 |->
     CASE k = 0 -> {}
       [] k \in 1 .. 3 -> (0 .. 7) \ {k + 2}
       [] k \in 4 .. 6 -> {1, 3, 5, 7}
       [] k = 8 -> {}
       [] k \in {7, 9} -> 0 .. 7
       [] k \in 10 .. 11 -> {}
       [] k = 12 -> 0 .. 7]
Bitmaps3 == {0, 1, 4, 7, 10}

Reduction(kind, kernel, vp, len, after) ==
  [kind |-> kind, kernel |-> kernel, a |-> ColA, b |-> 0, out |-> 0, vp |-> vp, len |-> len, after |-> after]
Elementwise(kernel, b, out, len, after) ==
  [kind |-> "binary", kernel |-> kernel, a |-> ColA, b |-> b, out |-> out, vp |-> 0, len |-> len, after |-> after]
Program(size, third, ops) == [size |-> size, cells |-> Cells(third), bytes |-> Bytes, ops |-> ops]

Kinds ==
  {<<"sum", "sum_f64_null">>, <<"mean", "mean_f64_null">>, <<"min", "min_f64_null">>, <<"max", "max_f64_null">>,
   <<"reduce", "count_null">>, <<"reduce", "sum_f64_null">>}
Lens == {0, 1, 7, 8, 9, 15, 16, 17}

\* One operation.
Alone ==
  {Program(size, third, <<Reduction(k[1], k[2], vp, len, 0)>>) :
     size \in {2, 3}, third \in {NaN, PosInf}, k \in Kinds, vp \in Bitmaps3, len \in Lens}
  \cup {Program(size, 0, <<Elementwise(kernel, b, out, len, 0)>>) :
     size \in {1, 2, 3}, kernel \in BinaryKernels, b \in {ColA, ColB}, out \in {ColA, ColB, ColOut}, len \in {0, 8, 9, 17}}

\* Several at a time: the second awaits the first or not.
Together ==
  {Program(size, 0, <<Reduction(k[1], k[2], vp, 17, 0), Elementwise("add_f64", ColB, ColOut, len, 0),
                      Elementwise("sub_f64", ColB, ColB, 9, 2)>>) :
     size \in {2, 3}, k \in {<<"mean", "mean_f64_null">>}, vp \in {4}, len \in {9, 17}}
  \cup {Program(2, 0, <<Elementwise("sub_f64", ColB, ColA, 17, 0), Reduction(k[1], k[2], vp, len, 1),
                        Reduction("sum", "sum_f64_null", 0, 5, 1)>>) :
     k \in Kinds, vp \in {0, 1}, len \in {8, 17}}

\* Distinct counts of one chunk, which runs alone.
Distinct ==
  {Program(2, 0, <<Reduction("reduce", "nunique_f64_null", vp, len, 0), Elementwise("add_f64", ColB, ColOut, 9, 0)>>) :
     vp \in {0, 1}, len \in {4, 8}}

MCPrograms == Alone \cup Together \cup Distinct

\* Distinct counts of two chunks.
MCDistinct == {Program(2, 0, <<Reduction("reduce", "nunique_f64_null", 0, len, 0)>>) : len \in {9, 12}}
=============================================================================
