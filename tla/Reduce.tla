------------------------------- MODULE Reduce -------------------------------
(***************************************************************************)
(* The reduction kernels (reduce.rs).  A reduction reads a column's first  *)
(* n rows; a null row's bytes may hold anything, NaN too.                  *)
(***************************************************************************)
EXTENDS Bitmaps, Scalars, Sequences, FiniteSetsExt

CONSTANT NuniqueCap   \* entries of nunique's stack buffer, 512 in the code

ASSUME NuniqueCapAssumption == NuniqueCap \in Nat \ {0}

\* A trap: the kernel panics and the call throws in JavaScript.
Trap == -1

Valid(a, i) == Bit(a.vp, i)

count_null(a, n) == CountValid(a.vp, n)

-----------------------------------------------------------------------------
(* Sums.  Row i goes to accumulator i % k, a null row adds nothing; the    *)
(* accumulators are added from the first to the last.                      *)

LaneValue(a, i) == IF Valid(a, i) THEN a.data[i] ELSE 0

\* From the first to the last.
AddUp(values, m) ==
  LET sum[i \in 0 .. m] == IF i = 0 THEN 0 ELSE Plus(sum[i - 1], values[i]) IN sum[m]

\* A group of k rows at a time, and those behind the last group one by one.
SumStriped(a, n, k) ==
  LET groups == n \div k
      Lane(s) == AddUp([g \in 1 .. groups |-> LaneValue(a, k * (g - 1) + s)], groups)
      Accumulator(s) == IF s < n % k THEN Plus(Lane(s), LaneValue(a, n - (n % k) + s)) ELSE Lane(s)
  IN AddUp([s \in 1 .. k |-> Accumulator(s - 1)], k)

sum_f64_null(a, n) == SumStriped(a, n, 2)
sum_f32_null(a, n) == SumStriped(a, n, 4)
sum_int_null(a, n) == SumStriped(a, n, 1)

\* i64 wraps at every addition.
sum_i64_null(a, n) ==
  LET acc[i \in 0 .. n] ==
        IF i = 0 THEN 0 ELSE WrapSigned(2 * Width, acc[i - 1] + LaneValue(a, i - 1))
  IN acc[n]

\* A quotient of floats is kept as <<numerator, denominator>>.
NoRatio == <<NaN, 1>>
Mean(a, n, sum) == IF count_null(a, n) = 0 THEN NoRatio ELSE <<sum, count_null(a, n)>>

mean_null(a, n, k) == Mean(a, n, SumStriped(a, n, k))

\* Two passes, the second over k stripes again.
var_null(a, n, k1, k2) ==
  LET count == count_null(a, n)
      mean == mean_null(a, n, k1)
      squares == Column([i \in 0 .. n - 1 |-> SquaredDeviation(a.data[i], mean[1], mean[2])], a.vp)
  IN IF count < 2 \/ mean[1] = NaN THEN NoRatio
     ELSE <<SumStriped(squares, n, k2), count * count * (count - 1)>>

-----------------------------------------------------------------------------
(* Extremes.                                                               *)

\* Mutant: the seed is returned where no value was found.
UnverifiedExtreme(a, n, seed) == seed

\* The seed is the result of a column that holds it, and of one with no number.
Verified(a, n, seed) ==
  IF \E i \in 0 .. n - 1 : Valid(a, i) /\ a.data[i] # NaN THEN seed ELSE NaN

Improves(least, x, y) == IF least THEN Below(x, y) ELSE Below(y, x)

\* The best of a value and those behind it.
PickUp(start, values, m, least) ==
  LET best[i \in 0 .. m] ==
        IF i = 0 THEN start ELSE IF Improves(least, values[i], best[i - 1]) THEN values[i] ELSE best[i - 1]
  IN best[m]

\* The seed also stands in for a null or a NaN.
Shown(a, i, seed) == IF Valid(a, i) /\ a.data[i] # NaN THEN a.data[i] ELSE seed

\* Lanes start from the seed; the rows behind the last group are compared with
\* the best of them.
FloatExtreme(a, n, k, least) ==
  LET seed == IF least THEN PosInf ELSE NegInf
      groups == n \div k
      Lane(s) == PickUp(seed, [g \in 1 .. groups |-> Shown(a, k * (g - 1) + s, seed)], groups, least)
      lanes == PickUp(seed, [s \in 1 .. k |-> Lane(s - 1)], k, least)
      best == PickUp(lanes, [t \in 1 .. n % k |-> Shown(a, n - (n % k) + t - 1, seed)], n % k, least)
  IN IF Improves(least, best, seed) THEN best ELSE Verified(a, n, seed)

min_f64_null(a, n) == FloatExtreme(a, n, 2, TRUE)
max_f64_null(a, n) == FloatExtreme(a, n, 2, FALSE)
min_f32_null(a, n) == FloatExtreme(a, n, 1, TRUE)
max_f32_null(a, n) == FloatExtreme(a, n, 1, FALSE)

\* 0 where no row is valid.
IntExtreme(a, n, least) ==
  LET Better(x, y) == IF least THEN x < y ELSE x > y
      best[i \in 0 .. n] ==
        IF i = 0 THEN << >>
        ELSE IF Valid(a, i - 1) /\ (best[i - 1] = << >> \/ Better(a.data[i - 1], best[i - 1][1]))
             THEN <<a.data[i - 1]>>
        ELSE best[i - 1]
  IN IF best[n] = << >> THEN 0 ELSE best[n][1]

min_int_null(a, n) == IntExtreme(a, n, TRUE)
max_int_null(a, n) == IntExtreme(a, n, FALSE)

-----------------------------------------------------------------------------
(* Distinct values, the first and the last.                                *)

\* The rows of one value count once: at the first of them.
FirstSightings(a, n) ==
  {i \in 0 .. n - 1 :
     /\ Valid(a, i) /\ a.data[i] # NaN
     /\ ~\E j \in 0 .. i - 1 : Valid(a, j) /\ a.data[j] = a.data[i]}

Rescan(a, n, counted) == Cardinality(FirstSightings(a, n))

\* All NaNs are one value.  The buffer is left once it is full, and the rows
\* scanned again against those before them.
nunique_null(a, n) ==
  LET pass[i \in 0 .. n] ==
        IF i = 0 THEN [seen |-> {}, nan |-> FALSE, overflow |-> FALSE]
        ELSE LET was == pass[i - 1]
                 v == a.data[i - 1] IN
             IF ~Valid(a, i - 1) \/ v \in was.seen THEN was
             ELSE IF v = NaN THEN [was EXCEPT !.nan = TRUE]
             ELSE IF Cardinality(was.seen) < NuniqueCap THEN [was EXCEPT !.seen = @ \cup {v}]
             ELSE [was EXCEPT !.overflow = TRUE]
      end == pass[n]
      values == IF end.overflow THEN Rescan(a, n, Cardinality(end.seen)) ELSE Cardinality(end.seen)
  IN values + IF end.nan THEN 1 ELSE 0

\* nunique of i64 counts past its buffer, and slices it by that count at the
\* next valid row: Rust's bounds check panics.
nunique_i64_null(a, n) ==
  LET pass[i \in 0 .. n] ==
        IF i = 0 THEN [seen |-> {}, cnt |-> 0]
        ELSE LET was == pass[i - 1]
                 v == a.data[i - 1] IN
             IF was.cnt = Trap \/ ~Valid(a, i - 1) THEN was
             ELSE IF was.cnt > NuniqueCap THEN [was EXCEPT !.cnt = Trap]
             ELSE IF v \in was.seen THEN was
             ELSE [seen |-> IF was.cnt < NuniqueCap THEN was.seen \cup {v} ELSE was.seen,
                   cnt |-> was.cnt + 1]
  IN pass[n].cnt

\* The row of the first valid value, or of the last; n when there is none.
FirstRow(a, n) == Min({n} \cup {i \in 0 .. n - 1 : Valid(a, i)})
LastRow(a, n) == IF FirstRow(a, n) = n THEN n ELSE Max({i \in 0 .. n - 1 : Valid(a, i)})

Located(a, n, row) == IF row < n THEN <<1, a.data[row]>> ELSE <<0, 0>>
first_null(a, n) == Located(a, n, FirstRow(a, n))
last_null(a, n) == Located(a, n, LastRow(a, n))
=============================================================================
