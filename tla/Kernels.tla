------------------------------ MODULE Kernels ------------------------------
(***************************************************************************)
(* One call of the evaluator or the frame layer into the kernels, with the *)
(* steps compile.ts takes around it: the choice of the output buffer, the  *)
(* mask of the non-zero divisors, the validity of the result.  The values  *)
(* are what ExprRuntime leaves out: it models who owns which buffer.       *)
(***************************************************************************)
EXTENDS Elementwise, Reduce, Select

CONSTANTS
  Calls,      \* records with a field kind, and those the action of that kind reads
  DayMs       \* MS_PER_DAY, milliseconds of a day, 86 400 000 in the code

\* The null of a scalar operand, a value no scalar has.
NoScalar == NaN + 1

Representable(dtype) ==
  CASE dtype = "i32" -> Signed(Width) [] dtype = "u32" -> Unsigned(Width) [] dtype = "i64" -> Signed(2 * Width)

\* A float beyond half the range of an i64 has no half.
Granular(v) == Finite(v) => v % 2 = 0 \/ Magnitude(v) < Two(2 * Width - 1)

\* The values of a dtype.
Values(dtype) ==
  CASE IsFloat(dtype) -> NegInf .. NaN [] dtype = "bool" -> {0, 1} [] OTHER -> Representable(dtype)

DTypes == {"f64", "f32", "i32", "u32", "i64", "bool"}

\* An integer of any width is a finite float, and a day has fewer milliseconds
\* than there are u32.
ASSUME RangeAssumption == Width >= 2 /\ PosInf > Two(2 * Width + 1) /\ DayMs \in 1 .. Two(Width)

\* The rows that are no null.
Known(a, n) == {i \in 0 .. n - 1 : Bit(a.vp, i)}

Squared(v) == v * v

\* The rows of two buffers are the same or apart.
Apart(a, b, n) == a = b \/ a + n <= b \/ b + n <= a

\* The buffers of arithmetic lie in memory, hold elements of their type, and two
\* of them share no part of their rows; what is cast is of the source's type; a
\* comparison fills a mask that has room for its rows; the operands of the logic
\* are bytes 0 and 1; a filter has a mask, and room for the validity of its rows; a
\* permutation to sort has each of its rows once; NaN is the largest value.
ASSUME CallsAssumption ==
  \A c \in Calls :
    /\ c.kind \in {"arithmetic", "scalar", "negate"} =>
         /\ c.dtype \in {"i32", "u32", "i64", "f64", "f32"} /\ c.op \in {"add", "sub", "mul", "div", "mod"}
         /\ IsFloat(c.dtype) => c.op \in {"add", "sub", "mul"}
         /\ c.n \in Nat /\ c.lanes \in Nat \ {0}
         /\ DOMAIN c.mem \subseteq Int /\ c.mem \in [DOMAIN c.mem -> Int]
         /\ LET buffers == {c.l.at, c.r.at, c.fresh} IN
            /\ buffers \subseteq Int
            /\ \A a, b \in buffers : Apart(a, b, c.n)
            /\ \A a \in buffers, i \in 0 .. c.n - 1 :
                 a + i \in DOMAIN c.mem /\ (~IsFloat(c.dtype) => c.mem[a + i] \in Representable(c.dtype))
         /\ c.kind = "scalar" /\ ~IsFloat(c.dtype) => c.s = NoScalar \/ c.s \in Representable(c.dtype)
    /\ c.kind = "cast" =>
         /\ c.n \in Nat /\ c.from \in DTypes /\ c.to \in DTypes
         /\ \A i \in {0} \cup {j \in 0 .. c.n - 1 : Bit(c.col.vp, j)} :
              /\ c.col.data[i] \in Values(c.from)
              /\ IsFloat(c.from) /\ c.to = "i64" => Granular(c.col.data[i])
    /\ c.kind = "date" => c.day \in Signed(Width) /\ c.ms \in Signed(2 * Width)
    /\ c.kind = "compare" =>
         /\ c.n \in Nat /\ c.op \in {"gt", "ge", "lt", "le", "eq", "ne"}
         /\ c.layout \in {"wide", "narrow", "scalar"}
         /\ c.s \in Int /\ \A i \in 0 .. c.n - 1 : c.col.data[i] \in Int
         /\ 0 .. BytesFor(c.n) - 1 \subseteq DOMAIN c.old /\ DOMAIN c.old \subseteq Nat
    /\ c.kind \in {"floats", "ints"} =>
         /\ c.n \in Nat
         /\ c.col.vp # NullPtr => \A k \in 0 .. BytesFor(c.n) - 1 : c.col.vp[k] \in ByteValues
         /\ \A i \in Known(c.col, c.n) :
              c.col.data[i] \in IF c.kind = "floats" THEN NegInf .. NaN ELSE Representable("i64")
         /\ \E bound \in 0 .. PosInf - 1 :
              /\ \A i \in Known(c.col, c.n) : Finite(c.col.data[i]) => Magnitude(c.col.data[i]) <= bound
              /\ c.n * bound < PosInf /\ c.n * Squared(2 * (c.n * bound)) < PosInf
    /\ c.kind = "logic" =>
         c.n \in Nat /\ \A i \in 0 .. c.n - 1 : c.a.data[i] \in {0, 1} /\ c.b.data[i] \in {0, 1}
    /\ c.kind = "filter" =>
         /\ c.n \in Nat /\ (c.n > 0 => c.mask # NullPtr)
         /\ 0 .. BytesFor(c.n) - 1 \subseteq DOMAIN c.old
    /\ c.kind = "topk" =>
         /\ c.k \in Nat /\ c.n \in Nat /\ c.largest \in BOOLEAN
         /\ \A i \in 0 .. c.n - 1 : Bit(c.col.vp, i) => c.col.data[i] \in NegInf .. NaN
    /\ c.kind = "sort" =>
         /\ c.perm \in Seq(Nat) /\ c.desc \in BOOLEAN
         /\ \A i, j \in DOMAIN c.perm : c.perm[i] = c.perm[j] => i = j
         /\ \A i \in DOMAIN c.perm : Bit(c.col.vp, c.perm[i]) => c.col.data[c.perm[i]] \in NegInf .. NaN

VARIABLES
  call,       \* the kernel call
  ran,        \* whether it has returned
  result      \* what it computed

vars == <<call, ran, result>>

-----------------------------------------------------------------------------
(* Arithmetic.                                                             *)

CombineValidity(a, b, n) ==
  IF a = NullPtr THEN b ELSE IF b = NullPtr THEN a ELSE ValidityAnd(a, b, n)

NonZeroMask(dtype, mem, at, n) ==
  LET nonZero == {i \in 0 .. n - 1 : Compare("ne", mem[at + i], 0)}
      blank == [k \in 0 .. BytesFor(n) - 1 |-> {}] IN
  IF dtype = "i64" THEN MaskOfWide(nonZero, n, blank)
  ELSE IF dtype = "i32" THEN MaskOfNarrow(nonZero, n, blank)
  ELSE MaskOfScalar(nonZero, n, blank)

\* Mutant: the mask of the divisors is computed after the quotients.
ArithVecLateMask(dtype, op, mem, l, r, fresh, n, lanes) ==
  LET out == IF l.owns THEN l.at ELSE IF r.owns THEN r.at ELSE fresh
      after == Binary(mem, dtype, op, l.at, r.at, out, n, lanes)
      divisors == IF op \in {"div", "mod"} /\ ~IsFloat(dtype) THEN NonZeroMask(dtype, after, r.at, n) ELSE NullPtr
  IN [mem |-> after, out |-> out,
      vp |-> CombineValidity(CombineValidity(l.vp, r.vp, n), divisors, n)]

\* The result takes the buffer of an operand that owns its own; the mask of the
\* divisors is read before the kernel may overwrite them.
ArithVec(dtype, op, mem, l, r, fresh, n, lanes) ==
  LET divisors == IF op \in {"div", "mod"} /\ ~IsFloat(dtype) THEN NonZeroMask(dtype, mem, r.at, n) ELSE NullPtr
      out == IF l.owns THEN l.at ELSE IF r.owns THEN r.at ELSE fresh
  IN [mem |-> Binary(mem, dtype, op, l.at, r.at, out, n, lanes), out |-> out,
      vp |-> CombineValidity(CombineValidity(l.vp, r.vp, n), divisors, n)]

ArithScalar(dtype, op, mem, col, s, fresh, n, lanes) ==
  LET out == IF col.owns THEN col.at ELSE fresh
      allNull == s = NoScalar \/ (~IsFloat(dtype) /\ op \in {"div", "mod"} /\ s = 0)
  IN IF allNull
     THEN [mem |-> [x \in DOMAIN mem |-> IF x - out \in 0 .. n - 1 THEN 0 ELSE mem[x]], out |-> out,
           vp |-> [k \in 0 .. BytesFor(n) - 1 |-> {}]]
     ELSE [mem |-> BinaryScalar(mem, dtype, op, col.at, s, out, n, lanes), out |-> out, vp |-> col.vp]

Arithmetic ==
  /\ call.kind = "arithmetic"
  /\ result' = ArithVec(call.dtype, call.op, call.mem, call.l, call.r, call.fresh, call.n, call.lanes)

ArithmeticWithScalar ==
  /\ call.kind = "scalar"
  /\ result' = ArithScalar(call.dtype, call.op, call.mem, call.l, call.s, call.fresh, call.n, call.lanes)

Negation ==
  /\ call.kind = "negate"
  /\ LET out == IF call.l.owns THEN call.l.at ELSE call.fresh IN
     result' = [mem |-> Negate(call.mem, call.dtype, call.l.at, out, call.n, call.lanes), out |-> out,
                vp |-> call.l.vp]

-----------------------------------------------------------------------------
(* Comparisons and logic.                                                  *)

Mirror(op) ==
  CASE op = "gt" -> "lt" [] op = "lt" -> "gt" [] op = "ge" -> "le" [] op = "le" -> "ge"
    [] OTHER -> op

\* A scalar on the left is compared from the right.
CompareMask(op, col, s, scalarLeft, n, layout, old) ==
  LET rows == {i \in 0 .. n - 1 : Compare(IF scalarLeft THEN Mirror(op) ELSE op, col.data[i], s)} IN
  IF layout = "wide" THEN MaskOfWide(rows, n, old)
  ELSE IF layout = "narrow" THEN MaskOfNarrow(rows, n, old)
  ELSE MaskOfScalar(rows, n, old)

Comparison ==
  /\ call.kind = "compare"
  /\ result' = CompareMask(call.op, call.col, call.s, call.scalarLeft, call.n, call.layout, call.old)

\* Two operands without nulls give a result without a validity.
EvalKleene(op, a, b, n) ==
  LET r == IF op = "and" THEN AndKleene(a, b, n) ELSE OrKleene(a, b, n) IN
  IF a.vp = NullPtr /\ b.vp = NullPtr THEN Column(r.data, NullPtr) ELSE r

EvalNot(a, n) == IF a.vp = NullPtr THEN Column(NotBool(a, n).data, NullPtr) ELSE NotBool(a, n)

Logical ==
  /\ call.kind = "logic"
  /\ result' = [both |-> EvalKleene("and", call.a, call.b, call.n),
                either |-> EvalKleene("or", call.a, call.b, call.n),
                negated |-> EvalNot(call.a, call.n),
                nulls |-> IsNull(call.a.vp, call.n),
                filled |-> FillNull(call.a, 1, call.n)]

-----------------------------------------------------------------------------
(* Casts.                                                                  *)

Lossy(from, to) ==
  \/ IsFloat(from) /\ to \in {"i32", "u32", "i64", "bool"}
  \/ <<from, to>> \in {<<"i32", "u32">>, <<"u32", "i32">>}

\* Whether the validity of the operand is kept.
EvalCast(from, to, col, n) ==
  LET out == CastColumn(col, from, to, n) IN
  IF from = to THEN col
  ELSE IF Lossy(from, to) THEN out ELSE Column(out.data, col.vp)

\* A date counts days and a timestamp milliseconds: a date is widened and then
\* multiplied in place, a timestamp divided towards minus infinity.
DateToTimestamp(d) == WrapSigned(2 * Width, IntToWide(d).data * DayMs)
TimestampToDate(ms) ==
  LET d == Quotient(ms, DayMs) IN
  WrapSigned(Width, IF Remainder(ms, DayMs) # 0 /\ ms < 0 THEN d - 1 ELSE d)

\* castScalar, for a cast of a scalar.
CastScalar(from, to, v) ==
  LET tr == Truncated(v)
      num == IF from = "bool" THEN (IF v # 0 THEN 1 ELSE 0) ELSE v IN
  IF from = to THEN Converted(v)
  ELSE IF from = "i64"
    THEN CASE IsFloat(to) -> Converted(2 * v)
           [] to = "i32" -> Converted(WrapSigned(Width, v))
           [] to = "u32" -> Converted(WrapUnsigned(Width, v))
           [] to = "bool" -> Converted(IF v # 0 THEN 1 ELSE 0)
  ELSE IF to = "bool" THEN When(~(IsFloat(from) /\ v = NaN), IF v # 0 THEN 1 ELSE 0)
  ELSE IF IsFloat(to) THEN Converted(IF IsFloat(from) THEN v ELSE 2 * num)
  ELSE IF IsFloat(from) /\ ~(v # NaN /\ Finite(v)) THEN Fails
  ELSE LET int == IF IsFloat(from) THEN tr ELSE num IN
       CASE to = "i64" -> When(int \in Signed(2 * Width), int)
         [] to = "i32" -> When(int \in Signed(Width), int)
         [] to = "u32" -> When(~(IsFloat(from) /\ v < 0) /\ int \in Unsigned(Width), int)

Cast ==
  /\ call.kind = "cast"
  /\ result' = [column |-> EvalCast(call.from, call.to, call.col, call.n),
                scalar |-> CastScalar(call.from, call.to, call.col.data[0])]

CastDate ==
  /\ call.kind = "date"
  /\ result' = [ms |-> DateToTimestamp(call.day), day |-> TimestampToDate(call.ms),
                back |-> TimestampToDate(DateToTimestamp(call.day))]

-----------------------------------------------------------------------------
(* Reductions and selections.                                              *)

ReduceFloats ==
  /\ call.kind = "floats"
  /\ LET a == call.col
         n == call.n IN
     result' = [sum |-> {sum_f64_null(a, n), sum_f32_null(a, n)},
                mean |-> {mean_null(a, n, 2), mean_null(a, n, 4)},
                var |-> {var_null(a, n, 2, 2), var_null(a, n, 4, 1)},
                min |-> {min_f64_null(a, n), min_f32_null(a, n)},
                max |-> {max_f64_null(a, n), max_f32_null(a, n)},
                first |-> first_null(a, n), last |-> last_null(a, n),
                nunique |-> nunique_null(a, n), count |-> count_null(a, n)]

ReduceInts ==
  /\ call.kind = "ints"
  /\ LET a == call.col
         n == call.n IN
     result' = [sum |-> sum_int_null(a, n), wrapped |-> sum_i64_null(a, n),
                mean |-> {mean_null(a, n, 1), mean_null(a, n, 2)},
                var |-> {var_null(a, n, 1, 1), var_null(a, n, 2, 2)},
                min |-> min_int_null(a, n), max |-> max_int_null(a, n),
                nunique |-> nunique_null(a, n), nunique_i64 |-> nunique_i64_null(a, n)]

Sort ==
  /\ call.kind = "sort"
  /\ result' = Argsort(call.col, call.perm, call.desc)

SelectTop ==
  /\ call.kind = "topk"
  /\ result' = TopK(call.col, call.k, call.n, call.largest)

\* filter compacts the rows of a mask, gather reads those of its indices.
Selection ==
  /\ call.kind = "filter"
  /\ LET rows == FilterIndices(call.mask, call.n) IN
     result' = [rows |-> rows, data |-> Filter(call.col.data, call.mask, call.n),
                gathered |-> Gather(call.col.data, rows),
                vp |-> GatherValidity(call.col.vp, rows, call.old),
                wide |-> ExpandMaskBool(call.mask, call.n)]

-----------------------------------------------------------------------------

Init == call \in Calls /\ ran = FALSE /\ result = << >>

Run ==
  \/ Arithmetic \/ ArithmeticWithScalar \/ Negation \/ Comparison \/ Logical \/ Cast \/ CastDate
  \/ ReduceFloats \/ ReduceInts \/ Sort \/ SelectTop \/ Selection

Next == ~ran /\ Run /\ ran' = TRUE /\ UNCHANGED call

Spec == Init /\ [][Next]_vars

-----------------------------------------------------------------------------
(* What the callers rely on.                                               *)

Ran(kinds) == ran /\ call.kind \in kinds

Congruent(dtype, v, w) == (v - w) % Cardinality(Representable(dtype)) = 0

RemainderOf(a, b, rem) == Magnitude(rem) < Magnitude(b) /\ (rem = 0 \/ (rem < 0) = (a < 0))

\* What op gives where integers have no end.
Exact(op, x, y) ==
  CASE op = "add" -> x + y [] op = "sub" -> x - y [] op = "mul" -> x * y [] op = "neg" -> -x

\* z is the dtype's result of op: wrapped, and for a division truncated.  The one
\* quotient that does not fit is 0 for i32 and wraps for i64.
Computes(dtype, op, x, y, z) ==
  IF IsFloat(dtype) THEN z = Exact(op, x, y)
  ELSE /\ z \in Representable(dtype)
       /\ CASE op \in {"add", "sub", "mul", "neg"} -> Congruent(dtype, z, Exact(op, x, y))
            [] op = "div" -> IF y = -1 THEN z = (IF -x \in Representable(dtype) THEN -x
                                                 ELSE IF dtype = "i32" THEN 0 ELSE x)
                             ELSE RemainderOf(x, y, x - z * y)
            [] op = "mod" -> RemainderOf(x, y, z) /\ (x - z) % Magnitude(y) = 0

\* The evaluator's arithmetic gives each row the exact result and a null where an
\* operand is null or a divisor is 0, also where the result overwrites an operand
\* that owns its buffer, and leaves every other buffer as it was (compile.ts,
\* arithVec and arithScalar over the kernels of elementwise.rs).
ArithmeticExact ==
  Ran({"arithmetic", "scalar", "negate"}) =>
    LET op == IF call.kind = "negate" THEN "neg" ELSE call.op
        x(i) == call.mem[call.l.at + i]
        y(i) == CASE call.kind = "arithmetic" -> call.mem[call.r.at + i]
                  [] call.kind = "scalar" -> call.s
                  [] OTHER -> 1
        known(i) == /\ Bit(call.l.vp, i)
                    /\ call.kind = "arithmetic" => Bit(call.r.vp, i)
                    /\ call.kind = "scalar" => call.s # NoScalar
        rows == 0 .. call.n - 1
    IN /\ \A i \in rows :
            LET defined == known(i) /\ (op \in {"div", "mod"} => y(i) # 0) IN
            /\ Bit(result.vp, i) = defined
            /\ defined => Computes(call.dtype, op, x(i), y(i), result.mem[result.out + i])
       /\ \A a \in DOMAIN call.mem : a - result.out \notin rows => result.mem[a] = call.mem[a]

Holds(op, x, y) ==
  IF NaN \in {x, y} THEN op = "ne"
  ELSE op \in (IF x = y THEN {"ge", "le", "eq"}
              ELSE IF x > y THEN {"gt", "ge", "ne"} ELSE {"lt", "le", "ne"})

\* Every layout of a comparison kernel sets exactly the bits of the rows whose
\* comparison holds, whatever the mask held before, and zeroes the padding of the
\* last byte, which filter and popcount rely on (elementwise.rs, cmp_* masks).
MasksExact ==
  Ran({"compare"}) =>
    LET holds(i) == IF call.scalarLeft THEN Holds(call.op, call.s, call.col.data[i])
                    ELSE Holds(call.op, call.col.data[i], call.s)
    IN /\ \A k \in 0 .. BytesFor(call.n) - 1 :
            result[k] = {b \in 0 .. 7 : 8 * k + b < call.n /\ holds(8 * k + b)}
       /\ \A k \in DOMAIN call.old : k >= BytesFor(call.n) => result[k] = call.old[k]

Possible(a, i) == IF Bit(a.vp, i) THEN {a.data[i]} ELSE {0, 1}

Decides(column, i, outcomes) ==
  /\ Bit(column.vp, i) = (Cardinality(outcomes) = 1)
  /\ Bit(column.vp, i) => outcomes = {column.data[i]}

\* What a connective gives for the values its operands may have.
Ands(As, Bs) == {p * q : p \in As, q \in Bs}
Ors(As, Bs) == {IF p + q > 0 THEN 1 ELSE 0 : p \in As, q \in Bs}
Nots(As) == {1 - p : p \in As}

\* A null is an unknown truth value: a row of and, or and not is null exactly when
\* its value depends on what the nulls stand for (and_kleene, or_kleene, not_bool).
KleeneExact ==
  Ran({"logic"}) =>
    \A i \in 0 .. call.n - 1 :
      LET As == Possible(call.a, i)
          Bs == Possible(call.b, i) IN
      /\ Decides(result.both, i, Ands(As, Bs))
      /\ Decides(result.either, i, Ors(As, Bs))
      /\ Decides(result.negated, i, Nots(As))
      /\ result.nulls[i] = Cardinality(As) - 1
      /\ result.filled[i] = IF Cardinality(As) = 1 THEN call.a.data[i] ELSE 1

\* The value of an element in halves.
InHalves(dtype, v) == IF IsFloat(dtype) THEN v ELSE IF dtype = "bool" /\ v # 0 THEN 2 ELSE 2 * v

\* The integers a float may become: towards zero, and none below zero for u32.
Integers(dtype, h) ==
  {t \in Representable(dtype) :
     /\ Finite(h) /\ 2 * Magnitude(t) <= Magnitude(h) /\ Magnitude(h) < 2 * Magnitude(t) + 2
     /\ t = 0 \/ (t < 0) = (h < 0)
     /\ dtype = "u32" => h >= 0}

CastResults(from, to, v) ==
  LET h == InHalves(from, v) IN
  CASE from = to -> {v}
    [] from # to /\ IsFloat(to) -> {h}
    [] from # to /\ to = "bool" -> IF h = NaN THEN {} ELSE {IF h = 0 THEN 0 ELSE 1}
    [] from = "i64" /\ to \in {"i32", "u32"} -> {t \in Representable(to) : Congruent(to, t, v)}
    [] OTHER -> Integers(to, h)

\* A cast gives each row the one value its element has in the new type and a null
\* where it has none; a scalar and a column cast alike, and a date survives the
\* way through a timestamp (the casts of elementwise.rs, evalCast and castScalar).
CastsExact ==
  /\ Ran({"cast"}) =>
       LET results(i) == CastResults(call.from, call.to, call.col.data[i]) IN
       /\ \A i \in 0 .. call.n - 1 :
            /\ Bit(result.column.vp, i) = (Bit(call.col.vp, i) /\ results(i) # {})
            /\ Bit(result.column.vp, i) => results(i) = {result.column.data[i]}
       /\ result.scalar.valid = (results(0) # {})
       /\ result.scalar.valid => results(0) = {result.scalar.data}
  /\ Ran({"date"}) =>
       /\ result.back = call.day
       /\ result.ms = call.day * DayMs
       /\ LET day == result.day IN
          \/ day * DayMs <= call.ms /\ call.ms < (day + 1) * DayMs
          \/ ~\E d \in Signed(Width) : d * DayMs <= call.ms /\ call.ms < (d + 1) * DayMs

\* The values of the rows among the first n, added in the order of the rows.
SumOver(values, n) ==
  LET sum[i \in 0 .. n] ==
        IF i = 0 THEN 0 ELSE sum[i - 1] + IF i - 1 \in DOMAIN values THEN values[i - 1] ELSE 0
  IN sum[n]

ValuesIn(values) == {values[i] : i \in DOMAIN values}

Total(values, n) ==
  IF NaN \in ValuesIn(values) \/ {PosInf, NegInf} \subseteq ValuesIn(values) THEN NaN
  ELSE IF PosInf \in ValuesIn(values) THEN PosInf
  ELSE IF NegInf \in ValuesIn(values) THEN NegInf
  ELSE SumOver(values, n)

\* num/den is the variance of the values, with count - 1 in the denominator.
IsVariance(ratio, values, n) ==
  LET count == Cardinality(DOMAIN values)
      sum == SumOver(values, n)
      squares == SumOver([i \in DOMAIN values |-> values[i] * values[i]], n)
  IN IF count < 2 \/ \E v \in ValuesIn(values) : ~Finite(v) THEN ratio[1] = NaN
     ELSE ratio[1] * count * (count - 1) = ratio[2] * (count * squares - sum * sum)

Extremes(values) ==
  LET numbers == ValuesIn(values) \ {NaN} IN
  IF numbers = {} THEN <<NaN, NaN>> ELSE <<Min(numbers), Max(numbers)>>

\* A reduction sees the valid rows and nothing else: the stripes of the SIMD
\* build, the seed that stands in for a null, and the infinities that equal the
\* seed change no result (reduce.rs).
ReductionsExact ==
  Ran({"floats", "ints"}) =>
    LET n == call.n
        rows == Known(call.col, n)
        values == [i \in rows |-> call.col.data[i]]
        mean == IF rows = {} THEN NoRatio ELSE <<Total(values, n), Cardinality(rows)>>
        distinct == Cardinality(ValuesIn(values))
    IN /\ result.mean = {mean}
       /\ \A v \in result.var : IsVariance(v, values, n)
       /\ result.nunique = distinct
       /\ call.kind = "floats" =>
            /\ result.sum = {Total(values, n)}
            /\ result.min = {Extremes(values)[1]} /\ result.max = {Extremes(values)[2]}
            /\ result.count = Cardinality(rows)
            /\ result.first[1] = 1 => \E i \in rows : values[i] = result.first[2] /\ \A j \in rows : i <= j
            /\ result.last[1] = 1 => \E i \in rows : values[i] = result.last[2] /\ \A j \in rows : j <= i
            /\ (rows = {}) = (result.first[1] = 0) /\ result.last[1] = result.first[1]
       /\ call.kind = "ints" =>
            /\ result.sum = Total(values, n)
            /\ result.wrapped \in Signed(2 * Width) /\ Congruent("i64", result.wrapped, Total(values, n))
            /\ <<result.min, result.max>> = IF rows = {} THEN <<0, 0>> ELSE Extremes(values)
            /\ distinct <= NuniqueCap => result.nunique_i64 = distinct

\* The count of distinct i64 values, for a column with more of them than the
\* buffer of nunique has entries (reduce.rs, "fall back to a full O(n^2) scan").
NuniqueFallsBack ==
  Ran({"ints"}) => result.nunique_i64 = result.nunique

\* Nulls come after every value, NaN is above them all.
SortKey(col, desc, row) ==
  IF ~Bit(col.vp, row) THEN 2 * NaN ELSE IF desc THEN -col.data[row] ELSE col.data[row]

\* argsort orders the rows it was given, and rows with equal keys keep the order
\* they came in: the next key of a multi-key sort relies on it (select.rs,
\* stable_sort_perm_scratch; sort.ts).
SortStable ==
  Ran({"sort"}) =>
    LET key(row) == SortKey(call.col, call.desc, row)
        place(row) == CHOOSE p \in DOMAIN call.perm : call.perm[p] = row
    IN /\ Len(result) = Len(call.perm) /\ ToSet(result) = ToSet(call.perm)
       /\ \A i, j \in DOMAIN result :
            i < j => \/ key(result[i]) < key(result[j])
                     \/ key(result[i]) = key(result[j]) /\ place(result[i]) < place(result[j])

\* topk returns the k first rows of the sorted order, ties by row, and no null;
\* filter and gather move exactly the rows of the mask with their validity, and
\* read no bit of the mask's padding (select.rs).
SelectionExact ==
  /\ Ran({"topk"}) =>
       LET rows == Known(call.col, call.n)
           key(row) == SortKey(call.col, call.largest, row)
           before(row) == {r \in rows : key(r) < key(row) \/ (key(r) = key(row) /\ r < row)}
       IN /\ Len(result) = Min({call.k, Cardinality(rows)})
          /\ \A p \in DOMAIN result : result[p] \in rows /\ Cardinality(before(result[p])) = p - 1
  /\ Ran({"filter"}) =>
       LET kept == {i \in 0 .. call.n - 1 : Bit(call.mask, i)}
           place(i) == Cardinality({j \in kept : j < i})
       IN /\ Len(result.rows) = Cardinality(kept) /\ Len(result.data) = Cardinality(kept)
          /\ \A i \in kept :
               /\ result.rows[place(i) + 1] = i
               /\ result.data[place(i) + 1] = call.col.data[i]
               /\ result.gathered[place(i)] = call.col.data[i]
               /\ Bit(result.vp, place(i)) = Bit(call.col.vp, i)
          /\ \A i \in 0 .. call.n - 1 : result.wide[i] = IF i \in kept THEN 1 ELSE 0
          /\ \A k \in 0 .. BytesFor(Cardinality(kept)) - 1 :
               \A b \in result.vp[k] : 8 * k + b < Cardinality(kept)
=============================================================================
