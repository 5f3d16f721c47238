----------------------------- MODULE MCKernels -----------------------------
(***************************************************************************)
(* The calls TLC makes: each set varies what one family of kernels tells   *)
(* apart.  Buffers are longer than the rows, and null rows, padding bits   *)
(* and the buffers of results hold what an earlier owner left there.       *)
(***************************************************************************)
EXTENDS Kernels

Garbage(len) == [k \in 0 .. len |-> {0, 3, 7}]

\* A bitmap of n rows from its valid ones, its padding all ones.
Stored(n, valid) ==
  [k \in 0 .. BytesFor(n) - 1 |-> {b \in 0 .. 7 : 8 * k + b \in valid \/ 8 * k + b >= n}]
Validities(n) == {NullPtr} \cup {Stored(n, valid) : valid \in SUBSET (0 .. n - 1)}

\* Columns of n cells; the bytes of a null row hold "under".
Cells(n, values, under) ==
  {Column([i \in 0 .. n - 1 |-> IF c[i] = << >> THEN under ELSE c[i][1]],
          Stored(n, {i \in 0 .. n - 1 : c[i] # << >>})) :
     c \in [0 .. n - 1 -> {<< >>} \cup {<<v>> : v \in values}]}

Operand(at, vp, owns) == [at |-> at, vp |-> vp, owns |-> owns]

-----------------------------------------------------------------------------

Dtypes == {"i32", "u32", "i64"}
Ops == {"add", "sub", "mul", "div", "mod"}
Operands(dtype) ==
  CASE dtype = "i32" -> Signed(Width)
    [] dtype = "u32" -> Unsigned(Width)
    [] dtype = "i64" -> {-32, -31, -7, -1, 0, 1, 5, 31}

Arith(kind, dtype, op, mem, l, r, s, n, lanes) ==
  [kind |-> kind, dtype |-> dtype, op |-> op, mem |-> mem, l |-> l, r |-> r, s |-> s,
   fresh |-> 2 * n, n |-> n, lanes |-> lanes]

\* One row of every pair of values, and the scalar forms.
ValueCalls ==
  UNION {{Arith(kind, dtype, op, [a \in 0 .. 2 |-> <<x, y, 1>>[a + 1]], Operand(0, NullPtr, FALSE), Operand(1, NullPtr, FALSE), y, 1, 1) :
            kind \in {"arithmetic", "scalar"}, op \in Ops, x \in Operands(dtype), y \in Operands(dtype)} :
         dtype \in Dtypes}

\* Five rows in two iterations over lanes, with every owner of a buffer.
LayoutRows == <<3, -4, 2, -1, 1>>
LayoutMem == LayoutRows \o <<0, -1, 2, 0, -3>> \o <<1, 1, 1, 1, 1>>
LayoutCalls ==
  {c \in {Arith(kind, dtype, op, [a \in 0 .. 14 |-> LayoutMem[a + 1]], Operand(0, lv, lo), Operand(5, rv, ro), s, 5, lanes) :
     kind \in {"arithmetic", "scalar", "negate"}, dtype \in {"i32", "i64", "f64"}, op \in {"sub", "div"},
     lv \in {NullPtr, Stored(5, {0, 3})}, rv \in {NullPtr, Stored(5, {1, 3, 4})},
     lo \in BOOLEAN, ro \in BOOLEAN, s \in {NoScalar, 0, -1}, lanes \in {1, 2, 4}} :
   c.dtype = "f64" => c.op = "sub"}

CompareOps == {"gt", "ge", "lt", "le", "eq", "ne"}
Compared(op, col, s, left, n, layout) ==
  [kind |-> "compare", op |-> op, col |-> col, s |-> s, scalarLeft |-> left, n |-> n,
   layout |-> layout, old |-> Garbage(BytesFor(n))]
Layouts == {"wide", "narrow", "scalar"}
CompareCalls ==
  {Compared(op, Column([i \in {0} |-> x], NullPtr), y, left, 1, layout) :
     op \in CompareOps, x \in {NegInf, 1, 2, PosInf, NaN}, y \in {NegInf, 1, 2, NaN}, left \in BOOLEAN, layout \in Layouts}
  \cup UNION {{Compared("gt", Column(d, NullPtr), 0, FALSE, n, layout) : d \in [0 .. n - 1 -> {0, 1}], layout \in Layouts} :
              n \in {0, 3, 8, 9}}
  \cup {Compared("ne", Column([i \in 0 .. 16 |-> IF i = z THEN 0 ELSE 1], NullPtr), 0, FALSE, 17, layout) :
          z \in 0 .. 16, layout \in Layouts}

LogicCalls ==
  {[kind |-> "logic", a |-> Column(ad, av), b |-> Column(bd, bv), n |-> 2] :
     ad \in [0 .. 1 -> {0, 1}], av \in Validities(2), bd \in [0 .. 1 -> {0, 1}], bv \in Validities(2)}

Sources(dtype) ==
  CASE IsFloat(dtype) -> {NegInf, PosInf, NaN} \cup -70 .. 70
    [] dtype = "bool" -> {0, 1}
    [] OTHER -> Representable(dtype)
CastPairs ==
  {p \in {"f64", "f32", "i32", "u32", "i64", "bool"} \X {"f64", "f32", "i32", "u32", "i64", "bool"} : p[1] # p[2]}
CastCalls ==
  UNION {{[kind |-> "cast", from |-> p[1], to |-> p[2], col |-> Column([i \in 0 .. 1 |-> IF i = 0 THEN v ELSE 1], vp), n |-> 2] :
            v \in {w \in Sources(p[1]) : IsFloat(p[1]) /\ p[2] = "i64" => Granular(w)}, vp \in {NullPtr, Stored(2, {0})}} : p \in CastPairs}

DateCalls == {[kind |-> "date", day |-> d, ms |-> m] : d \in Signed(Width), m \in Signed(2 * Width)}

Reduced(kind, col, n) == [kind |-> kind, col |-> col, n |-> n]
ReduceCalls ==
  UNION {{Reduced("floats", c, n) : c \in Cells(n, {NegInf, PosInf, NaN, -1, 2}, NaN)} : n \in 0 .. 4}
  \cup {Reduced("floats", Column([i \in 0 .. 6 |-> 2 ^ i], vp), 7) : vp \in Validities(7)}
  \cup UNION {{Reduced("ints", c, n) : c \in Cells(n, {-32, -1, 7, 31}, 5)} : n \in 0 .. 4}
  \cup {Reduced("ints", c, 5) : c \in Cells(5, {1, 31}, 5)}

Cycled(perm) == Tail(perm) \o <<perm[1]>>
Orders(n) == {[i \in 1 .. n |-> i - 1], Cycled([i \in 1 .. n |-> n - i])}
Sorted(n, values) ==
  {[kind |-> "sort", col |-> c, perm |-> p, desc |-> d] :
     c \in Cells(n, values, 1), p \in {o \in Orders(n) : n > 0}, d \in BOOLEAN}
SortCalls == UNION {Sorted(n, {NaN, 1, 2}) : n \in 1 .. 5} \cup Sorted(7, {2})

TopCalls ==
  {[kind |-> "topk", col |-> c, k |-> k, n |-> 5, largest |-> l] :
     c \in Cells(5, {NaN, 1, 2}, 3), k \in {0, 1, 3}, l \in BOOLEAN}
  \cup {[kind |-> "topk", col |-> c, k |-> 5, n |-> 7, largest |-> l] : c \in Cells(7, {2, 1}, 3), l \in BOOLEAN}

FilterCalls ==
  UNION {{[kind |-> "filter", col |-> Column([i \in 0 .. n - 1 |-> 10 + i], Stored(n, v)), n |-> n,
           mask |-> Stored(n, m), old |-> Garbage(BytesFor(n))] :
            m \in SUBSET (0 .. n - 1), v \in {{}, {i \in 0 .. n - 1 : i % 3 # 1}}} : n \in {0, 2, 8, 9}}

MCCalls ==
  ValueCalls \cup LayoutCalls \cup CompareCalls \cup LogicCalls \cup CastCalls \cup DateCalls
  \cup ReduceCalls \cup SortCalls \cup TopCalls \cup FilterCalls
=============================================================================
