---------------------------- MODULE Elementwise ----------------------------
(***************************************************************************)
(* The elementwise kernels (elementwise.rs): arithmetic, comparison masks, *)
(* three-valued logic and casts over columns.                              *)
(*                                                                         *)
(* A kernel has a loop that handles several lanes at a time in the SIMD    *)
(* build and a loop that handles what is left; in the scalar build the     *)
(* second does everything, here with one lane.  Buffers of elements live   *)
(* in one memory, so that the output may be an operand's own buffer.       *)
(***************************************************************************)
EXTENDS Bitmaps, Scalars, SequencesExt

IsFloat(dtype) == dtype \in {"f64", "f32"}

\* checked_div and checked_rem of i32 give nothing, and so 0, for a zero divisor
\* and where the quotient overflows.
NarrowOverflows(a, b) == b = 0 \/ Quotient(a, b) \notin Signed(Width)
DivNarrow(a, b) == IF NarrowOverflows(a, b) THEN 0 ELSE Quotient(a, b)
ModNarrow(a, b) == IF NarrowOverflows(a, b) THEN 0 ELSE Remainder(a, b)

DivUnsigned(a, b) == IF b = 0 THEN 0 ELSE a \div b
ModUnsigned(a, b) == IF b = 0 THEN 0 ELSE a % b

\* wrapping_div and wrapping_rem of i64.
DivWide(a, b) == IF b = 0 THEN 0 ELSE WrapSigned(2 * Width, Quotient(a, b))
ModWide(a, b) == IF b = 0 THEN 0 ELSE Remainder(a, b)

\* The floats of the arithmetic are integers no operation rounds.
Wrap(dtype, v) ==
  CASE dtype = "i32" -> WrapSigned(Width, v)
    [] dtype = "u32" -> WrapUnsigned(Width, v)
    [] dtype = "i64" -> WrapSigned(2 * Width, v)
    [] IsFloat(dtype) -> v

Divide(dtype, a, b) ==
  CASE dtype = "i32" -> DivNarrow(a, b) [] dtype = "u32" -> DivUnsigned(a, b) [] dtype = "i64" -> DivWide(a, b)
Modulo(dtype, a, b) ==
  CASE dtype = "i32" -> ModNarrow(a, b) [] dtype = "u32" -> ModUnsigned(a, b) [] dtype = "i64" -> ModWide(a, b)

Apply(dtype, op, a, b) ==
  CASE op = "add" -> Wrap(dtype, a + b)
    [] op = "sub" -> Wrap(dtype, a - b)
    [] op = "mul" -> Wrap(dtype, a * b)
    [] op = "div" -> Divide(dtype, a, b)
    [] op = "mod" -> Modulo(dtype, a, b)

-----------------------------------------------------------------------------
(* Loops over elements.                                                    *)

\* <<first row, rows>> of each iteration: whole groups of lanes, then the tail.
Batches(n, lanes) ==
  [g \in 1 .. n \div lanes |-> <<lanes * (g - 1), lanes>>]
  \o [t \in 1 .. n % lanes |-> <<n - (n % lanes) + t - 1, 1>>]

\* One iteration loads its lanes and then stores them; Value(m, i) is what it
\* stores for row i when the memory is m.
Loop(mem, Value(_, _), out, n, lanes) ==
  LET batches == Batches(n, lanes)
      Store(m, batch) ==
        LET rows == batch[1] .. batch[1] + batch[2] - 1 IN
        [x \in DOMAIN m |-> IF x - out \in rows THEN Value(m, x - out) ELSE m[x]]
      stored[k \in 0 .. Len(batches)] == IF k = 0 THEN mem ELSE Store(stored[k - 1], batches[k])
  IN stored[Len(batches)]

Binary(mem, dtype, op, a, b, out, n, lanes) ==
  LET Value(m, i) == Apply(dtype, op, m[a + i], m[b + i]) IN Loop(mem, Value, out, n, lanes)

BinaryScalar(mem, dtype, op, a, s, out, n, lanes) ==
  LET Value(m, i) == Apply(dtype, op, m[a + i], s) IN Loop(mem, Value, out, n, lanes)

Negate(mem, dtype, a, out, n, lanes) ==
  LET Value(m, i) == Wrap(dtype, -m[a + i]) IN Loop(mem, Value, out, n, lanes)

-----------------------------------------------------------------------------
(* Comparison masks, of the rows for which the comparison holds.           *)

Compare(op, x, y) ==
  CASE op = "gt" -> Below(y, x)
    [] op = "ge" -> AtMost(y, x)
    [] op = "lt" -> Below(x, y)
    [] op = "le" -> AtMost(x, y)
    [] op = "eq" -> AtMost(x, y) /\ AtMost(y, x)
    [] op = "ne" -> ~(AtMost(x, y) /\ AtMost(y, x))

\* A group of lanes gives its own bits, which move to their place in the byte.
GroupBits(rows, first, lanes) == {l \in 0 .. lanes - 1 : first + l \in rows}
ByteOf(rows, first, lanes) ==
  UNION {{g * lanes + l : l \in GroupBits(rows, first + g * lanes, lanes)} : g \in 0 .. (8 \div lanes) - 1}

\* Mutant: the mask is not zeroed first.
ClearedNot(old, n) == old

Cleared(old, n) == [k \in DOMAIN old |-> IF k < BytesFor(n) THEN {} ELSE old[k]]

\* Whole bytes are stored, the bits of the last byte or'ed in.
MaskOf(rows, n, lanes, old) ==
  LET zeroed == Cleared(old, n)
      last == Packed(n, rows) IN
  [k \in DOMAIN old |->
     IF k < n \div 8 THEN ByteOf(rows, 8 * k, lanes)
     ELSE IF k < BytesFor(n) THEN zeroed[k] \cup last[k] ELSE zeroed[k]]

MaskOfWide(rows, n, old) == MaskOf(rows, n, 2, old)
MaskOfNarrow(rows, n, old) == MaskOf(rows, n, 4, old)

\* The scalar build, and unsigned integers in both.
MaskOfScalar(rows, n, old) ==
  LET bits == Packed(n, rows) IN
  [k \in DOMAIN old |-> IF k < BytesFor(n) THEN Cleared(old, n)[k] \cup bits[k] ELSE old[k]]

ExpandMaskBool(mask, n) == [i \in 0 .. n - 1 |-> IF Bit(mask, i) THEN 1 ELSE 0]

-----------------------------------------------------------------------------
(* Three-valued logic over bytes 0 and 1 and their validities.             *)

\* Mutant: null wherever an operand is null.
AndValidStrict(av, ad, bv, bd) == av /\ bv
AndValid(av, ad, bv, bd) == (av /\ bv) \/ (av /\ ad = 0) \/ (bv /\ bd = 0)
OrValid(av, ad, bv, bd) == (av /\ bv) \/ (av /\ ad = 1) \/ (bv /\ bd = 1)

AndKleene(a, b, n) ==
  Column([i \in 0 .. n - 1 |-> a.data[i] * b.data[i]],
         Packed(n, {i \in 0 .. n - 1 : AndValid(Bit(a.vp, i), a.data[i], Bit(b.vp, i), b.data[i])}))
OrKleene(a, b, n) ==
  Column([i \in 0 .. n - 1 |-> a.data[i] + b.data[i] - a.data[i] * b.data[i]],
         Packed(n, {i \in 0 .. n - 1 : OrValid(Bit(a.vp, i), a.data[i], Bit(b.vp, i), b.data[i])}))

NotBool(a, n) ==
  Column([i \in 0 .. n - 1 |-> 1 - a.data[i]], Packed(n, {i \in 0 .. n - 1 : Bit(a.vp, i)}))

\* Whole bytes, padding and all.
ValidityAnd(a, b, n) == [k \in 0 .. BytesFor(n) - 1 |-> a[k] \cap b[k]]
ValidityOr(a, b, n) == [k \in 0 .. BytesFor(n) - 1 |-> a[k] \cup b[k]]

FillNull(a, fill, n) ==
  IF a.vp = NullPtr THEN a.data ELSE [i \in 0 .. n - 1 |-> IF Bit(a.vp, i) THEN a.data[i] ELSE fill]

IsNull(vp, n) ==
  IF vp = NullPtr THEN [i \in 0 .. n - 1 |-> 0]
  ELSE [i \in 0 .. n - 1 |-> IF Bit(vp, i) THEN 0 ELSE 1]

-----------------------------------------------------------------------------
(* Casts.  A float counts halves.                                          *)

\* Towards zero.
Truncated(h) == Quotient(h, 2)

Converted(v) == [valid |-> TRUE, data |-> v]
Fails == [valid |-> FALSE, data |-> 0]
When(test, v) == IF test THEN Converted(v) ELSE Fails

\* Mutant: a float above the minimum's predecessor is refused.
FloatToI32Strict(h) ==
  When(AtMost(-Two(Width), h) /\ Below(h, Two(Width)), Truncated(h))

FloatToI32(h) ==
  When(Below(2 * (-Two(Width - 1) - 1), h) /\ Below(h, 2 * Two(Width - 1)), Truncated(h))
FloatToU32(h) == When(AtMost(0, h) /\ Below(h, 2 * Two(Width)), Truncated(h))
FloatToI64(h) ==
  When(AtMost(-2 * Two(2 * Width - 1), h) /\ Below(h, 2 * Two(2 * Width - 1)), Truncated(h))
FloatToBool(h) == When(h # NaN, IF h # 0 THEN 1 ELSE 0)

I32ToU32(v) == When(v >= 0, v)
U32ToI32(v) == When(v <= Two(Width - 1) - 1, v)
WideToI32(v) == Converted(WrapSigned(Width, v))
WideToU32(v) == Converted(WrapUnsigned(Width, v))
IntToBool(v) == Converted(IF v # 0 THEN 1 ELSE 0)
IntToWide(v) == Converted(v)
IntToFloat(v) == Converted(2 * v)
BoolToFloat(v) == Converted(IF v # 0 THEN 2 ELSE 0)
BoolToInt(v) == Converted(IF v # 0 THEN 1 ELSE 0)

CastTo(from, to, v) ==
  CASE IsFloat(from) /\ IsFloat(to) -> Converted(v)
    [] IsFloat(from) /\ to = "i32" -> FloatToI32(v)
    [] IsFloat(from) /\ to = "u32" -> FloatToU32(v)
    [] IsFloat(from) /\ to = "i64" -> FloatToI64(v)
    [] IsFloat(from) /\ to = "bool" -> FloatToBool(v)
    [] from = "bool" /\ IsFloat(to) -> BoolToFloat(v)
    [] from = "bool" /\ ~IsFloat(to) -> BoolToInt(v)
    [] from \in {"i32", "u32", "i64"} /\ IsFloat(to) -> IntToFloat(v)
    [] from \in {"i32", "u32", "i64"} /\ to = "bool" -> IntToBool(v)
    [] from \in {"i32", "u32"} /\ to = "i64" -> IntToWide(v)
    [] from = "i32" /\ to = "u32" -> I32ToU32(v)
    [] from = "u32" /\ to = "i32" -> U32ToI32(v)
    [] from = "i64" /\ to = "i32" -> WideToI32(v)
    [] from = "i64" /\ to = "u32" -> WideToU32(v)

\* The loop of every cast: a null row stays null, and its data becomes 0.
CastColumn(a, from, to, n) ==
  LET r == [i \in 0 .. n - 1 |-> IF Bit(a.vp, i) THEN CastTo(from, to, a.data[i]) ELSE Fails] IN
  Column([i \in 0 .. n - 1 |-> r[i].data], Packed(n, {i \in 0 .. n - 1 : r[i].valid}))
=============================================================================
