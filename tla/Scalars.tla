------------------------------ MODULE Scalars ------------------------------
(***************************************************************************)
(* The values of a column.  Integers have a width, floats are integers in  *)
(* a unit of the model's choice with the infinities and NaN beyond them:   *)
(* the rounding of a float operation is not modelled.                      *)
(***************************************************************************)
EXTENDS Integers

CONSTANTS
  Width,     \* the bits of an i32 or a u32; an i64 has twice as many
  PosInf     \* infinity, above every finite value

ASSUME WidthAssumption == Width \in Nat \ {0}
ASSUME PosInfAssumption == PosInf \in Nat \ {0}

\* 2^w
Two(w) == LET two[k \in 0 .. w] == IF k = 0 THEN 1 ELSE 2 * two[k - 1] IN two[w]
Unsigned(w) == 0 .. Two(w) - 1
Signed(w) == -Two(w - 1) .. Two(w - 1) - 1

WrapUnsigned(w, v) == v % Two(w)
WrapSigned(w, v) == ((v + Two(w - 1)) % Two(w)) - Two(w - 1)

\* Rust divides towards zero.
Magnitude(v) == IF v < 0 THEN -v ELSE v
Quotient(a, b) ==
  LET q == Magnitude(a) \div Magnitude(b) IN IF (a < 0) # (b < 0) THEN -q ELSE q
Remainder(a, b) == a - b * Quotient(a, b)

NegInf == -PosInf
NaN == PosInf + 1

Finite(x) == NegInf < x /\ x < PosInf

\* No comparison but # holds for NaN.
Below(x, y) == x # NaN /\ y # NaN /\ x < y
AtMost(x, y) == x # NaN /\ y # NaN /\ x <= y

Plus(x, y) ==
  IF NaN \in {x, y} \/ {x, y} = {PosInf, NegInf} THEN NaN
  ELSE IF Finite(x) /\ Finite(y) THEN x + y
  ELSE IF Finite(x) THEN y ELSE x

\* The square of x - p/q, in units of 1/q^2.
SquaredDeviation(x, p, q) ==
  IF NaN \in {x, p} \/ (x = p /\ ~Finite(x)) THEN NaN
  ELSE IF Finite(x) /\ Finite(p) THEN (x * q - p) * (x * q - p)
  ELSE PosInf
=============================================================================
