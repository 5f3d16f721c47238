---------------------------- MODULE ExprRuntime ----------------------------
(***************************************************************************)
(* Who owns the temporaries of an expression (expr/runtime.ts and the      *)
(* evaluator of expr/compile.ts).                                          *)
(*                                                                         *)
(* A plan evaluates an expression bottom-up.  Each value says of its data, *)
(* validity and dictionary whether it owns them or borrows them from a     *)
(* column of the frame; an owned buffer is reused in place or freed by the *)
(* node that consumes it, and the runtime frees what is left at the end.   *)
(* The evaluator is recursive; here its pending operands are a stack, and  *)
(* a step is one node, so a behaviour is the evaluation of one expression. *)
(*                                                                         *)
(* The state of a Runtime is passed through a node as the code passes it:  *)
(* what each rt.alloc, rt.free and rt.call does to it, in the code's order.*)
(* The two buffers of a dictionary are allocated and freed together and    *)
(* count as one.                                                           *)
(***************************************************************************)
EXTENDS Integers, Sequences, FiniteSets

CONSTANTS
  Addresses,  \* the addresses of the arena, as numbers
  MaxNodes,   \* bound: nodes of an expression and columns compacted
  Features    \* what expressions and plans have, of AllFeatures

\* new dictionaries: fillNull with a new string, and str.slice
\* consumed dictionaries: a node whose operand is one of those
\* mask casts: a cast of a comparison
AllFeatures == {"new dictionaries", "consumed dictionaries", "mask casts"}

\* The columns of the frame: 0 stands for no buffer.
Source(kind, data, vp, dict) == [kind |-> kind, data |-> data, vp |-> vp, dict |-> dict]
Columns == {Source("numeric", 1, 0, 0), Source("numeric", 2, 3, 0),
            Source("utf8", 4, 5, 6), Source("bool", 7, 8, 0)}
Sources == 1 .. 8

ASSUME ExprAssumption ==
  /\ Sources \subseteq Addresses /\ Addresses \subseteq Nat \ {0}
  /\ MaxNodes \in Nat
  /\ Features \subseteq AllFeatures

VARIABLES
  plan,    \* what runs: a column plan or a filter
  phase,   \* eval, selection, done or thrown
  rt,      \* the Runtime: [owned, live, last, faults]
  stack,   \* the values of the operands evaluated so far
  mask,    \* the effective mask of a selection
  result,  \* the buffers handed to the caller
  nodes    \* how many nodes have been evaluated, and columns compacted

vars == <<plan, phase, rt, stack, mask, result, nodes>>

-----------------------------------------------------------------------------
(* The runtime: owned is what it tracks, live what the arena has allocated,*)
(* last the address the latest alloc gave.                                 *)

Init ==
  /\ plan \in {"column", "filter"}
  /\ phase = "eval"
  /\ rt = [owned |-> {}, live |-> Sources, last |-> 0, faults |-> {}]
  /\ stack = << >> /\ mask = 0 /\ result = {} /\ nodes = 0

\* ctx.mod.alloc hands out the lowest free address.
ModAlloc(r) ==
  LET free == Addresses \ r.live
      p == CHOOSE q \in free : \A x \in free : q <= x IN
  [r EXCEPT !.live = @ \cup {p}, !.last = p]

Fault(r, what) == [r EXCEPT !.faults = @ \cup {what}]

ModFree(r, p) ==
  IF p \in r.live THEN [r EXCEPT !.live = @ \ {p}] ELSE Fault(r, "freed what is not allocated")

Alloc(r) == LET a == ModAlloc(r) IN [a EXCEPT !.owned = @ \cup {a.last}]

Free(r, p) == IF p \in r.owned THEN ModFree([r EXCEPT !.owned = @ \ {p}], p) ELSE r
FreeIf(r, owns, p) == IF owns THEN Free(r, p) ELSE r

Transfer(r, p) == [r EXCEPT !.owned = @ \ {p}]

\* Mutant: freeAll forgets the pointers without freeing them.
FreeAllNothing(r) == [r EXCEPT !.owned = {}]

FreeAll(r) ==
  LET f == [r EXCEPT !.live = @ \ r.owned, !.owned = {}] IN
  IF r.owned \subseteq r.live THEN f ELSE Fault(f, "freed what is not allocated")

\* freeDict goes to the arena directly.
FreeDict(r, owns, p) == IF owns THEN ModFree(r, p) ELSE r

\* A kernel, or a loop over views, reads some buffers and writes another; it
\* may write a buffer the runtime allocated or a result's, never a column's.
Reads(r, ptrs) ==
  IF ptrs \ {0} \subseteq r.live THEN r ELSE Fault(r, "read what is not allocated")
Writes(r, p) ==
  IF p \in r.live \ Sources THEN r ELSE Fault(r, "wrote what is not its own")
Call(r, ptrs, out) == Writes(Reads(r, ptrs), out)

-----------------------------------------------------------------------------
(* Values.  A mask's own buffer is its data here.                          *)

Validity(p, owns) == [ptr |-> p, owns |-> owns]
AllValid == Validity(0, FALSE)

\* Values a node builds own their data.
Value(rep, data, vp, dict, ownDict) ==
  [rep |-> rep, data |-> data, own |-> TRUE, vp |-> vp, dict |-> dict, ownDict |-> ownDict]
ColOf(data, vp) == Value("column", data, vp, 0, FALSE)
MaskOf(data, vp) == Value("mask", data, vp, 0, FALSE)
BoolCol(data, vp) == Value("boolcol", data, vp, 0, FALSE)

Numeric(v) == v.rep = "column" /\ v.dict = 0
Utf8(v) == v.rep = "column" /\ v.dict # 0
Boolean(v) == v.rep \in {"mask", "boolcol"}

\* What a node leaves: the runtime and its value.
Gives(r, v) == [rt |-> r, v |-> v]
GivesVp(r, p, owns) == [rt |-> r, vp |-> Validity(p, owns)]

FreeValidity(r, vp) == FreeIf(r, vp.owns, vp.ptr)
FreeVal(r, v) == FreeDict(FreeValidity(FreeIf(r, v.own, v.data), v.vp), v.ownDict, v.dict)

AllNull(r) == LET a == Alloc(r) IN GivesVp(a, a.last, TRUE)
NullIf(null, r) == IF null THEN AllNull(r) ELSE GivesVp(r, 0, FALSE)

\* Mutant: the operands' validities are not freed.
CombineValidityLeaks(r, a, b) ==
  LET n == Alloc(r) IN
  IF b.ptr = 0 THEN [rt |-> r, vp |-> a]
  ELSE IF a.ptr = 0 THEN [rt |-> r, vp |-> b]
  ELSE GivesVp(Call(n, {a.ptr, b.ptr}, n.last), n.last, TRUE)

CombineValidity(r, a, b) ==
  LET n == Alloc(r)
      k == Call(n, {a.ptr, b.ptr}, n.last) IN
  IF b.ptr = 0 THEN [rt |-> r, vp |-> a]
  ELSE IF a.ptr = 0 THEN [rt |-> r, vp |-> b]
  ELSE GivesVp(FreeValidity(FreeValidity(k, a), b), n.last, TRUE)

\* Into a fresh buffer; the operand's data is freed, its validity kept.
Fresh(r, v) == LET a == Alloc(r) IN FreeIf(Call(a, {v.data}, a.last), v.own, v.data)

ToBoolCol(r, v) ==
  LET f == Fresh(r, v) IN IF v.rep = "boolcol" THEN Gives(r, v) ELSE Gives(f, BoolCol(f.last, v.vp))

ToMask(r, v) ==
  LET f == Fresh(r, v) IN IF v.rep = "mask" THEN Gives(r, v) ELSE Gives(f, MaskOf(f.last, v.vp))

-----------------------------------------------------------------------------
(* Nodes.  A node that takes the allocation of its result before it        *)
(* evaluates an operand takes it after, which only changes addresses.      *)

\* Mutant: a column's value owns the column's data.
EvalColOwned(r, c, realign) ==
  Gives(r, [Value(IF c.kind = "bool" THEN "boolcol" ELSE "column", c.data,
                  Validity(c.vp, FALSE), c.dict, FALSE) EXCEPT !.own = TRUE])

\* A sliced column's validity is realigned into a temporary.
EvalCol(r, c, realign) ==
  LET n == Alloc(r)
      o == IF realign THEN GivesVp(Call(n, {c.vp}, n.last), n.last, TRUE) ELSE GivesVp(r, c.vp, FALSE)
      rep == IF c.kind = "bool" THEN "boolcol" ELSE "column" IN
  Gives(o.rt, [Value(rep, c.data, o.vp, c.dict, FALSE) EXCEPT !.own = FALSE])

BroadcastScalar(r, bool, null) ==
  LET a == Alloc(r)
      n == NullIf(null, a) IN
  Gives(n.rt, IF bool THEN BoolCol(a.last, n.vp) ELSE ColOf(a.last, n.vp))

BroadcastPredicate(r, null) ==
  LET a == Alloc(r)
      n == NullIf(null, a) IN
  Gives(n.rt, MaskOf(a.last, n.vp))

\* The buffer of an owned operand, or a fresh one.
Out(r, v) == IF v.own THEN [r EXCEPT !.last = v.data] ELSE Alloc(r)
Out2(r, v, w) == IF v.own THEN Out(r, v) ELSE Out(r, w)

\* arithScalar and neg; a null scalar, or an integer division by 0, nulls all.
ArithScalar(r, v, null) ==
  LET o == Out(r, v)
      n == AllNull(FreeValidity(o, v.vp)) IN
  IF null THEN Gives(n.rt, ColOf(o.last, n.vp))
  ELSE Gives(Call(o, {v.data}, o.last), ColOf(o.last, v.vp))

\* Integer division also masks the zero divisors.
ArithVec(r, l, m, zeroes) ==
  LET z  == IF zeroes THEN Alloc(r) ELSE r
      zm == IF zeroes THEN Validity(z.last, TRUE) ELSE AllValid
      o  == Out2(z, l, m)
      k  == Call(o, {l.data, m.data}, o.last)
      f  == FreeIf(FreeIf(k, l.own /\ o.last # l.data, l.data), m.own /\ o.last # m.data, m.data)
      c  == CombineValidity(f, l.vp, m.vp)
      cz == CombineValidity(c.rt, c.vp, zm) IN
  Gives(cz.rt, ColOf(o.last, cz.vp))

CompareVec(r, l, m) ==
  LET a == Alloc(r)
      k == Call(a, {l.data, m.data}, a.last)
      c == CombineValidity(FreeIf(FreeIf(k, l.own, l.data), m.own, m.data), l.vp, m.vp) IN
  Gives(c.rt, MaskOf(a.last, c.vp))

\* Also evalUtf8Compare, which reads and frees the dictionary of the operand.
CompareScalar(r, v, null) ==
  LET a == Alloc(Reads(r, {v.dict}))
      f == FreeDict(FreeIf(Call(a, {v.data}, a.last), v.own, v.data), v.ownDict, v.dict)
      n == AllNull(FreeValidity(f, v.vp)) IN
  IF null THEN Gives(n.rt, MaskOf(a.last, n.vp)) ELSE Gives(f, MaskOf(a.last, v.vp))

\* The validity a Kleene kernel writes, or a scratch when nothing is null.
KleeneValidity(r, a, b) ==
  LET n == Alloc(r)
      k == Call(n, {a.ptr, b.ptr}, n.last) IN
  IF a.ptr = 0 /\ b.ptr = 0 THEN GivesVp(Free(k, n.last), 0, FALSE)
  ELSE GivesVp(FreeValidity(FreeValidity(k, a), b), n.last, TRUE)

Kleene(r, l, m) ==
  LET a == ToBoolCol(r, l)
      b == ToBoolCol(a.rt, m)
      o == Out2(b.rt, a.v, b.v)
      k == KleeneValidity(Call(o, {a.v.data, b.v.data}, o.last), a.v.vp, b.v.vp)
      f == FreeIf(k.rt, a.v.own /\ o.last # a.v.data, a.v.data) IN
  Gives(FreeIf(f, b.v.own /\ o.last # b.v.data, b.v.data), BoolCol(o.last, k.vp))

NotBool(r, v) ==
  LET a == ToBoolCol(r, v)
      o == Out(a.rt, a.v)
      k == KleeneValidity(Call(o, {a.v.data}, o.last), a.v.vp, AllValid) IN
  Gives(k.rt, BoolCol(o.last, k.vp))

IsNull(r, v) ==
  LET a == Alloc(r) IN
  Gives(FreeVal(Call(a, {v.vp.ptr}, a.last), v), BoolCol(a.last, AllValid))

\* fillNull of numbers and booleans; the identity when nothing is null.
FillNull(r, v) ==
  LET b == IF Boolean(v) THEN ToBoolCol(r, v) ELSE Gives(r, v)
      o == Out(b.rt, b.v)
      k == FreeValidity(Call(o, {b.v.data, b.v.vp.ptr}, o.last), b.v.vp) IN
  IF v.vp.ptr = 0 THEN b
  ELSE Gives(k, Value(b.v.rep, o.last, AllValid, 0, FALSE))

\* fillNull of strings, with a string the dictionary has or has not.
FillNullUtf8(r, v, new) ==
  LET d == IF new THEN Alloc(Reads(r, {v.dict})) ELSE [Reads(r, {v.dict}) EXCEPT !.last = v.dict]
      o == Out(IF new THEN FreeDict(d, v.ownDict, v.dict) ELSE d, v)
      k == FreeValidity(Call(o, {v.data, v.vp.ptr}, o.last), v.vp) IN
  IF v.vp.ptr = 0 THEN Gives(r, v)
  ELSE Gives(k, Value("column", o.last, AllValid, d.last, new \/ v.ownDict))

StrSlice(r, v) ==
  LET d == Alloc(Reads(r, {v.dict}))
      o == Out(d, v)
      k == FreeDict(Call(o, {v.data}, o.last), v.ownDict, v.dict) IN
  Gives(k, Value("column", o.last, v.vp, d.last, TRUE))

\* evalCast takes a mask for a column: its data pointer is undefined, and the
\* kernel gets an address no one allocated.
Undefined == -1
InData(v) == IF v.rep = "mask" THEN Undefined ELSE v.data
InOwns(v) == v.rep # "mask" /\ v.own

\* A conversion by kernel, into the operand's buffer when the sizes agree.
Cast(r, v, bool, sameSize, lossy) ==
  LET o == IF InOwns(v) /\ sameSize THEN Out(r, v) ELSE Alloc(r)
      n == Alloc(o)
      k == Writes(Call(n, {InData(v), v.vp.ptr}, o.last), n.last)
      f == IF lossy THEN FreeValidity(k, v.vp) ELSE Free(k, n.last)
      vp == IF lossy THEN Validity(n.last, TRUE) ELSE v.vp IN
  Gives(FreeIf(f, InOwns(v) /\ o.last # v.data, v.data),
        IF bool THEN BoolCol(o.last, vp) ELSE ColOf(o.last, vp))

\* dt accessors, and timestamp to date32: computed in JS into a fresh buffer.
Extract(r, v) == LET f == Fresh(Reads(r, {v.vp.ptr}), v) IN Gives(f, ColOf(f.last, v.vp))

\* An aggregation leaves a scalar; first and last take a scratch; count reads
\* the validity only.
EvalAgg(r, v, count) ==
  LET k == Reads(r, IF count THEN {v.vp.ptr} ELSE {v.vp.ptr, v.data})
      a == Alloc(k) IN
  FreeVal(IF count THEN k ELSE Free(a, a.last), v)

-----------------------------------------------------------------------------
(* The evaluation of an expression.                                        *)

Evaluating == phase = "eval" /\ nodes < MaxNodes
Top == stack[Len(stack)]
Under == stack[Len(stack) - 1]
Popped(n) == SubSeq(stack, 1, Len(stack) - n)

\* A node replaces its n operands by its value.
Replace(n, g) ==
  /\ rt' = [g.rt EXCEPT !.last = 0]
  /\ stack' = Append(Popped(n), g.v)
  /\ nodes' = nodes + 1
  /\ UNCHANGED <<plan, phase, mask, result>>

\* The operands of a node, and the dictionaries it may consume.
Consumable(v) == ~v.ownDict \/ "consumed dictionaries" \in Features
Unary(Kind(_)) == Evaluating /\ stack # << >> /\ Kind(Top) /\ Consumable(Top)
Binary(Kind(_)) == Evaluating /\ Len(stack) >= 2 /\ Kind(Under) /\ Kind(Top)
EveryKind(v) == TRUE
Castable(v) == Numeric(v) \/ v.rep = "boolcol" \/ (v.rep = "mask" /\ "mask casts" \in Features)
MakesDicts == "new dictionaries" \in Features

Load ==
  /\ Evaluating
  /\ \E c \in Columns, realign \in BOOLEAN :
       (realign => c.vp # 0) /\ Replace(0, EvalCol(rt, c, realign))

Constant ==
  /\ Evaluating
  /\ \E null \in BOOLEAN :
       \/ \E bool \in BOOLEAN : Replace(0, BroadcastScalar(rt, bool, null))
       \/ Replace(0, BroadcastPredicate(rt, null))

\* With a scalar, or on the column alone.
NumericNode ==
  /\ Unary(Numeric)
  /\ \/ \E null \in BOOLEAN :
            Replace(1, ArithScalar(rt, Top, null)) \/ Replace(1, CompareScalar(rt, Top, null))
     \/ Replace(1, FillNull(rt, Top))
     \/ Replace(1, Extract(rt, Top))

Utf8Node ==
  /\ Unary(Utf8)
  /\ \/ \E null \in BOOLEAN : Replace(1, CompareScalar(rt, Top, null))
     \/ \E new \in BOOLEAN : (new => MakesDicts) /\ Replace(1, FillNullUtf8(rt, Top, new))
     \/ MakesDicts /\ Replace(1, StrSlice(rt, Top))

\* A comparison with true is the identity, one with false the negation.
BooleanNode ==
  /\ Unary(Boolean)
  /\ \/ Replace(1, ToBoolCol(rt, Top))
     \/ Replace(1, NotBool(rt, Top))
     \/ Replace(1, FillNull(rt, Top))

IsNullNode == Unary(EveryKind) /\ Replace(1, IsNull(rt, Top))

CastNode ==
  /\ Unary(Castable)
  /\ \E bool, sameSize, lossy \in BOOLEAN :
       /\ bool => ~sameSize
       /\ Boolean(Top) => ~bool /\ ~sameSize /\ ~lossy
       /\ Replace(1, Cast(rt, Top, bool, sameSize, lossy))

BinaryNode ==
  \/ Binary(Numeric) /\ \E zeroes \in BOOLEAN : Replace(2, ArithVec(rt, Under, Top, zeroes))
  \/ Binary(Numeric) /\ Replace(2, CompareVec(rt, Under, Top))
  \/ Binary(Boolean) /\ Replace(2, Kleene(rt, Under, Top))

\* The scalar becomes a literal operand, a constant or the plan's result.
Aggregate ==
  /\ Unary(EveryKind)
  /\ \E count \in BOOLEAN :
       (Boolean(Top) => count) /\ rt' = [EvalAgg(rt, Top, count) EXCEPT !.last = 0]
  /\ stack' = Popped(1)
  /\ nodes' = nodes + 1
  /\ UNCHANGED <<plan, phase, mask, result>>

-----------------------------------------------------------------------------
(* The end of a plan.                                                      *)

\* A buffer of the result: the value's own, or a copy of what it borrows.
Keep(k, owns, p) ==
  IF p = 0 THEN k
  ELSE IF owns THEN [rt |-> Transfer(k.rt, p), bufs |-> k.bufs \cup {p}]
  ELSE LET a == ModAlloc(k.rt) IN
       [rt |-> Call(a, {p}, a.last), bufs |-> k.bufs \cup {a.last}]

FinalizeColumn(r, v) ==
  LET b == IF v.rep = "mask" THEN ToBoolCol(r, v) ELSE Gives(r, v)
      d == Keep([rt |-> b.rt, bufs |-> {}], b.v.own, b.v.data) IN
  Keep(Keep(d, b.v.vp.owns, b.v.vp.ptr), b.v.ownDict, b.v.dict)

Done(r, bufs) ==
  /\ phase' = "done"
  /\ rt' = [FreeAll(r) EXCEPT !.last = 0]
  /\ result' = bufs /\ stack' = << >> /\ mask' = 0
  /\ UNCHANGED <<plan, nodes>>

ColumnDone ==
  /\ phase = "eval" /\ plan = "column" /\ Len(stack) = 1
  /\ LET k == FinalizeColumn(rt, Top) IN Done(k.rt, k.bufs)

ScalarDone ==
  /\ phase = "eval" /\ plan = "column" /\ stack = << >> /\ nodes > 0
  /\ Done(rt, {})

\* The effective mask: the rows that are true and valid.
FilterDone ==
  /\ phase = "eval" /\ plan = "filter" /\ Len(stack) = 1 /\ Boolean(Top)
  /\ LET m == ToMask(rt, Top)
         o == Out(m.rt, m.v)
         k == FreeValidity(Call(o, {m.v.data, m.v.vp.ptr}, o.last), m.v.vp)
         combined == m.v.vp.ptr # 0 IN
     /\ mask' = IF combined THEN o.last ELSE m.v.data
     /\ rt' = [IF combined THEN k ELSE m.rt EXCEPT !.last = 0]
  /\ phase' = "selection" /\ stack' = << >>
  /\ UNCHANGED <<plan, result, nodes>>

\* A column compacted by the mask; its validity is given back when no row of it
\* is null.
Compact(c, nulls) ==
  /\ phase = "selection" /\ nodes < MaxNodes
  /\ nulls => c.vp # 0
  /\ LET d == ModAlloc(rt)
         k == Call(d, {c.data, mask}, d.last)
         n == ModAlloc(k)
         w == Call(n, {c.vp, mask}, n.last)
         v == IF c.vp = 0 THEN k ELSE IF nulls THEN w ELSE ModFree(w, n.last)
         s == ModAlloc(v)
         x == IF c.dict = 0 THEN v ELSE Call(s, {c.dict}, s.last) IN
     /\ rt' = [x EXCEPT !.last = 0]
     /\ result' = result \cup (x.live \ rt.live)
  /\ nodes' = nodes + 1
  /\ UNCHANGED <<plan, phase, stack, mask>>

SelectionFree ==
  /\ phase = "selection"
  /\ Done(rt, result)

\* An exception: a plan's execute frees what it owns.
Throw ==
  /\ phase = "eval" /\ plan = "column"
  /\ Done(rt, {})

\* A filter's execute does not.
ThrowInFilter ==
  /\ phase = "eval" /\ plan = "filter"
  /\ phase' = "thrown" /\ stack' = << >>
  /\ UNCHANGED <<plan, rt, mask, result, nodes>>

Next ==
  \/ Load \/ Constant \/ NumericNode \/ Utf8Node \/ BooleanNode
  \/ IsNullNode \/ CastNode \/ BinaryNode \/ Aggregate
  \/ ColumnDone \/ ScalarDone \/ FilterDone \/ SelectionFree \/ Throw \/ ThrowInFilter
  \/ \E c \in Columns, nulls \in BOOLEAN : Compact(c, nulls)

Spec == Init /\ [][Next]_vars

-----------------------------------------------------------------------------
(* Properties.                                                             *)

Buffer == Addresses \cup {0}
Values == [rep : {"column", "mask", "boolcol"}, data : Addresses, own : BOOLEAN,
           vp : [ptr : Buffer, owns : BOOLEAN], dict : Buffer, ownDict : BOOLEAN]

\* Every variable ranges over its type, and what a value borrows is a column's.
TypeOK ==
  /\ plan \in {"column", "filter"} /\ phase \in {"eval", "selection", "done", "thrown"}
  /\ rt.owned \subseteq Addresses \ Sources /\ rt.live \subseteq Addresses
  /\ Sources \subseteq rt.live
  /\ mask \in Buffer /\ result \subseteq Addresses /\ nodes \in 0 .. MaxNodes
  /\ \A i \in 1 .. Len(stack) :
       LET v == stack[i] IN
       /\ v \in Values
       /\ v.own <=> v.data \notin Sources
       /\ v.vp.ptr # 0 => (v.vp.owns <=> v.vp.ptr \notin Sources)
       /\ v.dict # 0 => (v.ownDict <=> v.dict \notin Sources)

\* The runtime tracks only what it has neither freed nor given away.
OwnedIsLive == rt.owned \subseteq rt.live \ result

\* The buffers the values say they own, each at the place that says so.
Owning ==
  {x \in (1 .. Len(stack)) \X {"data", "vp", "dict"} :
    \/ x[2] = "data" /\ stack[x[1]].own
    \/ x[2] = "vp" /\ stack[x[1]].vp.owns
    \/ x[2] = "dict" /\ stack[x[1]].ownDict}
BufferAt(x) ==
  LET v == stack[x[1]] IN
  CASE x[2] = "data" -> v.data [] x[2] = "vp" -> v.vp.ptr [] x[2] = "dict" -> v.dict

\* Between two nodes the runtime holds exactly the buffers of the operands, each
\* owned by one of them: no node forgets a temporary or shares one.
TempsAreOperands ==
  phase = "eval" =>
    /\ rt.owned = {BufferAt(x) : x \in Owning}
    /\ \A x, y \in Owning : BufferAt(x) = BufferAt(y) => x = y

\* What every node preserves: the runtime tracks live buffers only, and each is
\* owned by one operand, which borrows the rest from the frame.
TempsInv == TypeOK /\ OwnedIsLive /\ TempsAreOperands

\* No node reads a buffer that is freed or missing, writes a column of the
\* frame, or frees what is not allocated.
KernelsSound == rt.faults = {}

\* A plan that ended, by its result or an exception, leaves the columns and the
\* result allocated, and nothing else; a filter does when its selection is freed.
NothingLeft == phase = "done" => rt.owned = {} /\ rt.live = Sources \cup result
=============================================================================
