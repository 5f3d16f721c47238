------------------------- MODULE ExprRuntimeProofs -------------------------
(***************************************************************************)
(* Proofs about the temporaries of an expression: no node forgets, shares, *)
(* frees twice or reads freed memory, for every expression and every plan. *)
(*                                                                         *)
(* Memory does not run out here (Addresses is infinite): an allocation     *)
(* that fails is an exception, which is the action Throw.  The two         *)
(* features that the runs show to break ownership are left out.            *)
(*                                                                         *)
(* The argument is compositional.  Between two calls a runtime is known by *)
(* the set O it tracks and the set B it has given away (Is).  A value owns *)
(* up to three buffers (Own); a node whose operand owns part of O, apart   *)
(* from F which the other operands own, leaves F and what its own value    *)
(* owns (Holds).                                                           *)
(***************************************************************************)
EXTENDS ExprRuntime, TLAPS, FiniteSetTheorems, WellFoundedInduction

Unbounded == ~IsFiniteSet(Addresses)
NoKnownFault == Features \subseteq {"new dictionaries"}

\* Every set of naturals has a least element.
LEMMA LeastElement ==
  ASSUME NEW T, T \subseteq Nat, T # {}
  PROVE  \E x \in T : \A y \in T : x <= y
<1>1. PICK x \in T : \A y \in T : <<y, x>> \notin OpToRel(<, Nat)
  BY WFMin, NatLessThanWellFounded, Zenon
<1>2. \A y \in T : ~(y < x)
  BY <1>1, Zenon DEF OpToRel
<1> QED BY <1>2

LEMMA SourcesFacts ==
  IsFiniteSet(Sources) /\ Sources \subseteq Addresses /\ Addresses \subseteq Nat \ {0} /\ 0 \notin Addresses
<1>1. IsFiniteSet(1 .. 8)
  BY FS_Interval, 1 \in Int, 8 \in Int
<1>2. IsFiniteSet(Sources)
  BY <1>1 DEF Sources
<1> QED BY <1>2, ExprAssumption

-----------------------------------------------------------------------------
(* Runtimes.                                                               *)

\* Buffers that are tracked, or given away.
Temps(S) == S \subseteq Addresses \ Sources /\ IsFiniteSet(S)

Runtimes == [owned : SUBSET Nat, live : SUBSET Nat, last : Nat, faults : SUBSET STRING]

Is(r, O, B) ==
  /\ r \in Runtimes
  /\ r.owned = O /\ r.live = Sources \cup O \cup B /\ r.faults = {}
  /\ Temps(O) /\ Temps(B) /\ O \cap B = {}

\* What a kernel may be given to read.
Readable(O, B) == Sources \cup O \cup B \cup {0}

LEMMA TempsFacts ==
  ASSUME NEW S, Temps(S)
  PROVE  /\ S \subseteq Addresses /\ S \subseteq Nat /\ S \cap Sources = {}
         /\ \A p \in Addresses \ Sources : Temps(S \cup {p})
         /\ \A T : T \subseteq S => Temps(T)
BY SourcesFacts, FS_AddElement, FS_Subset DEF Temps

LEMMA FreshAddress ==
  ASSUME Unbounded, NEW r, NEW O, NEW B, Is(r, O, B)
  PROVE  LET m == ModAlloc(r)  p == m.last IN
         /\ p \in Addresses \ Sources /\ p \notin O \cup B
         /\ m \in Runtimes /\ m.owned = O /\ m.live = Sources \cup O \cup B \cup {p} /\ m.faults = {}
<1> DEFINE free == Addresses \ r.live
           p == CHOOSE q \in free : \A x \in free : q <= x
<1>1. r.live = Sources \cup O \cup B
  BY DEF Is
<1>2. IsFiniteSet(r.live)
  <2>1. IsFiniteSet(Sources) /\ IsFiniteSet(O) /\ IsFiniteSet(B)
    BY SourcesFacts DEF Is, Temps
  <2>2. IsFiniteSet(Sources \cup O)
    BY <2>1, FS_Union
  <2>3. IsFiniteSet((Sources \cup O) \cup B)
    BY <2>1, <2>2, FS_Union
  <2> QED BY <1>1, <2>3
<1>3. free # {}
  <2>1. free = {} => Addresses \subseteq r.live
    OBVIOUS
  <2> QED BY <1>2, <2>1, FS_Subset DEF Unbounded
<1>4. free \subseteq Nat
  BY SourcesFacts
<1>5. p \in free
  <2>1. \E q \in free : \A x \in free : q <= x
    BY <1>3, <1>4, LeastElement
  <2> HIDE DEF free
  <2> QED BY <2>1
<1>6. ModAlloc(r) = [[r EXCEPT !.live = @ \cup {p}] EXCEPT !.last = p]
  BY DEF ModAlloc
<1>7. p \in Nat /\ p \in Addresses \ Sources /\ p \notin O \cup B
  BY <1>1, <1>4, <1>5
<1> HIDE DEF p
<1>8. /\ ModAlloc(r) \in Runtimes /\ ModAlloc(r).owned = O /\ ModAlloc(r).last = p
      /\ ModAlloc(r).live = Sources \cup O \cup B \cup {p} /\ ModAlloc(r).faults = {}
  BY <1>1, <1>6, <1>7 DEF Is, Runtimes
<1> QED BY <1>7, <1>8

LEMMA Allocs ==
  ASSUME Unbounded, NEW r, NEW O, NEW B, Is(r, O, B)
  PROVE  /\ Is(Alloc(r), O \cup {Alloc(r).last}, B)
         /\ Alloc(r).last \in Addresses \ Sources /\ Alloc(r).last \notin O \cup B
<1> DEFINE m == ModAlloc(r)
<1>1. /\ m.last \in Addresses \ Sources /\ m.last \notin O \cup B
      /\ m \in Runtimes /\ m.owned = O /\ m.live = Sources \cup O \cup B \cup {m.last} /\ m.faults = {}
  BY FreshAddress
<1>2. Alloc(r) = [m EXCEPT !.owned = @ \cup {m.last}]
  BY DEF Alloc
<1> HIDE DEF m
<1>3. /\ Alloc(r) \in Runtimes /\ Alloc(r).owned = O \cup {m.last} /\ Alloc(r).last = m.last
      /\ Alloc(r).live = Sources \cup O \cup B \cup {m.last} /\ Alloc(r).faults = {}
  BY <1>1, <1>2 DEF Runtimes
<1>4. Temps(O \cup {m.last}) /\ Temps(B) /\ (O \cup {m.last}) \cap B = {}
  BY <1>1, TempsFacts DEF Is
<1>5. Sources \cup O \cup B \cup {m.last} = Sources \cup (O \cup {m.last}) \cup B
  OBVIOUS
<1> QED BY <1>1, <1>3, <1>4, <1>5 DEF Is

Piece(owns, p) == IF owns THEN {p} ELSE {}

LEMMA FreesIf ==
  ASSUME NEW r, NEW O, NEW B, Is(r, O, B), NEW owns, NEW p
  PROVE  /\ Is(FreeIf(r, owns, p), O \ Piece(owns, p), B)
         /\ FreeIf(r, owns, p).last = r.last
<1>0. Piece(owns, p) = IF owns THEN {p} ELSE {}
  BY DEF Piece
<1>1. CASE owns /\ p \in O
  <2>1. Temps(O \ {p})
    BY TempsFacts DEF Is
  <2>2. p \in O /\ p \notin Sources \cup B
    BY <1>1, TempsFacts DEF Is
  <2>3. FreeIf(r, owns, p) = ModFree([r EXCEPT !.owned = @ \ {p}], p)
    BY <1>1, <2>2 DEF FreeIf, Free, Is
  <2> DEFINE g == [r EXCEPT !.owned = @ \ {p}]
  <2>4. g \in Runtimes /\ g.owned = O \ {p} /\ g.live = r.live /\ g.last = r.last /\ g.faults = {}
    BY <2>2 DEF Is, Runtimes
  <2> HIDE DEF g
  <2>5. p \in g.live
    BY <2>2, <2>4 DEF Is
  <2>6. ModFree(g, p) = [g EXCEPT !.live = @ \ {p}]
    BY <2>5 DEF ModFree
  <2>7. /\ ModFree(g, p) \in Runtimes /\ ModFree(g, p).owned = O \ {p}
        /\ ModFree(g, p).live = r.live \ {p} /\ ModFree(g, p).last = r.last /\ ModFree(g, p).faults = {}
    BY <2>4, <2>6 DEF Runtimes
  <2>8. r.live \ {p} = Sources \cup (O \ {p}) \cup B
    BY <2>2 DEF Is
  <2> QED BY <1>0, <1>1, <2>1, <2>3, <2>7, <2>8 DEF Is, g
<1>2. CASE owns /\ p \notin O
  <2>1. FreeIf(r, owns, p) = r /\ O \ {p} = O
    BY <1>2 DEF FreeIf, Free, Is
  <2> QED BY <1>0, <1>2, <2>1
<1>3. CASE ~owns
  <2>1. FreeIf(r, owns, p) = r /\ O \ Piece(owns, p) = O
    BY <1>0, <1>3 DEF FreeIf
  <2> QED BY <2>1
<1> QED BY <1>1, <1>2, <1>3

LEMMA Frees ==
  ASSUME NEW r, NEW O, NEW B, Is(r, O, B), NEW p
  PROVE  Is(Free(r, p), O \ {p}, B) /\ Free(r, p).last = r.last
<1>1. Free(r, p) = FreeIf(r, TRUE, p) /\ Piece(TRUE, p) = {p}
  BY DEF FreeIf, Piece
<1>2. Is(FreeIf(r, TRUE, p), O \ Piece(TRUE, p), B) /\ FreeIf(r, TRUE, p).last = r.last
  BY FreesIf, Zenon
<1> QED BY <1>1, <1>2

LEMMA CallsSoundly ==
  ASSUME NEW r, NEW O, NEW B, Is(r, O, B), NEW ptrs, ptrs \subseteq Readable(O, B)
  PROVE  /\ Reads(r, ptrs) = r
         /\ \A out \in O \cup B : Writes(r, out) = r /\ Call(r, ptrs, out) = r
<1>1. Reads(r, ptrs) = r
  BY DEF Is, Readable, Reads
<1>2. \A out \in O \cup B : Writes(r, out) = r
  <2>1. r.live = Sources \cup O \cup B /\ (O \cup B) \cap Sources = {}
    BY TempsFacts DEF Is
  <2> QED BY <2>1 DEF Writes
<1> QED BY <1>1, <1>2 DEF Call

LEMMA LastSet ==
  ASSUME NEW r, NEW O, NEW B, Is(r, O, B), NEW p \in Nat
  PROVE  Is([r EXCEPT !.last = p], O, B) /\ [r EXCEPT !.last = p].last = p
BY DEF Is, Runtimes


-----------------------------------------------------------------------------
(* Values, and what they own.                                              *)

OwnVp(vp) == Piece(vp.owns, vp.ptr)
OwnData(v) == Piece(v.own, v.data)
OwnDict(v) == Piece(v.ownDict, v.dict)
Own(v) == OwnData(v) \cup OwnVp(v.vp) \cup OwnDict(v)

VpOk(vp) ==
  /\ vp \in [ptr : Buffer, owns : BOOLEAN]
  /\ vp.ptr = 0 => ~vp.owns
  /\ vp.ptr # 0 => (vp.owns <=> vp.ptr \notin Sources)

ValOk(v) ==
  /\ v \in Values /\ VpOk(v.vp)
  /\ v.own <=> v.data \notin Sources
  /\ v.dict = 0 => ~v.ownDict
  /\ v.dict # 0 => v.rep = "column" /\ (v.ownDict <=> v.dict \notin Sources)
  /\ OwnData(v) \cap OwnVp(v.vp) = {} /\ OwnData(v) \cap OwnDict(v) = {}
  /\ OwnVp(v.vp) \cap OwnDict(v) = {}

\* The runtime holds v, and F besides.
Holds(r, v, F, B) == Is(r, F \cup Own(v), B) /\ F \cap Own(v) = {} /\ ValOk(v)
HoldsVp(r, vp, F, B) == Is(r, F \cup OwnVp(vp), B) /\ F \cap OwnVp(vp) = {} /\ VpOk(vp)

LEMMA AllValidOk == VpOk(AllValid) /\ OwnVp(AllValid) = {} /\ AllValid.ptr = 0
BY DEF VpOk, OwnVp, AllValid, Validity, Buffer, Piece

LEMMA OwnedVpOk ==
  ASSUME NEW p \in Addresses \ Sources
  PROVE  VpOk(Validity(p, TRUE)) /\ OwnVp(Validity(p, TRUE)) = {p} /\ Validity(p, TRUE).ptr = p
BY SourcesFacts DEF VpOk, OwnVp, Validity, Buffer, Piece

LEMMA MakesValidity ==
  ASSUME NEW r, NEW F, NEW B, NEW p \in Addresses \ Sources, p \notin F, Is(r, F \cup {p}, B)
  PROVE  HoldsVp(GivesVp(r, p, TRUE).rt, GivesVp(r, p, TRUE).vp, F, B)
<1>1. GivesVp(r, p, TRUE).rt = r /\ GivesVp(r, p, TRUE).vp = Validity(p, TRUE)
  BY DEF GivesVp
<1> QED BY <1>1, OwnedVpOk DEF HoldsVp

\* What a value refers to may be read.
LEMMA ValueReadable ==
  ASSUME NEW v, ValOk(v)
  PROVE  /\ v.data \in Sources \cup OwnData(v) /\ v.data \in Addresses
         /\ v.vp.ptr \in Sources \cup OwnVp(v.vp) \cup {0}
         /\ v.dict \in Sources \cup OwnDict(v) \cup {0}
BY DEF ValOk, VpOk, Values, OwnData, OwnVp, OwnDict, Piece

LEMMA FreesValidity ==
  ASSUME NEW r, NEW O, NEW B, Is(r, O, B), NEW vp
  PROVE  Is(FreeValidity(r, vp), O \ OwnVp(vp), B) /\ FreeValidity(r, vp).last = r.last
BY FreesIf DEF FreeValidity, OwnVp

\* A new value made of the buffers p and vp.
LEMMA MakesPlain ==
  ASSUME NEW r, NEW F, NEW B, NEW p \in Addresses \ Sources, NEW vp, VpOk(vp),
         NEW rep \in {"column", "mask", "boolcol"},
         Is(r, F \cup {p} \cup OwnVp(vp), B), p \notin F \cup OwnVp(vp), F \cap OwnVp(vp) = {}
  PROVE  Holds(r, Value(rep, p, vp, 0, FALSE), F, B)
<1> DEFINE v == Value(rep, p, vp, 0, FALSE)
<1>1. /\ v.data = p /\ v.own = TRUE /\ v.vp = vp /\ v.dict = 0 /\ v.ownDict = FALSE
      /\ v.rep = rep /\ v \in Values
  BY DEF Value, Values, VpOk, Buffer
<1> HIDE DEF v
<1>2. OwnData(v) = {p} /\ OwnDict(v) = {} /\ OwnVp(v.vp) = OwnVp(vp)
  BY <1>1 DEF OwnData, OwnDict, Piece
<1>3. F \cup Own(v) = F \cup {p} \cup OwnVp(vp)
  BY <1>2 DEF Own
<1>4. ValOk(v)
  BY <1>1, <1>2 DEF ValOk
<1> QED BY <1>2, <1>3, <1>4 DEF Holds, Own, v

-----------------------------------------------------------------------------
(* The parts of nodes.                                                     *)

\* What a value leaves behind when its data is taken.
Rest(v) == OwnVp(v.vp) \cup OwnDict(v)

LEMMA RestFacts ==
  ASSUME NEW r, NEW v, NEW F, NEW B, Holds(r, v, F, B)
  PROVE  /\ Own(v) = OwnData(v) \cup Rest(v) /\ OwnData(v) \cap Rest(v) = {}
         /\ F \cap Rest(v) = {} /\ F \cap OwnData(v) = {}
BY DEF Holds, ValOk, Own, Rest

\* The operand's buffer, or a fresh one, and what the operand leaves.
LEMMA TakesOut ==
  ASSUME Unbounded, NEW r, NEW v, NEW F, NEW B, Holds(r, v, F, B)
  PROVE  LET o == Out(r, v) IN
         /\ Is(o, F \cup Rest(v) \cup {o.last}, B)
         /\ o.last \in Addresses \ Sources /\ o.last \notin F \cup Rest(v)
         /\ v.own => o.last = v.data
         /\ v.data \in Readable(F \cup Rest(v) \cup {o.last}, B)
<1>1. /\ Own(v) = OwnData(v) \cup Rest(v) /\ OwnData(v) \cap Rest(v) = {}
      /\ F \cap Rest(v) = {} /\ F \cap OwnData(v) = {}
      /\ v.data \in Sources \cup OwnData(v) /\ v.data \in Addresses
  BY RestFacts, ValueReadable DEF Holds
<1>2. CASE v.own
  <2>1. OwnData(v) = {v.data} /\ v.data \notin Sources
    BY <1>2 DEF OwnData, Holds, ValOk, Piece
  <2>2. Out(r, v).last = v.data /\ Is(Out(r, v), F \cup Own(v), B)
    BY <1>1, <1>2, LastSet, SourcesFacts DEF Out, Holds
  <2>3. F \cup Own(v) = F \cup Rest(v) \cup {v.data}
    BY <1>1, <2>1
  <2> QED BY <1>1, <2>1, <2>2, <2>3 DEF Readable
<1>3. CASE ~v.own
  <2>1. OwnData(v) = {} /\ F \cup Own(v) = F \cup Rest(v)
    BY <1>1, <1>3 DEF OwnData, Piece
  <2>2. Is(r, F \cup Rest(v), B) /\ Out(r, v) = Alloc(r)
    BY <1>3, <2>1 DEF Out, Holds
  <2> QED BY <1>1, <1>3, <2>1, <2>2, Allocs DEF Readable
<1> QED BY <1>2, <1>3

\* A fresh buffer computed from the operand's data, which is freed.
LEMMA MakesFresh ==
  ASSUME Unbounded, NEW r, NEW v, NEW F, NEW B, Holds(r, v, F, B)
  PROVE  LET f == Fresh(r, v) IN
         /\ Is(f, F \cup Rest(v) \cup {f.last}, B)
         /\ f.last \in Addresses \ Sources /\ f.last \notin F \cup Rest(v)
         /\ f.last = Alloc(r).last
         /\ f = FreeIf(Call(Alloc(r), {v.data}, Alloc(r).last), v.own, v.data)
<1> DEFINE a == Alloc(r)
<1>1. /\ Is(a, F \cup Own(v) \cup {a.last}, B) /\ a.last \in Addresses \ Sources
      /\ a.last \notin F \cup Own(v)
  BY Allocs DEF Holds
<1>2. Fresh(r, v) = FreeIf(Call(a, {v.data}, a.last), v.own, v.data)
  BY DEF Fresh
<1> HIDE DEF a
<1>3. {v.data} \subseteq Readable(F \cup Own(v) \cup {a.last}, B)
  BY ValueReadable DEF Holds, Readable, Own
<1>4. Call(a, {v.data}, a.last) = a
  BY <1>1, <1>3, CallsSoundly
<1>5. /\ Is(Fresh(r, v), (F \cup Own(v) \cup {a.last}) \ OwnData(v), B)
      /\ Fresh(r, v).last = a.last
  <2>1. Fresh(r, v) = FreeIf(a, v.own, v.data)
    BY <1>2, <1>4
  <2> QED BY <1>1, <2>1, FreesIf DEF OwnData
<1>6. (F \cup Own(v) \cup {a.last}) \ OwnData(v) = F \cup Rest(v) \cup {a.last}
  BY <1>1, RestFacts
<1> QED BY <1>1, <1>2, <1>5, <1>6, RestFacts DEF a

\* A fresh validity.
LEMMA MakesAllNull ==
  ASSUME Unbounded, NEW r, NEW O, NEW B, Is(r, O, B)
  PROVE  LET n == AllNull(r) IN
         HoldsVp(n.rt, n.vp, O, B) /\ n.vp = Validity(n.vp.ptr, TRUE) /\ n.vp.ptr \in Addresses \ Sources
<1>1. /\ AllNull(r).rt = Alloc(r) /\ AllNull(r).vp = Validity(Alloc(r).last, TRUE)
  BY DEF AllNull, GivesVp
<1>2. /\ Is(Alloc(r), O \cup {Alloc(r).last}, B)
      /\ Alloc(r).last \in Addresses \ Sources /\ Alloc(r).last \notin O
  BY Allocs
<1>3. /\ VpOk(Validity(Alloc(r).last, TRUE)) /\ OwnVp(Validity(Alloc(r).last, TRUE)) = {Alloc(r).last}
      /\ Validity(Alloc(r).last, TRUE).ptr = Alloc(r).last
  BY <1>2, OwnedVpOk
<1> QED BY <1>1, <1>2, <1>3 DEF HoldsVp

\* The validity of two operands: theirs are consumed.
LEMMA CombinesValidity ==
  ASSUME Unbounded, NEW r, NEW a, NEW b, NEW F, NEW B,
         Is(r, F \cup OwnVp(a) \cup OwnVp(b), B), VpOk(a), VpOk(b),
         F \cap OwnVp(a) = {}, F \cap OwnVp(b) = {}, OwnVp(a) \cap OwnVp(b) = {}
  PROVE  LET c == CombineValidity(r, a, b) IN HoldsVp(c.rt, c.vp, F, B)
<1>1. CASE b.ptr = 0
  <2>1. OwnVp(b) = {} /\ CombineValidity(r, a, b) = [rt |-> r, vp |-> a]
    BY <1>1 DEF VpOk, OwnVp, CombineValidity, Piece
  <2> QED BY <2>1 DEF HoldsVp
<1>2. CASE b.ptr # 0 /\ a.ptr = 0
  <2>1. OwnVp(a) = {} /\ CombineValidity(r, a, b) = [rt |-> r, vp |-> b]
    BY <1>2 DEF VpOk, OwnVp, CombineValidity, Piece
  <2> QED BY <2>1 DEF HoldsVp
<1>3. CASE b.ptr # 0 /\ a.ptr # 0
  <2> DEFINE n == Alloc(r)  O == F \cup OwnVp(a) \cup OwnVp(b) \cup {n.last}
             g == FreeValidity(FreeValidity(n, a), b)
  <2>1. /\ Is(n, O, B) /\ n.last \in Addresses \ Sources
        /\ n.last \notin F \cup OwnVp(a) \cup OwnVp(b)
    BY Allocs
  <2>2. {a.ptr, b.ptr} \subseteq Readable(O, B)
    BY DEF VpOk, OwnVp, Readable, Piece
  <2>3. Call(n, {a.ptr, b.ptr}, n.last) = n
    BY <2>1, <2>2, CallsSoundly
  <2>4. CombineValidity(r, a, b) = GivesVp(g, n.last, TRUE)
    BY <1>3, <2>3 DEF CombineValidity
  <2>5. Is(g, (O \ OwnVp(a)) \ OwnVp(b), B)
    BY <2>1, FreesValidity
  <2>6. (O \ OwnVp(a)) \ OwnVp(b) = F \cup {n.last}
    BY <2>1
  <2>7. n.last \notin F /\ Is(g, F \cup {n.last}, B)
    BY <2>1, <2>5, <2>6
  <2> HIDE DEF g, O, n
  <2>8. HoldsVp(GivesVp(g, n.last, TRUE).rt, GivesVp(g, n.last, TRUE).vp, F, B)
    BY <2>1, <2>7, MakesValidity
  <2> QED BY <2>4, <2>8
<1> QED BY <1>1, <1>2, <1>3

\* The validity that a Kleene kernel writes: the operands' are consumed.
LEMMA MakesKleeneValidity ==
  ASSUME Unbounded, NEW r, NEW a, NEW b, NEW F, NEW B,
         Is(r, F \cup OwnVp(a) \cup OwnVp(b), B), VpOk(a), VpOk(b),
         F \cap OwnVp(a) = {}, F \cap OwnVp(b) = {}, OwnVp(a) \cap OwnVp(b) = {}
  PROVE  LET c == KleeneValidity(r, a, b) IN HoldsVp(c.rt, c.vp, F, B)
<1> DEFINE n == Alloc(r)  O == F \cup OwnVp(a) \cup OwnVp(b) \cup {n.last}
           g == FreeValidity(FreeValidity(n, a), b)
<1>1. /\ Is(n, O, B) /\ n.last \in Addresses \ Sources
      /\ n.last \notin F \cup OwnVp(a) \cup OwnVp(b)
  BY Allocs
<1>2. {a.ptr, b.ptr} \subseteq Readable(O, B)
  BY DEF VpOk, OwnVp, Readable, Piece
<1>3. Call(n, {a.ptr, b.ptr}, n.last) = n
  BY <1>1, <1>2, CallsSoundly
<1>4. KleeneValidity(r, a, b) =
        IF a.ptr = 0 /\ b.ptr = 0 THEN GivesVp(Free(n, n.last), 0, FALSE) ELSE GivesVp(g, n.last, TRUE)
  BY <1>3 DEF KleeneValidity
<1>5. CASE a.ptr = 0 /\ b.ptr = 0
  <2>1. OwnVp(a) = {} /\ OwnVp(b) = {}
    BY <1>5 DEF VpOk, OwnVp, Piece
  <2>2. Is(Free(n, n.last), O \ {n.last}, B)
    BY <1>1, Frees
  <2>3. O \ {n.last} = F
    BY <1>1, <2>1
  <2>4. Is(Free(n, n.last), F, B)
    BY <2>2, <2>3
  <2>5. KleeneValidity(r, a, b).rt = Free(n, n.last) /\ KleeneValidity(r, a, b).vp = AllValid
    BY <1>4, <1>5 DEF GivesVp, AllValid
  <2> QED BY <2>4, <2>5, AllValidOk DEF HoldsVp
<1>6. CASE ~(a.ptr = 0 /\ b.ptr = 0)
  <2>1. Is(g, (O \ OwnVp(a)) \ OwnVp(b), B)
    BY <1>1, FreesValidity
  <2>2. (O \ OwnVp(a)) \ OwnVp(b) = F \cup {n.last}
    BY <1>1
  <2>3. n.last \notin F /\ Is(g, F \cup {n.last}, B) /\ KleeneValidity(r, a, b) = GivesVp(g, n.last, TRUE)
    BY <1>1, <1>4, <1>6, <2>1, <2>2
  <2> HIDE DEF g, O, n
  <2>4. HoldsVp(GivesVp(g, n.last, TRUE).rt, GivesVp(g, n.last, TRUE).vp, F, B)
    BY <1>1, <2>3, MakesValidity
  <2> QED BY <2>3, <2>4
<1> QED BY <1>5, <1>6


\* The validity of a broadcast scalar.
LEMMA MakesNullIf ==
  ASSUME Unbounded, NEW r, NEW O, NEW B, Is(r, O, B), NEW null
  PROVE  LET n == NullIf(null, r) IN HoldsVp(n.rt, n.vp, O, B)
<1>1. CASE null
  BY <1>1, MakesAllNull DEF NullIf
<1>2. CASE ~null
  <2>1. NullIf(null, r).rt = r /\ NullIf(null, r).vp = AllValid
    BY <1>2 DEF NullIf, GivesVp, AllValid
  <2> QED BY <2>1, AllValidOk DEF HoldsVp
<1> QED BY <1>1, <1>2

\* A value without a dictionary of its own leaves its validity only.
LEMMA NoDict ==
  ASSUME NEW v, ~v.ownDict
  PROVE  OwnDict(v) = {} /\ Rest(v) = OwnVp(v.vp) /\ Own(v) = OwnData(v) \cup OwnVp(v.vp)
BY DEF OwnDict, Rest, Own, Piece

LEMMA FreesVal ==
  ASSUME NEW r, NEW v, NEW F, NEW B, Holds(r, v, F, B), ~v.ownDict
  PROVE  Is(FreeVal(r, v), F, B) /\ FreeVal(r, v).last = r.last
<1> DEFINE d == FreeIf(r, v.own, v.data)
<1>1. Is(d, (F \cup Own(v)) \ OwnData(v), B) /\ d.last = r.last
  BY FreesIf DEF Holds, OwnData
<1>2. FreeVal(r, v) = FreeValidity(d, v.vp)
  BY DEF FreeVal, FreeDict
<1> HIDE DEF d
<1>3. Is(FreeValidity(d, v.vp), ((F \cup Own(v)) \ OwnData(v)) \ OwnVp(v.vp), B)
      /\ FreeValidity(d, v.vp).last = r.last
  BY <1>1, FreesValidity
<1>4. ((F \cup Own(v)) \ OwnData(v)) \ OwnVp(v.vp) = F
  BY NoDict DEF Holds, ValOk
<1> QED BY <1>2, <1>3, <1>4

\* Another buffer beside those of a value.
LEMMA HoldsMore ==
  ASSUME Unbounded, NEW r, NEW v, NEW F, NEW B, Holds(r, v, F, B)
  PROVE  LET a == Alloc(r) IN
         /\ Holds(a, v, F \cup {a.last}, B)
         /\ a.last \in Addresses \ Sources /\ a.last \notin F \cup Own(v)
<1>1. /\ Is(Alloc(r), (F \cup Own(v)) \cup {Alloc(r).last}, B)
      /\ Alloc(r).last \in Addresses \ Sources /\ Alloc(r).last \notin F \cup Own(v)
  BY Allocs DEF Holds
<1>2. (F \cup Own(v)) \cup {Alloc(r).last} = (F \cup {Alloc(r).last}) \cup Own(v)
  OBVIOUS
<1> QED BY <1>1, <1>2 DEF Holds

\* A fresh buffer holding the operand's data in another form, with its validity.
LEMMA Converts ==
  ASSUME Unbounded, NEW r, NEW v, NEW F, NEW B, Holds(r, v, F, B), ~v.ownDict,
         NEW rep \in {"column", "mask", "boolcol"}
  PROVE  LET f == Fresh(r, v) IN Holds(f, Value(rep, f.last, v.vp, 0, FALSE), F, B)
<1> DEFINE f == Fresh(r, v)
<1>1. /\ Is(f, F \cup OwnVp(v.vp) \cup {f.last}, B)
      /\ f.last \in Addresses \ Sources /\ f.last \notin F \cup OwnVp(v.vp)
  BY MakesFresh, NoDict
<1>2. F \cap OwnVp(v.vp) = {} /\ VpOk(v.vp)
  BY DEF Holds, ValOk, Own
<1> HIDE DEF f
<1>3. F \cup OwnVp(v.vp) \cup {f.last} = F \cup {f.last} \cup OwnVp(v.vp)
  OBVIOUS
<1>4. Holds(f, Value(rep, f.last, v.vp, 0, FALSE), F, B)
  BY <1>1, <1>2, <1>3, MakesPlain
<1> QED BY <1>4 DEF f

-----------------------------------------------------------------------------
(* Nodes with at most one operand.                                         *)

LEMMA ToBoolColHolds ==
  ASSUME Unbounded, NEW r, NEW v, NEW F, NEW B, Holds(r, v, F, B), ~v.ownDict
  PROVE  LET g == ToBoolCol(r, v) IN
         Holds(g.rt, g.v, F, B) /\ g.v.rep = "boolcol" /\ g.v.vp = v.vp /\ ~g.v.ownDict
<1>1. CASE v.rep = "boolcol"
  BY <1>1 DEF ToBoolCol, Gives
<1>2. CASE v.rep # "boolcol"
  <2>1. ToBoolCol(r, v).rt = Fresh(r, v)
        /\ ToBoolCol(r, v).v = Value("boolcol", Fresh(r, v).last, v.vp, 0, FALSE)
    BY <1>2 DEF ToBoolCol, Gives, BoolCol
  <2>2. LET w == Value("boolcol", Fresh(r, v).last, v.vp, 0, FALSE) IN
        w.rep = "boolcol" /\ w.vp = v.vp /\ ~w.ownDict
    BY DEF Value
  <2> QED BY <2>1, <2>2, Converts
<1> QED BY <1>1, <1>2

LEMMA ToMaskHolds ==
  ASSUME Unbounded, NEW r, NEW v, NEW F, NEW B, Holds(r, v, F, B), ~v.ownDict
  PROVE  LET g == ToMask(r, v) IN
         Holds(g.rt, g.v, F, B) /\ g.v.vp = v.vp /\ ~g.v.ownDict
<1>1. CASE v.rep = "mask"
  BY <1>1 DEF ToMask, Gives
<1>2. CASE v.rep # "mask"
  <2>1. ToMask(r, v).rt = Fresh(r, v)
        /\ ToMask(r, v).v = Value("mask", Fresh(r, v).last, v.vp, 0, FALSE)
    BY <1>2 DEF ToMask, Gives, MaskOf
  <2>2. LET w == Value("mask", Fresh(r, v).last, v.vp, 0, FALSE) IN
        w.vp = v.vp /\ ~w.ownDict
    BY DEF Value
  <2> QED BY <2>1, <2>2, Converts
<1> QED BY <1>1, <1>2

LEMMA EvalColHolds ==
  ASSUME Unbounded, NEW r, NEW F, NEW B, Is(r, F, B), NEW c \in Columns, NEW realign \in BOOLEAN,
         realign => c.vp # 0
  PROVE  LET g == EvalCol(r, c, realign) IN Holds(g.rt, g.v, F, B)
<1> DEFINE n == Alloc(r)
           o == IF realign THEN GivesVp(Call(n, {c.vp}, n.last), n.last, TRUE)
                ELSE GivesVp(r, c.vp, FALSE)
           rep == IF c.kind = "bool" THEN "boolcol" ELSE "column"
           v == [Value(rep, c.data, o.vp, c.dict, FALSE) EXCEPT !.own = FALSE]
<1>1. /\ c.data \in Sources /\ c.vp \in Sources \cup {0} /\ c.dict \in Sources \cup {0}
      /\ c.kind = "bool" => c.dict = 0
  BY DEF Columns, Source, Sources
<1>2. HoldsVp(o.rt, o.vp, F, B)
  <2>1. CASE realign
    <3>1. /\ Is(n, F \cup {n.last}, B) /\ n.last \in Addresses \ Sources /\ n.last \notin F
      BY Allocs
    <3>2. Call(n, {c.vp}, n.last) = n
      BY <1>1, <3>1, CallsSoundly DEF Readable
    <3>3. HoldsVp(GivesVp(n, n.last, TRUE).rt, GivesVp(n, n.last, TRUE).vp, F, B)
      BY <3>1, MakesValidity
    <3> QED BY <2>1, <3>2, <3>3
  <2>2. CASE ~realign
    <3>1. o.rt = r /\ o.vp = Validity(c.vp, FALSE)
      BY <2>2 DEF GivesVp
    <3>2. VpOk(Validity(c.vp, FALSE)) /\ OwnVp(Validity(c.vp, FALSE)) = {}
      BY <1>1, SourcesFacts DEF VpOk, OwnVp, Validity, Piece, Buffer
    <3> QED BY <3>1, <3>2 DEF HoldsVp
  <2> QED BY <2>1, <2>2
<1>3. EvalCol(r, c, realign).rt = o.rt /\ EvalCol(r, c, realign).v = v
  BY DEF EvalCol, Gives
<1> HIDE DEF o
<1>4. rep \in {"column", "mask", "boolcol"} /\ (c.dict # 0 => rep = "column")
  BY <1>1
<1> HIDE DEF rep
<1>5. /\ v.rep = rep /\ v.data = c.data /\ v.own = FALSE /\ v.vp = o.vp /\ v.dict = c.dict
      /\ v.ownDict = FALSE /\ v \in Values
  BY <1>1, <1>2, <1>4, SourcesFacts DEF Value, Values, HoldsVp, VpOk, Buffer
<1> HIDE DEF v
<1>6. OwnData(v) = {} /\ OwnDict(v) = {} /\ Own(v) = OwnVp(o.vp)
  BY <1>5 DEF Own, OwnData, OwnDict, Piece
<1>7. ValOk(v)
  BY <1>1, <1>2, <1>4, <1>5, <1>6 DEF ValOk, HoldsVp
<1> QED BY <1>2, <1>3, <1>6, <1>7 DEF Holds, HoldsVp

\* A buffer with a validity that was made after it.
LEMMA MakesValue ==
  ASSUME NEW r, NEW F, NEW B, NEW p \in Addresses \ Sources, p \notin F, NEW vp,
         HoldsVp(r, vp, F \cup {p}, B), NEW rep \in {"column", "mask", "boolcol"}
  PROVE  Holds(r, Value(rep, p, vp, 0, FALSE), F, B)
BY MakesPlain DEF HoldsVp

LEMMA BroadcastScalarHolds ==
  ASSUME Unbounded, NEW r, NEW F, NEW B, Is(r, F, B), NEW bool \in BOOLEAN, NEW null
  PROVE  LET g == BroadcastScalar(r, bool, null) IN Holds(g.rt, g.v, F, B)
<1> DEFINE p == Alloc(r).last  n == NullIf(null, Alloc(r))
           rep == IF bool THEN "boolcol" ELSE "column"
<1>1. Is(Alloc(r), F \cup {p}, B) /\ p \in Addresses \ Sources /\ p \notin F
  BY Allocs
<1>2. HoldsVp(n.rt, n.vp, F \cup {p}, B)
  BY <1>1, MakesNullIf
<1>3. BroadcastScalar(r, bool, null).rt = n.rt
      /\ BroadcastScalar(r, bool, null).v = Value(rep, p, n.vp, 0, FALSE)
  BY DEF BroadcastScalar, Gives, BoolCol, ColOf
<1>4. rep \in {"column", "mask", "boolcol"}
  OBVIOUS
<1> HIDE DEF p, n, rep
<1> QED BY <1>1, <1>2, <1>3, <1>4, MakesValue

LEMMA BroadcastPredicateHolds ==
  ASSUME Unbounded, NEW r, NEW F, NEW B, Is(r, F, B), NEW null
  PROVE  LET g == BroadcastPredicate(r, null) IN Holds(g.rt, g.v, F, B)
<1> DEFINE p == Alloc(r).last  n == NullIf(null, Alloc(r))
<1>1. Is(Alloc(r), F \cup {p}, B) /\ p \in Addresses \ Sources /\ p \notin F
  BY Allocs
<1>2. HoldsVp(n.rt, n.vp, F \cup {p}, B)
  BY <1>1, MakesNullIf
<1>3. BroadcastPredicate(r, null).rt = n.rt
      /\ BroadcastPredicate(r, null).v = Value("mask", p, n.vp, 0, FALSE)
  BY DEF BroadcastPredicate, Gives, MaskOf
<1> HIDE DEF p, n
<1> QED BY <1>1, <1>2, <1>3, MakesValue

\* A result that is null everywhere: the operand's validity is replaced.
LEMMA MakesNulls ==
  ASSUME Unbounded, NEW r, NEW F, NEW B, NEW p \in Addresses \ Sources, NEW vp, VpOk(vp),
         Is(r, F \cup {p} \cup OwnVp(vp), B), p \notin F \cup OwnVp(vp), F \cap OwnVp(vp) = {},
         NEW rep \in {"column", "mask", "boolcol"}
  PROVE  LET n == AllNull(FreeValidity(r, vp)) IN
         Holds(n.rt, Value(rep, p, n.vp, 0, FALSE), F, B)
<1> DEFINE f == FreeValidity(r, vp)  n == AllNull(f)
<1>1. Is(f, F \cup {p}, B)
  <2>1. (F \cup {p} \cup OwnVp(vp)) \ OwnVp(vp) = F \cup {p}
    OBVIOUS
  <2> QED BY <2>1, FreesValidity
<1>2. HoldsVp(n.rt, n.vp, F \cup {p}, B)
  BY <1>1, MakesAllNull
<1> HIDE DEF f, n
<1>3. Holds(n.rt, Value(rep, p, n.vp, 0, FALSE), F, B)
  BY <1>2, MakesValue
<1> QED BY <1>3 DEF f, n

LEMMA ArithScalarHolds ==
  ASSUME Unbounded, NEW r, NEW v, NEW F, NEW B, Holds(r, v, F, B), ~v.ownDict, NEW null
  PROVE  LET g == ArithScalar(r, v, null) IN Holds(g.rt, g.v, F, B)
<1> DEFINE o == Out(r, v)  n == AllNull(FreeValidity(o, v.vp))
<1>1. /\ Is(o, F \cup {o.last} \cup OwnVp(v.vp), B)
      /\ o.last \in Addresses \ Sources /\ o.last \notin F \cup OwnVp(v.vp)
      /\ v.data \in Readable(F \cup {o.last} \cup OwnVp(v.vp), B)
  <2>1. F \cup OwnVp(v.vp) \cup {o.last} = F \cup {o.last} \cup OwnVp(v.vp)
    OBVIOUS
  <2> QED BY <2>1, TakesOut, NoDict
<1>2. F \cap OwnVp(v.vp) = {} /\ VpOk(v.vp)
  BY DEF Holds, ValOk, Own
<1>3. Call(o, {v.data}, o.last) = o
  BY <1>1, CallsSoundly
<1>4. ArithScalar(r, v, null) =
        IF null THEN Gives(n.rt, Value("column", o.last, n.vp, 0, FALSE))
        ELSE Gives(o, Value("column", o.last, v.vp, 0, FALSE))
  BY <1>3 DEF ArithScalar, ColOf
<1> HIDE DEF o
<1>5. CASE null
  <2>1. Holds(n.rt, Value("column", o.last, n.vp, 0, FALSE), F, B)
    BY <1>1, <1>2, MakesNulls
  <2> HIDE DEF n
  <2>2. /\ ArithScalar(r, v, null).rt = n.rt
        /\ ArithScalar(r, v, null).v = Value("column", o.last, n.vp, 0, FALSE)
    BY <1>4, <1>5 DEF Gives
  <2> QED BY <2>1, <2>2
<1>6. CASE ~null
  <2>1. Holds(o, Value("column", o.last, v.vp, 0, FALSE), F, B)
    BY <1>1, <1>2, MakesPlain
  <2>2. /\ ArithScalar(r, v, null).rt = o
        /\ ArithScalar(r, v, null).v = Value("column", o.last, v.vp, 0, FALSE)
    BY <1>4, <1>6 DEF Gives
  <2> QED BY <2>1, <2>2
<1> QED BY <1>5, <1>6

LEMMA ReadsValue ==
  ASSUME NEW r, NEW v, NEW F, NEW B, Holds(r, v, F, B),
         NEW ptrs, ptrs \subseteq {v.data, v.vp.ptr, v.dict}
  PROVE  Reads(r, ptrs) = r /\ ptrs \subseteq Readable(F \cup Own(v), B)
<1>1. ptrs \subseteq Readable(F \cup Own(v), B)
  BY ValueReadable DEF Holds, Readable, Own
<1> QED BY <1>1, CallsSoundly DEF Holds

LEMMA CompareScalarHolds ==
  ASSUME Unbounded, NEW r, NEW v, NEW F, NEW B, Holds(r, v, F, B), ~v.ownDict, NEW null
  PROVE  LET g == CompareScalar(r, v, null) IN Holds(g.rt, g.v, F, B)
<1> DEFINE f == Fresh(r, v)  n == AllNull(FreeValidity(f, v.vp))
<1>1. /\ Is(f, F \cup {f.last} \cup OwnVp(v.vp), B)
      /\ f.last \in Addresses \ Sources /\ f.last \notin F \cup OwnVp(v.vp)
      /\ f.last = Alloc(r).last
      /\ f = FreeIf(Call(Alloc(r), {v.data}, Alloc(r).last), v.own, v.data)
  <2>1. F \cup OwnVp(v.vp) \cup {f.last} = F \cup {f.last} \cup OwnVp(v.vp)
    OBVIOUS
  <2> QED BY <2>1, MakesFresh, NoDict
<1>2. F \cap OwnVp(v.vp) = {} /\ VpOk(v.vp)
  BY DEF Holds, ValOk, Own
<1>3. Reads(r, {v.dict}) = r
  BY ReadsValue
<1>4. CompareScalar(r, v, null) =
        IF null THEN Gives(n.rt, Value("mask", f.last, n.vp, 0, FALSE))
        ELSE Gives(f, Value("mask", f.last, v.vp, 0, FALSE))
  BY <1>1, <1>3 DEF CompareScalar, FreeDict, MaskOf
<1> HIDE DEF f
<1>5. CASE null
  <2>1. Holds(n.rt, Value("mask", f.last, n.vp, 0, FALSE), F, B)
    BY <1>1, <1>2, MakesNulls
  <2> HIDE DEF n
  <2>2. /\ CompareScalar(r, v, null).rt = n.rt
        /\ CompareScalar(r, v, null).v = Value("mask", f.last, n.vp, 0, FALSE)
    BY <1>4, <1>5 DEF Gives
  <2> QED BY <2>1, <2>2
<1>6. CASE ~null
  <2>1. Holds(f, Value("mask", f.last, v.vp, 0, FALSE), F, B)
    BY <1>1, <1>2, MakesPlain
  <2>2. /\ CompareScalar(r, v, null).rt = f
        /\ CompareScalar(r, v, null).v = Value("mask", f.last, v.vp, 0, FALSE)
    BY <1>4, <1>6 DEF Gives
  <2> QED BY <2>1, <2>2
<1> QED BY <1>5, <1>6

LEMMA ExtractHolds ==
  ASSUME Unbounded, NEW r, NEW v, NEW F, NEW B, Holds(r, v, F, B), ~v.ownDict
  PROVE  LET g == Extract(r, v) IN Holds(g.rt, g.v, F, B)
<1>1. Reads(r, {v.vp.ptr}) = r
  BY ReadsValue
<1>2. Extract(r, v).rt = Fresh(r, v)
      /\ Extract(r, v).v = Value("column", Fresh(r, v).last, v.vp, 0, FALSE)
  BY <1>1 DEF Extract, Gives, ColOf
<1> QED BY <1>2, Converts

LEMMA IsNullHolds ==
  ASSUME Unbounded, NEW r, NEW v, NEW F, NEW B, Holds(r, v, F, B), ~v.ownDict
  PROVE  LET g == IsNull(r, v) IN Holds(g.rt, g.v, F, B)
<1> DEFINE a == Alloc(r)  f == FreeVal(a, v)
<1>1. Holds(a, v, F \cup {a.last}, B) /\ a.last \in Addresses \ Sources /\ a.last \notin F \cup Own(v)
  BY HoldsMore
<1>2. Call(a, {v.vp.ptr}, a.last) = a
  <2>1. {v.vp.ptr} \subseteq Readable(F \cup {a.last} \cup Own(v), B)
    BY <1>1, ReadsValue
  <2> QED BY <1>1, <2>1, CallsSoundly DEF Holds
<1>3. IsNull(r, v).rt = f /\ IsNull(r, v).v = Value("boolcol", a.last, AllValid, 0, FALSE)
  BY <1>2 DEF IsNull, Gives, BoolCol
<1>4. Is(f, F \cup {a.last}, B)
  BY <1>1, FreesVal
<1>5. HoldsVp(f, AllValid, F \cup {a.last}, B)
  BY <1>4, AllValidOk DEF HoldsVp
<1> HIDE DEF f, a
<1> QED BY <1>1, <1>3, <1>5, MakesValue

LEMMA EvalAggHolds ==
  ASSUME Unbounded, NEW r, NEW v, NEW F, NEW B, Holds(r, v, F, B), ~v.ownDict, NEW count
  PROVE  Is(EvalAgg(r, v, count), F, B)
<1> DEFINE k == Reads(r, IF count THEN {v.vp.ptr} ELSE {v.vp.ptr, v.data})  a == Alloc(r)
<1>1. k = r
  BY ReadsValue
<1>2. Holds(a, v, F \cup {a.last}, B) /\ a.last \notin F \cup Own(v)
  BY HoldsMore
<1>3. Holds(Free(a, a.last), v, F, B)
  <2> HIDE DEF a
  <2>2. Is(a, (F \cup {a.last}) \cup Own(v), B)
    BY <1>2 DEF Holds
  <2>3. Is(Free(a, a.last), ((F \cup {a.last}) \cup Own(v)) \ {a.last}, B)
    BY <2>2, Frees
  <2>4. ((F \cup {a.last}) \cup Own(v)) \ {a.last} = F \cup Own(v)
    BY <1>2
  <2> QED BY <1>2, <2>3, <2>4 DEF Holds
<1>4. EvalAgg(r, v, count) = FreeVal(IF count THEN r ELSE Free(a, a.last), v)
  BY <1>1 DEF EvalAgg
<1> QED BY <1>3, <1>4, FreesVal

LEMMA FillNullHolds ==
  ASSUME Unbounded, NEW r, NEW v, NEW F, NEW B, Holds(r, v, F, B), ~v.ownDict
  PROVE  LET g == FillNull(r, v) IN Holds(g.rt, g.v, F, B)
<1> DEFINE b == IF Boolean(v) THEN ToBoolCol(r, v) ELSE Gives(r, v)
           w == b.v  o == Out(b.rt, w)  k == FreeValidity(o, w.vp)
<1>1. Holds(b.rt, w, F, B) /\ w.vp = v.vp /\ ~w.ownDict
  BY ToBoolColHolds DEF Gives
<1>2. CASE v.vp.ptr = 0
  BY <1>1, <1>2 DEF FillNull
<1>3. CASE v.vp.ptr # 0
  <2>1. /\ Is(o, F \cup OwnVp(w.vp) \cup {o.last}, B)
        /\ o.last \in Addresses \ Sources /\ o.last \notin F \cup OwnVp(w.vp)
        /\ w.data \in Readable(F \cup OwnVp(w.vp) \cup {o.last}, B)
    <3> HIDE DEF b
    <3> QED BY <1>1, TakesOut, NoDict
  <2>2. Call(o, {w.data, w.vp.ptr}, o.last) = o
    <3>1. w.vp.ptr \in Readable(F \cup OwnVp(w.vp) \cup {o.last}, B)
      BY <1>1, ValueReadable DEF Holds, Readable
    <3> HIDE DEF b, o
    <3> QED BY <2>1, <3>1, CallsSoundly
  <2>3. Is(k, F \cup {o.last}, B)
    <3>1. Is(k, (F \cup OwnVp(w.vp) \cup {o.last}) \ OwnVp(w.vp), B)
      BY <2>1, FreesValidity
    <3>2. (F \cup OwnVp(w.vp) \cup {o.last}) \ OwnVp(w.vp) = F \cup {o.last}
      BY <1>1, <2>1 DEF Holds, Own
    <3> QED BY <3>1, <3>2
  <2>4. /\ FillNull(r, v).rt = k
        /\ FillNull(r, v).v = Value(w.rep, o.last, AllValid, 0, FALSE)
    BY <1>3, <2>2 DEF FillNull, Gives
  <2>5. HoldsVp(k, AllValid, F \cup {o.last}, B)
    BY <2>3, AllValidOk DEF HoldsVp
  <2>6. w.rep \in {"column", "mask", "boolcol"}
    BY <1>1 DEF Holds, ValOk, Values
  <2> HIDE DEF k, o, w, b
  <2>7. Holds(k, Value(w.rep, o.last, AllValid, 0, FALSE), F, B)
    BY <2>1, <2>5, <2>6, MakesValue
  <2> QED BY <2>4, <2>7
<1> QED BY <1>2, <1>3

\* The buffer of an owned operand beside its new dictionary.
LEMMA TakesOutBeside ==
  ASSUME Unbounded, NEW r, NEW v, NEW F, NEW B, Holds(r, v, F, B), ~v.ownDict
  PROVE  LET d == Alloc(r)  o == Out(d, v) IN
         /\ Is(o, F \cup {o.last} \cup OwnVp(v.vp) \cup {d.last}, B)
         /\ o.last \in Addresses \ Sources /\ o.last \notin F \cup OwnVp(v.vp)
         /\ d.last \in Addresses \ Sources /\ d.last \notin F \cup OwnVp(v.vp)
         /\ o.last # d.last
         /\ {v.data, v.vp.ptr} \subseteq Readable(F \cup {o.last} \cup OwnVp(v.vp) \cup {d.last}, B)
<1> DEFINE d == Alloc(r)  o == Out(d, v)
<1>1. Holds(d, v, F \cup {d.last}, B) /\ d.last \in Addresses \ Sources /\ d.last \notin F \cup Own(v)
  BY HoldsMore
<1>2. /\ Is(o, F \cup {d.last} \cup OwnVp(v.vp) \cup {o.last}, B)
      /\ o.last \in Addresses \ Sources /\ o.last \notin F \cup {d.last} \cup OwnVp(v.vp)
      /\ v.data \in Readable(F \cup {d.last} \cup OwnVp(v.vp) \cup {o.last}, B)
  <2> HIDE DEF d
  <2> QED BY <1>1, TakesOut, NoDict
<1>3. F \cup {d.last} \cup OwnVp(v.vp) \cup {o.last} = F \cup {o.last} \cup OwnVp(v.vp) \cup {d.last}
  OBVIOUS
<1>4. v.vp.ptr \in Readable(F \cup {o.last} \cup OwnVp(v.vp) \cup {d.last}, B)
  BY ValueReadable DEF Holds, Readable
<1>5. d.last \notin F \cup OwnVp(v.vp)
  BY <1>1 DEF Own
<1> HIDE DEF d, o
<1>6. /\ Is(o, F \cup {o.last} \cup OwnVp(v.vp) \cup {d.last}, B)
      /\ v.data \in Readable(F \cup {o.last} \cup OwnVp(v.vp) \cup {d.last}, B)
  BY <1>2, <1>3
<1> QED BY <1>1, <1>2, <1>4, <1>5, <1>6 DEF d, o

LEMMA MakesNewDict ==
  ASSUME NEW r, NEW F, NEW B, NEW p \in Addresses \ Sources, NEW vp, VpOk(vp),
         NEW d \in Addresses \ Sources, Is(r, F \cup {p} \cup OwnVp(vp) \cup {d}, B),
         p \notin F \cup OwnVp(vp), F \cap OwnVp(vp) = {}, p # d, d \notin F \cup OwnVp(vp)
  PROVE  Holds(r, Value("column", p, vp, d, TRUE), F, B)
<1> DEFINE v == Value("column", p, vp, d, TRUE)
<1>1. /\ v.data = p /\ v.own = TRUE /\ v.vp = vp /\ v.dict = d /\ v.ownDict = TRUE
      /\ v.rep = "column" /\ v \in Values /\ d # 0
  BY SourcesFacts DEF Value, Values, VpOk, Buffer
<1> HIDE DEF v
<1>2. OwnData(v) = {p} /\ OwnDict(v) = {d} /\ OwnVp(v.vp) = OwnVp(vp)
  BY <1>1 DEF OwnData, OwnDict, Piece
<1>3. F \cup Own(v) = F \cup {p} \cup OwnVp(vp) \cup {d}
  BY <1>2 DEF Own
<1>4. ValOk(v)
  BY <1>1, <1>2 DEF ValOk
<1> QED BY <1>2, <1>3, <1>4 DEF Holds, Own, v

LEMMA MakesOldDict ==
  ASSUME NEW r, NEW F, NEW B, NEW p \in Addresses \ Sources, NEW vp, VpOk(vp),
         NEW d \in Sources, Is(r, F \cup {p} \cup OwnVp(vp), B),
         p \notin F \cup OwnVp(vp), F \cap OwnVp(vp) = {}
  PROVE  Holds(r, Value("column", p, vp, d, FALSE), F, B)
<1> DEFINE v == Value("column", p, vp, d, FALSE)
<1>1. /\ v.data = p /\ v.own = TRUE /\ v.vp = vp /\ v.dict = d /\ v.ownDict = FALSE
      /\ v.rep = "column" /\ v \in Values /\ d # 0
  BY SourcesFacts DEF Value, Values, VpOk, Buffer
<1> HIDE DEF v
<1>2. OwnData(v) = {p} /\ OwnDict(v) = {} /\ OwnVp(v.vp) = OwnVp(vp)
  BY <1>1 DEF OwnData, OwnDict, Piece
<1>3. F \cup Own(v) = F \cup {p} \cup OwnVp(vp)
  BY <1>2 DEF Own
<1>4. ValOk(v)
  BY <1>1, <1>2 DEF ValOk
<1> QED BY <1>2, <1>3, <1>4 DEF Holds, Own, v

LEMMA StrSliceHolds ==
  ASSUME Unbounded, NEW r, NEW v, NEW F, NEW B, Holds(r, v, F, B), ~v.ownDict
  PROVE  LET g == StrSlice(r, v) IN Holds(g.rt, g.v, F, B)
<1> DEFINE d == Alloc(r)  o == Out(d, v)
<1>1. /\ Is(o, F \cup {o.last} \cup OwnVp(v.vp) \cup {d.last}, B)
      /\ o.last \in Addresses \ Sources /\ o.last \notin F \cup OwnVp(v.vp)
      /\ d.last \in Addresses \ Sources /\ d.last \notin F \cup OwnVp(v.vp)
      /\ o.last # d.last
      /\ {v.data, v.vp.ptr} \subseteq Readable(F \cup {o.last} \cup OwnVp(v.vp) \cup {d.last}, B)
  BY TakesOutBeside
<1>2. F \cap OwnVp(v.vp) = {} /\ VpOk(v.vp)
  BY DEF Holds, ValOk, Own
<1>3. Reads(r, {v.dict}) = r
  BY ReadsValue
<1>4. Call(o, {v.data}, o.last) = o
  <2> HIDE DEF o, d
  <2> DEFINE O == F \cup {o.last} \cup OwnVp(v.vp) \cup {d.last}
  <2>1. Is(o, O, B) /\ {v.data} \subseteq Readable(O, B) /\ o.last \in O \cup B
    BY <1>1
  <2> HIDE DEF O
  <2> QED BY <2>1, CallsSoundly
<1>5. /\ StrSlice(r, v).rt = o
      /\ StrSlice(r, v).v = Value("column", o.last, v.vp, d.last, TRUE)
  BY <1>3, <1>4 DEF StrSlice, Gives, FreeDict
<1> HIDE DEF o, d
<1> QED BY <1>1, <1>2, <1>5, MakesNewDict

LEMMA FillNullUtf8Holds ==
  ASSUME Unbounded, NEW r, NEW v, NEW F, NEW B, Holds(r, v, F, B), ~v.ownDict,
         v.dict # 0, NEW new \in BOOLEAN
  PROVE  LET g == FillNullUtf8(r, v, new) IN Holds(g.rt, g.v, F, B)
<1>0. Reads(r, {v.dict}) = r
  BY ReadsValue
<1>1. CASE v.vp.ptr = 0
  BY <1>1 DEF FillNullUtf8, Gives
<1>2. CASE v.vp.ptr # 0 /\ new
  <2> DEFINE d == Alloc(r)  o == Out(d, v)  k == FreeValidity(o, v.vp)
             O == F \cup {o.last} \cup OwnVp(v.vp) \cup {d.last}
  <2>1. /\ Is(o, O, B)
        /\ o.last \in Addresses \ Sources /\ o.last \notin F \cup OwnVp(v.vp)
        /\ d.last \in Addresses \ Sources /\ d.last \notin F \cup OwnVp(v.vp)
        /\ o.last # d.last
        /\ {v.data, v.vp.ptr} \subseteq Readable(O, B)
    BY TakesOutBeside
  <2>2. Call(o, {v.data, v.vp.ptr}, o.last) = o
    <3> HIDE DEF o, d
    <3> QED BY <2>1, CallsSoundly
  <2>3. /\ FillNullUtf8(r, v, new).rt = k
        /\ FillNullUtf8(r, v, new).v = Value("column", o.last, AllValid, d.last, TRUE)
    BY <1>0, <1>2, <2>2 DEF FillNullUtf8, Gives, FreeDict
  <2>4. Is(k, F \cup {o.last} \cup {d.last}, B)
    <3>1. Is(k, O \ OwnVp(v.vp), B)
      BY <2>1, FreesValidity
    <3>2. O \ OwnVp(v.vp) = F \cup {o.last} \cup {d.last}
      BY <2>1 DEF Holds, Own
    <3> QED BY <3>1, <3>2
  <2>5. F \cup {o.last} \cup {d.last} = F \cup {o.last} \cup OwnVp(AllValid) \cup {d.last}
    BY AllValidOk
  <2> HIDE DEF k, o, d, O
  <2>6. Holds(k, Value("column", o.last, AllValid, d.last, TRUE), F, B)
    BY <2>1, <2>4, <2>5, AllValidOk, MakesNewDict
  <2> QED BY <2>3, <2>6
<1>3. CASE v.vp.ptr # 0 /\ ~new
  <2> DEFINE d == [r EXCEPT !.last = v.dict]  o == Out(d, v)  k == FreeValidity(o, v.vp)
             O == F \cup OwnVp(v.vp) \cup {o.last}
  <2>1. v.dict \in Sources /\ v.dict \in Nat
    BY ValueReadable, NoDict, SourcesFacts DEF Holds
  <2>2. Holds(d, v, F, B) /\ d.last = v.dict
    BY <2>1, LastSet DEF Holds
  <2>3. /\ Is(o, O, B)
        /\ o.last \in Addresses \ Sources /\ o.last \notin F \cup OwnVp(v.vp)
        /\ v.data \in Readable(O, B)
    <3> HIDE DEF d
    <3> QED BY <2>2, TakesOut, NoDict
  <2>4. Call(o, {v.data, v.vp.ptr}, o.last) = o
    <3>1. v.vp.ptr \in Readable(O, B)
      BY ValueReadable DEF Holds, Readable
    <3> HIDE DEF o
    <3> QED BY <2>3, <3>1, CallsSoundly
  <2>5. /\ FillNullUtf8(r, v, new).rt = k
        /\ FillNullUtf8(r, v, new).v = Value("column", o.last, AllValid, v.dict, FALSE)
    <3>1. (new \/ v.ownDict) = FALSE
      BY <1>3 DEF Holds, ValOk, Values
    <3> HIDE DEF k
    <3> QED BY <1>0, <1>3, <2>2, <2>4, <3>1 DEF FillNullUtf8, Gives, k
  <2>6. Is(k, F \cup {o.last}, B)
    <3>1. Is(k, O \ OwnVp(v.vp), B)
      BY <2>3, FreesValidity
    <3>2. O \ OwnVp(v.vp) = F \cup {o.last}
      BY <2>3 DEF Holds, Own
    <3> QED BY <3>1, <3>2
  <2>7. F \cup {o.last} = F \cup {o.last} \cup OwnVp(AllValid)
    BY AllValidOk
  <2> HIDE DEF k, o, d, O
  <2>8. Holds(k, Value("column", o.last, AllValid, v.dict, FALSE), F, B)
    BY <2>1, <2>3, <2>6, <2>7, AllValidOk, MakesOldDict
  <2> QED BY <2>5, <2>8
<1> QED BY <1>1, <1>2, <1>3

\* evalCast of a column: the operand's buffer or a fresh one, and a validity.
LEMMA CastHolds ==
  ASSUME Unbounded, NEW r, NEW v, NEW F, NEW B, Holds(r, v, F, B), ~v.ownDict, v.rep # "mask",
         NEW bool \in BOOLEAN, NEW sameSize \in BOOLEAN, NEW lossy \in BOOLEAN
  PROVE  LET g == Cast(r, v, bool, sameSize, lossy) IN Holds(g.rt, g.v, F, B)
<1> DEFINE o == IF InOwns(v) /\ sameSize THEN Out(r, v) ELSE Alloc(r)
           n == Alloc(o)
           O == F \cup OwnVp(v.vp) \cup OwnData(v) \cup {o.last}
           rep == IF bool THEN "boolcol" ELSE "column"
           other == InOwns(v) /\ o.last # v.data
<1>1. v.own \in BOOLEAN /\ v.data \in Addresses /\ InData(v) = v.data /\ InOwns(v) = v.own
  BY DEF Holds, ValOk, Values, InData, InOwns
<1>2. /\ F \cap OwnVp(v.vp) = {} /\ VpOk(v.vp) /\ F \cap OwnData(v) = {}
      /\ OwnData(v) \cap OwnVp(v.vp) = {}
  BY DEF Holds, ValOk, Own
<1>3. /\ Is(o, O, B) /\ o.last \in Addresses \ Sources /\ o.last \notin F \cup OwnVp(v.vp)
      /\ v.own => o.last = v.data \/ o.last \notin OwnData(v)
  <2>1. CASE v.own /\ sameSize
    <3>1. o = Out(r, v) /\ OwnData(v) = {v.data}
      BY <1>1, <2>1 DEF OwnData, Piece
    <3> HIDE DEF o
    <3>2. /\ Is(o, F \cup OwnVp(v.vp) \cup {o.last}, B)
          /\ o.last \in Addresses \ Sources /\ o.last \notin F \cup OwnVp(v.vp)
          /\ o.last = v.data
      BY <2>1, <3>1, TakesOut, NoDict
    <3>3. O = F \cup OwnVp(v.vp) \cup {o.last}
      BY <3>1, <3>2
    <3> QED BY <3>2, <3>3
  <2>2. CASE ~(v.own /\ sameSize)
    <3>1. o = Alloc(r)
      BY <1>1, <2>2
    <3> HIDE DEF o
    <3>2. /\ Is(o, (F \cup Own(v)) \cup {o.last}, B)
          /\ o.last \in Addresses \ Sources /\ o.last \notin F \cup Own(v)
      BY <3>1, Allocs DEF Holds
    <3>3. O = (F \cup Own(v)) \cup {o.last}
      BY NoDict
    <3> QED BY <3>2, <3>3 DEF Own
  <2> QED BY <2>1, <2>2
<1> HIDE DEF o
<1>4. Is(n, O \cup {n.last}, B) /\ n.last \in Addresses \ Sources /\ n.last \notin O
  BY <1>3, Allocs
<1>5. Writes(Call(n, {InData(v), v.vp.ptr}, o.last), n.last) = n
  <2> DEFINE P == O \cup {n.last}
  <2>1. {InData(v), v.vp.ptr} \subseteq Readable(P, B)
    BY <1>1, ValueReadable DEF Holds, Readable
  <2>2. o.last \in P \cup B /\ n.last \in P \cup B /\ Is(n, P, B)
    BY <1>4
  <2> HIDE DEF P, n
  <2>3. Call(n, {InData(v), v.vp.ptr}, o.last) = n /\ Writes(n, n.last) = n
    BY <2>1, <2>2, CallsSoundly
  <2> QED BY <2>3
<1>6. Piece(other, v.data) = OwnData(v) \ {o.last}
  BY <1>1, <1>3 DEF OwnData, Piece
<1>7. CASE lossy
  <2> DEFINE f == FreeValidity(n, v.vp)  e == FreeIf(f, other, v.data)
  <2>1. Is(f, (O \cup {n.last}) \ OwnVp(v.vp), B)
    BY <1>4, FreesValidity
  <2>2. Is(e, ((O \cup {n.last}) \ OwnVp(v.vp)) \ Piece(other, v.data), B)
    <3> HIDE DEF f, other
    <3> QED BY <2>1, FreesIf
  <2>3. ((O \cup {n.last}) \ OwnVp(v.vp)) \ Piece(other, v.data) = (F \cup {o.last}) \cup {n.last}
    BY <1>2, <1>3, <1>4, <1>6
  <2>4. /\ Cast(r, v, bool, sameSize, lossy).rt = e
        /\ Cast(r, v, bool, sameSize, lossy).v = Value(rep, o.last, Validity(n.last, TRUE), 0, FALSE)
    BY <1>5, <1>7 DEF Cast, Gives, BoolCol, ColOf, o
  <2>5. HoldsVp(e, Validity(n.last, TRUE), F \cup {o.last}, B)
    <3>1. n.last \notin F \cup {o.last}
      BY <1>4
    <3>2. Is(e, (F \cup {o.last}) \cup {n.last}, B)
      BY <2>2, <2>3
    <3> HIDE DEF e, n
    <3> QED BY <1>4, <3>1, <3>2, OwnedVpOk DEF HoldsVp
  <2>6. rep \in {"column", "mask", "boolcol"}
    OBVIOUS
  <2> HIDE DEF e, n, rep
  <2> QED BY <1>3, <2>4, <2>5, <2>6, MakesValue
<1>8. CASE ~lossy
  <2> DEFINE f == Free(n, n.last)  e == FreeIf(f, other, v.data)
  <2>1. Is(f, (O \cup {n.last}) \ {n.last}, B)
    BY <1>4, Frees
  <2>2. Is(e, ((O \cup {n.last}) \ {n.last}) \ Piece(other, v.data), B)
    <3> HIDE DEF f, other
    <3> QED BY <2>1, FreesIf
  <2>3. ((O \cup {n.last}) \ {n.last}) \ Piece(other, v.data) = (F \cup {o.last}) \cup OwnVp(v.vp)
    BY <1>2, <1>3, <1>4, <1>6
  <2>4. /\ Cast(r, v, bool, sameSize, lossy).rt = e
        /\ Cast(r, v, bool, sameSize, lossy).v = Value(rep, o.last, v.vp, 0, FALSE)
    BY <1>5, <1>8 DEF Cast, Gives, BoolCol, ColOf, o
  <2>5. HoldsVp(e, v.vp, F \cup {o.last}, B)
    BY <1>2, <1>3, <2>2, <2>3 DEF HoldsVp
  <2>6. rep \in {"column", "mask", "boolcol"}
    OBVIOUS
  <2> HIDE DEF e, n, rep
  <2> QED BY <1>3, <2>4, <2>5, <2>6, MakesValue
<1> QED BY <1>7, <1>8

-----------------------------------------------------------------------------
(* Nodes with two operands.                                                *)

Pair(r, l, m, F, B) ==
  /\ Is(r, F \cup Own(l) \cup Own(m), B)
  /\ F \cap Own(l) = {} /\ F \cap Own(m) = {} /\ Own(l) \cap Own(m) = {}
  /\ ValOk(l) /\ ValOk(m)

LEMMA PairFacts ==
  ASSUME NEW r, NEW l, NEW m, NEW F, NEW B, Pair(r, l, m, F, B), ~l.ownDict, ~m.ownDict
  PROVE  /\ l.data \in Sources \cup OwnData(l) /\ m.data \in Sources \cup OwnData(m)
         /\ l.vp.ptr \in Sources \cup OwnVp(l.vp) \cup {0}
         /\ m.vp.ptr \in Sources \cup OwnVp(m.vp) \cup {0}
         /\ VpOk(l.vp) /\ VpOk(m.vp)
         /\ l.own \in BOOLEAN /\ m.own \in BOOLEAN
         /\ l.own => OwnData(l) = {l.data} /\ l.data \notin Sources /\ l.data \in Addresses
         /\ m.own => OwnData(m) = {m.data} /\ m.data \notin Sources /\ m.data \in Addresses
         /\ ~l.own => OwnData(l) = {}
         /\ ~m.own => OwnData(m) = {}
         /\ Own(l) = OwnData(l) \cup OwnVp(l.vp) /\ Own(m) = OwnData(m) \cup OwnVp(m.vp)
         /\ OwnData(l) \cap OwnVp(l.vp) = {} /\ OwnData(m) \cap OwnVp(m.vp) = {}
         /\ F \cap OwnData(l) = {} /\ F \cap OwnVp(l.vp) = {}
         /\ F \cap OwnData(m) = {} /\ F \cap OwnVp(m.vp) = {}
         /\ OwnData(l) \cap OwnData(m) = {} /\ OwnData(l) \cap OwnVp(m.vp) = {}
         /\ OwnVp(l.vp) \cap OwnData(m) = {} /\ OwnVp(l.vp) \cap OwnVp(m.vp) = {}
<1>1. ValOk(l) /\ ValOk(m)
  BY DEF Pair
<1>2. Own(l) = OwnData(l) \cup OwnVp(l.vp) /\ Own(m) = OwnData(m) \cup OwnVp(m.vp)
  BY NoDict
<1>3. /\ VpOk(l.vp) /\ VpOk(m.vp) /\ l.own \in BOOLEAN /\ m.own \in BOOLEAN
      /\ l.own => OwnData(l) = {l.data} /\ l.data \notin Sources
      /\ m.own => OwnData(m) = {m.data} /\ m.data \notin Sources
      /\ ~l.own => OwnData(l) = {}
      /\ ~m.own => OwnData(m) = {}
      /\ OwnData(l) \cap OwnVp(l.vp) = {} /\ OwnData(m) \cap OwnVp(m.vp) = {}
  BY <1>1 DEF ValOk, Values, OwnData, Piece
<1>4. /\ l.data \in Sources \cup OwnData(l) /\ m.data \in Sources \cup OwnData(m)
      /\ l.data \in Addresses /\ m.data \in Addresses
      /\ l.vp.ptr \in Sources \cup OwnVp(l.vp) \cup {0}
      /\ m.vp.ptr \in Sources \cup OwnVp(m.vp) \cup {0}
  BY <1>1, ValueReadable
<1> QED BY <1>2, <1>3, <1>4 DEF Pair

\* The buffer of an owned operand, the left one first, or a fresh one.
LEMMA TakesOut2 ==
  ASSUME Unbounded, NEW r, NEW l, NEW m, NEW F, NEW B, Pair(r, l, m, F, B), ~l.ownDict, ~m.ownDict
  PROVE  LET o == Out2(r, l, m) IN
         /\ Is(o, F \cup Own(l) \cup Own(m) \cup {o.last}, B)
         /\ o.last \in Addresses \ Sources /\ o.last \notin F \cup OwnVp(l.vp) \cup OwnVp(m.vp)
         /\ Piece(l.own /\ o.last # l.data, l.data) = OwnData(l) \ {o.last}
         /\ Piece(m.own /\ o.last # m.data, m.data) = OwnData(m) \ {o.last}
<1> DEFINE o == Out2(r, l, m)
<1>1. CASE l.own
  <2>1. o = [r EXCEPT !.last = l.data] /\ l.data \in Nat
    BY <1>1, PairFacts, SourcesFacts DEF Out2, Out
  <2>2. Is(o, F \cup Own(l) \cup Own(m), B) /\ o.last = l.data
    BY <2>1, LastSet DEF Pair
  <2>3. F \cup Own(l) \cup Own(m) \cup {l.data} = F \cup Own(l) \cup Own(m)
    BY <1>1, PairFacts
  <2>4. l.data \in Addresses \ Sources /\ l.data \notin F \cup OwnVp(l.vp) \cup OwnVp(m.vp)
        /\ OwnData(l) = {l.data} /\ l.data \notin OwnData(m)
    BY <1>1, PairFacts
  <2>5. Piece(l.own /\ o.last # l.data, l.data) = OwnData(l) \ {o.last}
    BY <2>2, <2>4 DEF Piece
  <2>6. Piece(m.own /\ o.last # m.data, m.data) = OwnData(m) \ {o.last}
    BY <2>2, <2>4, PairFacts DEF Piece
  <2> QED BY <2>2, <2>3, <2>4, <2>5, <2>6
<1>2. CASE ~l.own /\ m.own
  <2>1. o = [r EXCEPT !.last = m.data] /\ m.data \in Nat
    BY <1>2, PairFacts, SourcesFacts DEF Out2, Out
  <2>2. Is(o, F \cup Own(l) \cup Own(m), B) /\ o.last = m.data
    BY <2>1, LastSet DEF Pair
  <2>3. F \cup Own(l) \cup Own(m) \cup {m.data} = F \cup Own(l) \cup Own(m)
    BY <1>2, PairFacts
  <2>4. m.data \in Addresses \ Sources /\ m.data \notin F \cup OwnVp(l.vp) \cup OwnVp(m.vp)
        /\ OwnData(m) = {m.data} /\ OwnData(l) = {}
    BY <1>2, PairFacts
  <2>5. Piece(l.own /\ o.last # l.data, l.data) = OwnData(l) \ {o.last}
    BY <1>2, <2>4 DEF Piece
  <2>6. Piece(m.own /\ o.last # m.data, m.data) = OwnData(m) \ {o.last}
    BY <2>2, <2>4 DEF Piece
  <2> QED BY <2>2, <2>3, <2>4, <2>5, <2>6
<1>3. CASE ~l.own /\ ~m.own
  <2>1. o = Alloc(r)
    BY <1>3 DEF Out2, Out
  <2>2. /\ Is(o, F \cup Own(l) \cup Own(m) \cup {o.last}, B)
        /\ o.last \in Addresses \ Sources /\ o.last \notin F \cup Own(l) \cup Own(m)
    BY <2>1, Allocs DEF Pair
  <2>3. OwnData(l) = {} /\ OwnData(m) = {}
    BY <1>3, PairFacts
  <2>4. Piece(l.own /\ o.last # l.data, l.data) = {} /\ Piece(m.own /\ o.last # m.data, m.data) = {}
    BY <1>3 DEF Piece
  <2> QED BY <2>2, <2>3, <2>4 DEF Own
<1> QED BY <1>1, <1>2, <1>3

LEMMA NotBoolHolds ==
  ASSUME Unbounded, NEW r, NEW v, NEW F, NEW B, Holds(r, v, F, B), ~v.ownDict
  PROVE  LET g == NotBool(r, v) IN Holds(g.rt, g.v, F, B)
<1> DEFINE a == ToBoolCol(r, v)  w == a.v  o == Out(a.rt, w)  k == KleeneValidity(o, w.vp, AllValid)
           O == F \cup {o.last} \cup OwnVp(w.vp)
<1>1. Holds(a.rt, w, F, B) /\ ~w.ownDict
  BY ToBoolColHolds
<1>2. /\ Is(o, O, B) /\ o.last \in Addresses \ Sources /\ o.last \notin F \cup OwnVp(w.vp)
      /\ {w.data} \subseteq Readable(O, B) /\ o.last \in O \cup B
  <2>1. F \cup Rest(w) \cup {o.last} = O /\ Rest(w) = OwnVp(w.vp)
    BY <1>1, NoDict
  <2> HIDE DEF a, w, O
  <2>2. /\ Is(o, O, B) /\ o.last \in Addresses \ Sources /\ o.last \notin F \cup OwnVp(w.vp)
        /\ w.data \in Readable(O, B)
    BY <1>1, <2>1, TakesOut
  <2> QED BY <2>1, <2>2
<1>3. Call(o, {w.data}, o.last) = o
  <2> HIDE DEF o, O
  <2> QED BY <1>2, CallsSoundly
<1>4. NotBool(r, v).rt = k.rt /\ NotBool(r, v).v = Value("boolcol", o.last, k.vp, 0, FALSE)
  BY <1>3 DEF NotBool, Gives, BoolCol
<1>5. HoldsVp(k.rt, k.vp, F \cup {o.last}, B)
  <2>1. O = (F \cup {o.last}) \cup OwnVp(w.vp) \cup OwnVp(AllValid)
    BY AllValidOk
  <2>2. (F \cup {o.last}) \cap OwnVp(w.vp) = {} /\ VpOk(w.vp)
    BY <1>1, <1>2 DEF Holds, ValOk, Own
  <2> HIDE DEF o, w
  <2> QED BY <1>2, <2>1, <2>2, AllValidOk, MakesKleeneValidity
<1> HIDE DEF o, k
<1> QED BY <1>2, <1>4, <1>5, MakesValue

\* What two operands leave when their data is consumed into p.
LEMMA DropsData ==
  ASSUME NEW r, NEW l, NEW m, NEW G, NEW B, NEW p, NEW x, NEW y,
         Is(r, G \cup OwnData(l) \cup OwnData(m) \cup {p}, B),
         G \cap OwnData(l) = {}, G \cap OwnData(m) = {},
         Piece(x, l.data) = OwnData(l) \ {p}, Piece(y, m.data) = OwnData(m) \ {p}
  PROVE  Is(FreeIf(FreeIf(r, x, l.data), y, m.data), G \cup {p}, B)
<1> DEFINE f == FreeIf(r, x, l.data)  O == G \cup OwnData(l) \cup OwnData(m) \cup {p}
<1>1. Is(f, O \ Piece(x, l.data), B)
  BY FreesIf
<1> HIDE DEF f, O
<1>2. Is(FreeIf(f, y, m.data), (O \ Piece(x, l.data)) \ Piece(y, m.data), B)
  BY <1>1, FreesIf
<1>3. (O \ Piece(x, l.data)) \ Piece(y, m.data) = G \cup {p}
  BY DEF O
<1> QED BY <1>2, <1>3 DEF f

LEMMA CompareVecHolds ==
  ASSUME Unbounded, NEW r, NEW l, NEW m, NEW F, NEW B, Pair(r, l, m, F, B), ~l.ownDict, ~m.ownDict
  PROVE  LET g == CompareVec(r, l, m) IN Holds(g.rt, g.v, F, B)
<1> DEFINE a == Alloc(r)  f == FreeIf(FreeIf(a, l.own, l.data), m.own, m.data)
           c == CombineValidity(f, l.vp, m.vp)
           O == F \cup Own(l) \cup Own(m) \cup {a.last}
           G == F \cup OwnVp(l.vp) \cup OwnVp(m.vp)
<1>1. Is(a, O, B) /\ a.last \in Addresses \ Sources /\ a.last \notin F \cup Own(l) \cup Own(m)
  BY Allocs DEF Pair
<1>2. Call(a, {l.data, m.data}, a.last) = a
  <2> HIDE DEF a
  <2>1. Is(a, O, B) /\ {l.data, m.data} \subseteq Readable(O, B) /\ a.last \in O \cup B
    <3>1. l.data \in Sources \cup Own(l) /\ m.data \in Sources \cup Own(m)
      BY PairFacts
    <3> QED BY <1>1, <3>1 DEF Readable
  <2> HIDE DEF O, f, c, G
  <2>2. \A out \in O \cup B : Call(a, {l.data, m.data}, out) = a
    <3> DEFINE ptrs == {l.data, m.data}
    <3>1. ptrs \subseteq Readable(O, B)
      BY <2>1
    <3> HIDE DEF ptrs
    <3>2. \A out \in O \cup B : Call(a, ptrs, out) = a
      BY <2>1, <3>1, CallsSoundly
    <3> QED BY <3>2 DEF ptrs
  <2> QED BY <2>1, <2>2
<1>3. Is(f, G \cup {a.last}, B)
  <2>1. O = G \cup OwnData(l) \cup OwnData(m) \cup {a.last}
    BY NoDict
  <2>2. G \cap OwnData(l) = {} /\ G \cap OwnData(m) = {}
    BY PairFacts
  <2>3. Piece(l.own, l.data) = OwnData(l) \ {a.last} /\ Piece(m.own, m.data) = OwnData(m) \ {a.last}
    BY <1>1 DEF OwnData, Own
  <2> HIDE DEF O, G, a
  <2> QED BY <1>1, <2>1, <2>2, <2>3, DropsData
<1>4. HoldsVp(c.rt, c.vp, F \cup {a.last}, B)
  <2>1. G \cup {a.last} = (F \cup {a.last}) \cup OwnVp(l.vp) \cup OwnVp(m.vp)
    OBVIOUS
  <2>2. /\ (F \cup {a.last}) \cap OwnVp(l.vp) = {} /\ (F \cup {a.last}) \cap OwnVp(m.vp) = {}
        /\ OwnVp(l.vp) \cap OwnVp(m.vp) = {} /\ VpOk(l.vp) /\ VpOk(m.vp)
    BY <1>1, PairFacts
  <2> HIDE DEF f, G, a
  <2> QED BY <1>3, <2>1, <2>2, CombinesValidity
<1>5. CompareVec(r, l, m).rt = c.rt /\ CompareVec(r, l, m).v = Value("mask", a.last, c.vp, 0, FALSE)
  BY <1>2 DEF CompareVec, Gives, MaskOf
<1>6. a.last \notin F
  BY <1>1
<1> HIDE DEF a, c
<1> QED BY <1>1, <1>4, <1>5, <1>6, MakesValue

LEMMA ArithVecHolds ==
  ASSUME Unbounded, NEW r, NEW l, NEW m, NEW F, NEW B, Pair(r, l, m, F, B), ~l.ownDict, ~m.ownDict,
         NEW zeroes \in BOOLEAN
  PROVE  LET g == ArithVec(r, l, m, zeroes) IN Holds(g.rt, g.v, F, B)
<1> DEFINE z  == IF zeroes THEN Alloc(r) ELSE r
           zm == IF zeroes THEN Validity(z.last, TRUE) ELSE AllValid
           E  == F \cup OwnVp(zm)
           o  == Out2(z, l, m)
           x  == l.own /\ o.last # l.data
           y  == m.own /\ o.last # m.data
           f  == FreeIf(FreeIf(o, x, l.data), y, m.data)
           c  == CombineValidity(f, l.vp, m.vp)
           cz == CombineValidity(c.rt, c.vp, zm)
           O  == E \cup Own(l) \cup Own(m) \cup {o.last}
           G  == E \cup OwnVp(l.vp) \cup OwnVp(m.vp)
<1>1. Pair(z, l, m, E, B) /\ VpOk(zm) /\ F \cap OwnVp(zm) = {}
  <2>1. CASE zeroes
    <3>1. /\ Is(z, F \cup Own(l) \cup Own(m) \cup {z.last}, B)
          /\ z.last \in Addresses \ Sources /\ z.last \notin F \cup Own(l) \cup Own(m)
      BY <2>1, Allocs DEF Pair
    <3>2. VpOk(zm) /\ OwnVp(zm) = {z.last}
      <4> HIDE DEF z
      <4> QED BY <2>1, <3>1, OwnedVpOk
    <3>3. F \cup Own(l) \cup Own(m) \cup {z.last} = E \cup Own(l) \cup Own(m)
      BY <3>2
    <3> HIDE DEF z, zm
    <3> QED BY <3>1, <3>2, <3>3 DEF Pair
  <2>2. CASE ~zeroes
    <3>1. z = r /\ zm = AllValid
      BY <2>2
    <3>2. E = F
      BY <3>1, AllValidOk
    <3> HIDE DEF z, zm, E
    <3> QED BY <3>1, <3>2, AllValidOk
  <2> QED BY <2>1, <2>2
<1>2. /\ Is(o, O, B) /\ o.last \in Addresses \ Sources
      /\ o.last \notin E \cup OwnVp(l.vp) \cup OwnVp(m.vp)
      /\ Piece(x, l.data) = OwnData(l) \ {o.last} /\ Piece(y, m.data) = OwnData(m) \ {o.last}
  <2> HIDE DEF z, zm, E
  <2> QED BY <1>1, TakesOut2
<1>3. Call(o, {l.data, m.data}, o.last) = o
  <2> HIDE DEF z, zm, E, o
  <2>1. {l.data, m.data} \subseteq Readable(O, B) /\ o.last \in O \cup B
    <3>1. l.data \in Sources \cup Own(l) /\ m.data \in Sources \cup Own(m)
      BY PairFacts
    <3> QED BY <3>1 DEF Readable
  <2> HIDE DEF O
  <2> QED BY <1>2, <2>1, CallsSoundly
<1>4. ArithVec(r, l, m, zeroes).rt = cz.rt
      /\ ArithVec(r, l, m, zeroes).v = Value("column", o.last, cz.vp, 0, FALSE)
  BY <1>3 DEF ArithVec, Gives, ColOf
<1> HIDE DEF z, zm
<1>5. Is(f, G \cup {o.last}, B)
  <2>1. O = G \cup OwnData(l) \cup OwnData(m) \cup {o.last}
    BY NoDict
  <2>2. G \cap OwnData(l) = {} /\ G \cap OwnData(m) = {}
    BY <1>1, PairFacts
  <2> HIDE DEF O, G, o, x, y
  <2> QED BY <1>2, <2>1, <2>2, DropsData
<1>6. HoldsVp(c.rt, c.vp, E \cup {o.last}, B)
  <2>1. G \cup {o.last} = (E \cup {o.last}) \cup OwnVp(l.vp) \cup OwnVp(m.vp)
    OBVIOUS
  <2>2. /\ (E \cup {o.last}) \cap OwnVp(l.vp) = {} /\ (E \cup {o.last}) \cap OwnVp(m.vp) = {}
        /\ OwnVp(l.vp) \cap OwnVp(m.vp) = {} /\ VpOk(l.vp) /\ VpOk(m.vp)
    <3> HIDE DEF E
    <3> QED BY <1>1, <1>2, PairFacts
  <2> HIDE DEF f, G, o, E
  <2> QED BY <1>5, <2>1, <2>2, CombinesValidity
<1> HIDE DEF c, o
<1>7. HoldsVp(cz.rt, cz.vp, F \cup {o.last}, B)
  <2>1. (E \cup {o.last}) \cup OwnVp(c.vp) = (F \cup {o.last}) \cup OwnVp(c.vp) \cup OwnVp(zm)
    OBVIOUS
  <2>2. /\ (F \cup {o.last}) \cap OwnVp(c.vp) = {} /\ (F \cup {o.last}) \cap OwnVp(zm) = {}
        /\ OwnVp(c.vp) \cap OwnVp(zm) = {} /\ VpOk(c.vp)
        /\ Is(c.rt, (F \cup {o.last}) \cup OwnVp(c.vp) \cup OwnVp(zm), B)
    BY <1>1, <1>2, <1>6, <2>1 DEF HoldsVp
  <2> QED BY <1>1, <2>2, CombinesValidity
<1>8. o.last \notin F
  BY <1>2
<1> HIDE DEF cz
<1>9. Holds(cz.rt, Value("column", o.last, cz.vp, 0, FALSE), F, B)
  BY <1>2, <1>7, <1>8, MakesValue
<1> QED BY <1>4, <1>9

LEMMA KleeneHolds ==
  ASSUME Unbounded, NEW r, NEW l, NEW m, NEW F, NEW B, Pair(r, l, m, F, B), ~l.ownDict, ~m.ownDict
  PROVE  LET g == Kleene(r, l, m) IN Holds(g.rt, g.v, F, B)
<1> DEFINE a == ToBoolCol(r, l)  u == a.v
           b == ToBoolCol(a.rt, m)  w == b.v
           o == Out2(b.rt, u, w)
           k == KleeneValidity(o, u.vp, w.vp)
           x == u.own /\ o.last # u.data
           y == w.own /\ o.last # w.data
           e == FreeIf(FreeIf(k.rt, x, u.data), y, w.data)
           O == F \cup Own(u) \cup Own(w) \cup {o.last}
           G == F \cup OwnData(u) \cup OwnData(w) \cup {o.last}
<1>1. Holds(a.rt, u, F \cup Own(m), B) /\ ~u.ownDict
  <2>1. F \cup Own(l) \cup Own(m) = (F \cup Own(m)) \cup Own(l)
    OBVIOUS
  <2>2. Holds(r, l, F \cup Own(m), B)
    BY <2>1 DEF Pair, Holds
  <2> QED BY <2>2, ToBoolColHolds
<1> HIDE DEF a, u
<1>2. Holds(b.rt, w, F \cup Own(u), B) /\ ~w.ownDict
  <2>1. (F \cup Own(m)) \cup Own(u) = (F \cup Own(u)) \cup Own(m)
    OBVIOUS
  <2>2. Holds(a.rt, m, F \cup Own(u), B)
    BY <1>1, <2>1 DEF Pair, Holds
  <2> QED BY <2>2, ToBoolColHolds
<1> HIDE DEF b, w
<1>3. Pair(b.rt, u, w, F, B)
  BY <1>1, <1>2 DEF Pair, Holds
<1>4. /\ Is(o, O, B) /\ o.last \in Addresses \ Sources
      /\ o.last \notin F \cup OwnVp(u.vp) \cup OwnVp(w.vp)
      /\ Piece(x, u.data) = OwnData(u) \ {o.last} /\ Piece(y, w.data) = OwnData(w) \ {o.last}
  BY <1>1, <1>2, <1>3, TakesOut2
<1>5. Call(o, {u.data, w.data}, o.last) = o
  <2> HIDE DEF o
  <2>1. {u.data, w.data} \subseteq Readable(O, B) /\ o.last \in O \cup B
    <3>1. u.data \in Sources \cup Own(u) /\ w.data \in Sources \cup Own(w)
      BY <1>1, <1>2, <1>3, PairFacts
    <3> QED BY <3>1 DEF Readable
  <2> HIDE DEF O
  <2>2. \A out \in O \cup B : Call(o, {u.data, w.data}, out) = o
    BY <1>4, <2>1, CallsSoundly
  <2> QED BY <2>1, <2>2
<1>6. Kleene(r, l, m).rt = e /\ Kleene(r, l, m).v = Value("boolcol", o.last, k.vp, 0, FALSE)
  BY <1>5 DEF Kleene, Gives, BoolCol, a, b, u, w
<1> HIDE DEF o
<1>7. HoldsVp(k.rt, k.vp, G, B)
  <2>1. O = G \cup OwnVp(u.vp) \cup OwnVp(w.vp)
    BY <1>1, <1>2, NoDict
  <2>2. /\ G \cap OwnVp(u.vp) = {} /\ G \cap OwnVp(w.vp) = {}
        /\ OwnVp(u.vp) \cap OwnVp(w.vp) = {} /\ VpOk(u.vp) /\ VpOk(w.vp)
    BY <1>1, <1>2, <1>3, <1>4, PairFacts
  <2> HIDE DEF G, O
  <2> QED BY <1>4, <2>1, <2>2, MakesKleeneValidity
<1> HIDE DEF k
<1>8. HoldsVp(e, k.vp, F \cup {o.last}, B)
  <2> DEFINE H == F \cup OwnVp(k.vp)
  <2>1. /\ Is(k.rt, H \cup OwnData(u) \cup OwnData(w) \cup {o.last}, B)
        /\ H \cap OwnData(u) = {} /\ H \cap OwnData(w) = {}
    <3>1. G \cup OwnVp(k.vp) = H \cup OwnData(u) \cup OwnData(w) \cup {o.last}
      OBVIOUS
    <3>2. OwnData(u) \subseteq G /\ OwnData(w) \subseteq G
      OBVIOUS
    <3>3. F \cap OwnData(u) = {} /\ F \cap OwnData(w) = {}
      BY <1>1, <1>2, <1>3, PairFacts
    <3> HIDE DEF G
    <3> QED BY <1>7, <3>1, <3>2, <3>3 DEF HoldsVp
  <2>2. Is(e, H \cup {o.last}, B)
    <3> HIDE DEF H, x, y
    <3> QED BY <1>4, <2>1, DropsData
  <2>3. H \cup {o.last} = (F \cup {o.last}) \cup OwnVp(k.vp)
    OBVIOUS
  <2>4. (F \cup {o.last}) \cap OwnVp(k.vp) = {} /\ VpOk(k.vp)
    BY <1>7 DEF HoldsVp
  <2> QED BY <2>2, <2>3, <2>4 DEF HoldsVp
<1>9. o.last \notin F
  BY <1>4
<1> HIDE DEF e
<1>10. Holds(e, Value("boolcol", o.last, k.vp, 0, FALSE), F, B)
  BY <1>4, <1>8, <1>9, MakesValue
<1> QED BY <1>6, <1>10

-----------------------------------------------------------------------------
(* The end of a plan.                                                      *)

LEMMA GivesAway ==
  ASSUME Unbounded, NEW r, NEW O, NEW B, Is(r, O, B)
  PROVE  LET m == ModAlloc(r) IN
         /\ Is(m, O, B \cup {m.last}) /\ m.last \in Addresses \ Sources /\ m.last \notin O \cup B
         /\ Is(ModFree(m, m.last), O, B)
<1> DEFINE m == ModAlloc(r)
<1>1. /\ m.last \in Addresses \ Sources /\ m.last \notin O \cup B
      /\ m \in Runtimes /\ m.owned = O /\ m.live = Sources \cup O \cup B \cup {m.last} /\ m.faults = {}
  BY FreshAddress
<1> HIDE DEF m
<1>2. Temps(B \cup {m.last}) /\ Temps(O) /\ Temps(B) /\ O \cap B = {}
  BY <1>1, TempsFacts DEF Is
<1>3. Is(m, O, B \cup {m.last})
  BY <1>1, <1>2 DEF Is
<1>4. Is(ModFree(m, m.last), O, B)
  <2>1. ModFree(m, m.last) = [m EXCEPT !.live = @ \ {m.last}]
    BY <1>1 DEF ModFree
  <2>2. (Sources \cup O \cup B \cup {m.last}) \ {m.last} = Sources \cup O \cup B
    BY <1>1
  <2>3. /\ ModFree(m, m.last) \in Runtimes /\ ModFree(m, m.last).owned = O
        /\ ModFree(m, m.last).live = Sources \cup O \cup B /\ ModFree(m, m.last).faults = {}
    BY <1>1, <2>1, <2>2 DEF Runtimes
  <2> QED BY <1>2, <2>3 DEF Is
<1> QED BY <1>1, <1>3, <1>4 DEF m

LEMMA Transfers ==
  ASSUME NEW r, NEW O, NEW B, Is(r, O, B), NEW p \in O
  PROVE  Is(Transfer(r, p), O \ {p}, B \cup {p})
<1>1. Temps(O \ {p}) /\ Temps(B \cup {p}) /\ (O \ {p}) \cap (B \cup {p}) = {}
  BY TempsFacts DEF Is, Temps
<1>2. /\ Transfer(r, p) \in Runtimes /\ Transfer(r, p).owned = O \ {p}
      /\ Transfer(r, p).live = r.live /\ Transfer(r, p).faults = {}
  BY DEF Is, Transfer, Runtimes
<1>3. r.live = Sources \cup (O \ {p}) \cup (B \cup {p})
  BY DEF Is
<1> QED BY <1>1, <1>2, <1>3 DEF Is

\* A buffer of the result: what the value owned of it is tracked no longer.
LEMMA Keeps ==
  ASSUME Unbounded, NEW k, NEW O, Is(k.rt, O, k.bufs), NEW owns \in BOOLEAN, NEW p,
         p \in Readable(O, k.bufs), owns => p \in O
  PROVE  LET n == Keep(k, owns, p) IN Is(n.rt, O \ Piece(owns, p), n.bufs)
<1>1. 0 \notin O
  BY TempsFacts, SourcesFacts DEF Is
<1>2. CASE p = 0
  <2>1. Keep(k, owns, p) = k /\ O \ Piece(owns, p) = O
    BY <1>1, <1>2 DEF Keep, Piece
  <2> QED BY <2>1
<1>3. CASE p # 0 /\ owns
  <2>1. /\ Keep(k, owns, p).rt = Transfer(k.rt, p) /\ Keep(k, owns, p).bufs = k.bufs \cup {p}
        /\ Piece(owns, p) = {p}
    BY <1>3 DEF Keep, Piece
  <2>2. Is(Transfer(k.rt, p), O \ {p}, k.bufs \cup {p})
    BY <1>3, Transfers
  <2> QED BY <2>1, <2>2
<1>4. CASE p # 0 /\ ~owns
  <2> DEFINE a == ModAlloc(k.rt)
  <2>1. Is(a, O, k.bufs \cup {a.last})
    BY GivesAway
  <2>2. Call(a, {p}, a.last) = a
    <3> DEFINE N == k.bufs \cup {a.last}
    <3>1. {p} \subseteq Readable(O, N) /\ a.last \in O \cup N
      BY DEF Readable
    <3> HIDE DEF N, a
    <3>2. \A out \in O \cup N : Call(a, {p}, out) = a
      BY <2>1, <3>1, CallsSoundly DEF N
    <3> QED BY <3>1, <3>2
  <2>3. /\ Keep(k, owns, p).rt = a /\ Keep(k, owns, p).bufs = k.bufs \cup {a.last}
        /\ O \ Piece(owns, p) = O
    BY <1>4, <2>2 DEF Keep, Piece
  <2> QED BY <2>1, <2>3
<1> QED BY <1>2, <1>3, <1>4

LEMMA FinalizesColumn ==
  ASSUME Unbounded, NEW r, NEW v, Holds(r, v, {}, {})
  PROVE  LET k == FinalizeColumn(r, v) IN \E O : Is(k.rt, O, k.bufs)
<1> DEFINE b == IF v.rep = "mask" THEN ToBoolCol(r, v) ELSE Gives(r, v)  w == b.v
           s == [rt |-> b.rt, bufs |-> {}]
           d == Keep(s, w.own, w.data)
           e == Keep(d, w.vp.owns, w.vp.ptr)
           f == Keep(e, w.ownDict, w.dict)
<1>1. Holds(b.rt, w, {}, {})
  <2>1. CASE v.rep = "mask"
    <3>1. ~v.ownDict
      BY <2>1 DEF Holds, ValOk, Values
    <3> QED BY <2>1, <3>1, ToBoolColHolds
  <2>2. CASE v.rep # "mask"
    BY <2>2 DEF Gives
  <2> QED BY <2>1, <2>2
<1> HIDE DEF b, w
<1>2. /\ w.own \in BOOLEAN /\ w.vp.owns \in BOOLEAN /\ w.ownDict \in BOOLEAN
      /\ w.data \in Sources \cup OwnData(w) /\ w.vp.ptr \in Sources \cup OwnVp(w.vp) \cup {0}
      /\ w.dict \in Sources \cup OwnDict(w) \cup {0}
      /\ OwnData(w) = Piece(w.own, w.data) /\ OwnVp(w.vp) = Piece(w.vp.owns, w.vp.ptr)
      /\ OwnDict(w) = Piece(w.ownDict, w.dict)
      /\ w.own => w.data \in OwnData(w)
      /\ w.vp.owns => w.vp.ptr \in OwnVp(w.vp)
      /\ w.ownDict => w.dict \in OwnDict(w)
      /\ OwnData(w) \cap OwnVp(w.vp) = {} /\ OwnData(w) \cap OwnDict(w) = {}
      /\ OwnVp(w.vp) \cap OwnDict(w) = {}
  <2>1. ValOk(w)
    BY <1>1 DEF Holds
  <2>2. /\ w.own \in BOOLEAN /\ w.vp.owns \in BOOLEAN /\ w.ownDict \in BOOLEAN
        /\ OwnData(w) \cap OwnVp(w.vp) = {} /\ OwnData(w) \cap OwnDict(w) = {}
        /\ OwnVp(w.vp) \cap OwnDict(w) = {}
    BY <2>1 DEF ValOk, VpOk, Values
  <2>3. /\ w.own => w.data \in OwnData(w)
        /\ w.vp.owns => w.vp.ptr \in OwnVp(w.vp)
        /\ w.ownDict => w.dict \in OwnDict(w)
    BY DEF OwnData, OwnVp, OwnDict, Piece
  <2> QED BY <2>1, <2>2, <2>3, ValueReadable DEF OwnData, OwnVp, OwnDict
<1> DEFINE O1 == OwnVp(w.vp) \cup OwnDict(w)
<1>3. Is(d.rt, O1, d.bufs)
  <2> DEFINE O0 == OwnData(w) \cup O1
  <2>1. Is(s.rt, O0, s.bufs)
    <3>1. {} \cup Own(w) = O0
      BY DEF Own
    <3> QED BY <1>1, <3>1 DEF Holds
  <2>2. w.data \in Readable(O0, s.bufs) /\ (w.own => w.data \in O0) /\ O0 \ Piece(w.own, w.data) = O1
    BY <1>2 DEF Readable
  <2> HIDE DEF O0, s, O1
  <2> QED BY <1>2, <2>1, <2>2, Keeps
<1>4. Is(e.rt, OwnDict(w), e.bufs)
  <2>1. w.vp.ptr \in Readable(O1, d.bufs) /\ (w.vp.owns => w.vp.ptr \in O1)
        /\ O1 \ Piece(w.vp.owns, w.vp.ptr) = OwnDict(w)
    BY <1>2 DEF Readable
  <2> HIDE DEF O1, d
  <2> QED BY <1>2, <1>3, <2>1, Keeps
<1>5. Is(f.rt, OwnDict(w) \ Piece(w.ownDict, w.dict), f.bufs)
  <2>1. w.dict \in Readable(OwnDict(w), e.bufs)
    BY <1>2 DEF Readable
  <2> HIDE DEF e
  <2> QED BY <1>2, <1>4, <2>1, Keeps
<1>6. FinalizeColumn(r, v) = f
  BY DEF FinalizeColumn, b, w
<1> QED BY <1>5, <1>6

LEMMA FreesAll ==
  ASSUME NEW r, NEW O, NEW B, Is(r, O, B)
  PROVE  Is([FreeAll(r) EXCEPT !.last = 0], {}, B)
<1> DEFINE f == [r EXCEPT !.live = @ \ r.owned, !.owned = {}]
<1>1. FreeAll(r) = f
  BY DEF Is, FreeAll
<1>2. f \in Runtimes /\ f.owned = {} /\ f.live = r.live \ O /\ f.faults = {}
  BY DEF Is, Runtimes
<1>3. r.live \ O = Sources \cup {} \cup B
  BY TempsFacts DEF Is
<1>4. Temps({}) /\ Temps(B) /\ {} \cap B = {}
  BY TempsFacts DEF Is
<1> HIDE DEF f
<1>5. Is(f, {}, B)
  BY <1>2, <1>3, <1>4 DEF Is
<1> QED BY <1>1, <1>5, LastSet

\* The column and the mask may be read by every step of a compaction.
LEMMA MakesResult ==
  ASSUME Unbounded, NEW r, NEW O, NEW B, Is(r, O, B), NEW ptrs, ptrs \subseteq Readable(O, B)
  PROVE  LET m == ModAlloc(r)  k == Call(m, ptrs, m.last) IN
         /\ Is(k, O, B \cup {m.last}) /\ Is(ModFree(k, m.last), O, B)
         /\ ptrs \subseteq Readable(O, B \cup {m.last})
<1> DEFINE m == ModAlloc(r)  N == B \cup {m.last}
<1>1. Is(m, O, N) /\ Is(ModFree(m, m.last), O, B)
  BY GivesAway
<1>2. ptrs \subseteq Readable(O, N) /\ m.last \in O \cup N
  BY DEF Readable
<1>3. Call(m, ptrs, m.last) = m
  <2> HIDE DEF m, N
  <2>1. \A out \in O \cup N : Call(m, ptrs, out) = m
    BY <1>1, <1>2, CallsSoundly
  <2> QED BY <1>2, <2>1
<1> QED BY <1>1, <1>2, <1>3

LEMMA Compacts ==
  ASSUME Unbounded, NEW r, NEW O, NEW B, Is(r, O, B), NEW p, p \in Readable(O, B),
         NEW c \in Columns, NEW nulls \in BOOLEAN
  PROVE  LET d == ModAlloc(r)
             k == Call(d, {c.data, p}, d.last)
             n == ModAlloc(k)
             w == Call(n, {c.vp, p}, n.last)
             v == IF c.vp = 0 THEN k ELSE IF nulls THEN w ELSE ModFree(w, n.last)
             s == ModAlloc(v)
             x == IF c.dict = 0 THEN v ELSE Call(s, {c.dict}, s.last) IN
         \E N : Is(x, O, N) /\ B \subseteq N
<1> DEFINE d == ModAlloc(r)
           k == Call(d, {c.data, p}, d.last)
           n == ModAlloc(k)
           w == Call(n, {c.vp, p}, n.last)
           v == IF c.vp = 0 THEN k ELSE IF nulls THEN w ELSE ModFree(w, n.last)
           s == ModAlloc(v)
           x == IF c.dict = 0 THEN v ELSE Call(s, {c.dict}, s.last)
           N1 == B \cup {d.last}  N2 == N1 \cup {n.last}
<1>1. \A N : {c.data, c.vp, c.dict} \subseteq Readable(O, N)
  BY DEF Columns, Source, Sources, Readable
<1>2. Is(k, O, N1) /\ {c.data, p} \subseteq Readable(O, N1)
  <2>1. {c.data, p} \subseteq Readable(O, B)
    BY <1>1
  <2> QED BY <2>1, MakesResult
<1> HIDE DEF k
<1>3. Is(w, O, N2) /\ Is(ModFree(w, n.last), O, N1)
  <2>1. {c.vp, p} \subseteq Readable(O, N1)
    BY <1>1, <1>2
  <2> HIDE DEF N1
  <2> QED BY <1>2, <2>1, MakesResult
<1>4. PICK N3 : Is(v, O, N3) /\ B \subseteq N3
  <2> HIDE DEF w, n
  <2>1. B \subseteq N1 /\ B \subseteq N2
    OBVIOUS
  <2>2. v = k \/ v = w \/ v = ModFree(w, n.last)
    OBVIOUS
  <2> HIDE DEF v, N1, N2
  <2> QED BY <1>2, <1>3, <2>1, <2>2
<1> HIDE DEF v
<1>5. CASE c.dict = 0
  BY <1>4, <1>5 DEF v, k
<1>6. CASE c.dict # 0
  <2>1. {c.dict} \subseteq Readable(O, N3)
    BY <1>1
  <2>2. Is(Call(s, {c.dict}, s.last), O, N3 \cup {s.last})
    BY <1>4, <2>1, MakesResult
  <2>3. Is(x, O, N3 \cup {s.last}) /\ B \subseteq N3 \cup {s.last}
    BY <1>4, <1>6, <2>2
  <2> QED BY <2>3 DEF v, k
<1> QED BY <1>5, <1>6

-----------------------------------------------------------------------------
(* The operands of an expression.                                          *)

\* What the first n operands own.
OwnedUpTo(s, n) == UNION {Own(s[i]) : i \in 1 .. n}

\* Each operand's parts are apart from the others'.
Apart(s) ==
  /\ s \in Seq(Values)
  /\ \A i \in 1 .. Len(s) : ValOk(s[i])
  /\ \A i, j \in 1 .. Len(s) : i # j => Own(s[i]) \cap Own(s[j]) = {}

StackHolds == Apart(stack) /\ Is(rt, OwnedUpTo(stack, Len(stack)), {})

LEMMA UpToFacts ==
  ASSUME NEW s, NEW n \in Nat
  PROVE  /\ OwnedUpTo(s, 0) = {}
         /\ OwnedUpTo(s, n + 1) = OwnedUpTo(s, n) \cup Own(s[n + 1])
<1>1. 1 .. 0 = {} /\ 1 .. (n + 1) = (1 .. n) \cup {n + 1}
  OBVIOUS
<1> QED BY <1>1 DEF OwnedUpTo

LEMMA UpToApart ==
  ASSUME NEW s, Apart(s), NEW n \in Nat, NEW k \in 1 .. Len(s), n < k
  PROVE  OwnedUpTo(s, n) \cap Own(s[k]) = {}
<1>1. Len(s) \in Nat
  BY DEF Apart
<1>2. \A i \in 1 .. n : Own(s[i]) \cap Own(s[k]) = {}
  <2>1. \A i \in 1 .. n : i \in 1 .. Len(s) /\ i # k
    BY <1>1
  <2> QED BY <2>1 DEF Apart
<1> QED BY <1>2 DEF OwnedUpTo

LEMMA TopHolds ==
  ASSUME NEW s, NEW r, Apart(s), Is(r, OwnedUpTo(s, Len(s)), {}), s # << >>
  PROVE  Holds(r, s[Len(s)], OwnedUpTo(s, Len(s) - 1), {})
<1> DEFINE n == Len(s) - 1
<1>1. n \in Nat /\ Len(s) = n + 1 /\ Len(s) \in 1 .. Len(s)
  BY DEF Apart
<1>2. OwnedUpTo(s, Len(s)) = OwnedUpTo(s, n) \cup Own(s[Len(s)])
  BY <1>1, UpToFacts
<1>3. OwnedUpTo(s, n) \cap Own(s[Len(s)]) = {} /\ ValOk(s[Len(s)])
  BY <1>1, UpToApart DEF Apart
<1> QED BY <1>2, <1>3 DEF Holds

LEMMA TopTwoHold ==
  ASSUME NEW s, NEW r, Apart(s), Is(r, OwnedUpTo(s, Len(s)), {}), Len(s) >= 2
  PROVE  Pair(r, s[Len(s) - 1], s[Len(s)], OwnedUpTo(s, Len(s) - 2), {})
<1> DEFINE n == Len(s) - 2
<1>1. /\ n \in Nat /\ n + 1 \in Nat /\ Len(s) = (n + 1) + 1 /\ Len(s) - 1 = n + 1
      /\ Len(s) \in 1 .. Len(s) /\ n + 1 \in 1 .. Len(s) /\ n < n + 1 /\ n < Len(s) /\ n + 1 # Len(s)
  BY DEF Apart
<1> HIDE DEF n
<1>2. OwnedUpTo(s, Len(s)) = OwnedUpTo(s, n) \cup Own(s[n + 1]) \cup Own(s[Len(s)])
  <2>1. OwnedUpTo(s, n + 1) = OwnedUpTo(s, n) \cup Own(s[n + 1])
    BY <1>1, UpToFacts
  <2>2. OwnedUpTo(s, (n + 1) + 1) = OwnedUpTo(s, n + 1) \cup Own(s[(n + 1) + 1])
    BY <1>1, UpToFacts
  <2> QED BY <1>1, <2>1, <2>2
<1>3. OwnedUpTo(s, n) \cap Own(s[n + 1]) = {} /\ OwnedUpTo(s, n) \cap Own(s[Len(s)]) = {}
  BY <1>1, UpToApart
<1>4. Own(s[n + 1]) \cap Own(s[Len(s)]) = {} /\ ValOk(s[n + 1]) /\ ValOk(s[Len(s)])
  BY <1>1 DEF Apart
<1>5. Pair(r, s[n + 1], s[Len(s)], OwnedUpTo(s, n), {})
  BY <1>2, <1>3, <1>4 DEF Pair
<1> QED BY <1>1, <1>5 DEF n

LEMMA Pushes ==
  ASSUME NEW s, NEW r, NEW v, NEW k \in 0 .. Len(s), Apart(s), Holds(r, v, OwnedUpTo(s, k), {})
  PROVE  LET t == Append(SubSeq(s, 1, k), v) IN Apart(t) /\ Is(r, OwnedUpTo(t, Len(t)), {})
<1> DEFINE t == Append(SubSeq(s, 1, k), v)
<1>1. s \in Seq(Values) /\ v \in Values /\ Len(s) \in Nat /\ k \in Nat
  BY DEF Apart, Holds, ValOk
<1>2. /\ t \in Seq(Values) /\ Len(t) = k + 1 /\ t[k + 1] = v
      /\ \A i \in 1 .. k : t[i] = s[i] /\ i \in 1 .. Len(s)
  BY <1>1
<1> HIDE DEF t
<1>3. OwnedUpTo(t, k) = OwnedUpTo(s, k)
  BY <1>2 DEF OwnedUpTo
<1>4. OwnedUpTo(t, Len(t)) = OwnedUpTo(s, k) \cup Own(v)
  BY <1>1, <1>2, <1>3, UpToFacts
<1>5. \A i \in 1 .. k : Own(s[i]) \cap Own(v) = {}
  BY DEF Holds, OwnedUpTo
<1>6. Apart(t)
  <2>1. \A i \in 1 .. Len(t) : i \in 1 .. k \/ i = k + 1
    BY <1>1, <1>2
  <2>2. \A i \in 1 .. Len(t) : ValOk(t[i])
    BY <1>2, <2>1 DEF Apart, Holds
  <2>3. \A i, j \in 1 .. Len(t) : i # j => Own(t[i]) \cap Own(t[j]) = {}
    <3> SUFFICES ASSUME NEW i \in 1 .. Len(t), NEW j \in 1 .. Len(t), i # j
                 PROVE  Own(t[i]) \cap Own(t[j]) = {}
      OBVIOUS
    <3>1. CASE i \in 1 .. k /\ j \in 1 .. k
      BY <1>2, <3>1 DEF Apart
    <3>2. CASE i = k + 1 /\ j \in 1 .. k
      BY <1>2, <1>5, <3>2
    <3>3. CASE i \in 1 .. k /\ j = k + 1
      BY <1>2, <1>5, <3>3
    <3> QED BY <2>1, <3>1, <3>2, <3>3
  <2> QED BY <1>2, <2>2, <2>3 DEF Apart
<1>7. Is(r, OwnedUpTo(t, Len(t)), {})
  BY <1>4 DEF Holds
<1> QED BY <1>6, <1>7 DEF t

-----------------------------------------------------------------------------
(* The invariant.                                                          *)

\* While an expression is evaluated the runtime tracks what the operands own;
\* afterwards all that is live is the columns, what it tracks and the result.
IInv ==
  /\ plan \in {"column", "filter"} /\ phase \in {"eval", "selection", "done", "thrown"}
  /\ nodes \in 0 .. MaxNodes
  /\ phase = "eval" => StackHolds /\ result = {} /\ mask = 0
  /\ phase # "eval" => stack = << >>
  /\ phase = "selection" => Is(rt, rt.owned, result) /\ mask \in Readable(rt.owned, result)
  /\ phase = "done" => Is(rt, {}, result) /\ mask = 0
  /\ phase = "thrown" => Is(rt, rt.owned, {}) /\ result = {} /\ mask = 0

LEMMA InitHolds == Init => IInv
<1> SUFFICES ASSUME Init PROVE IInv
  OBVIOUS
<1>1. Len(stack) = 0 /\ stack \in Seq(Values) /\ stack = << >>
  BY DEF Init
<1>2. Apart(stack) /\ OwnedUpTo(stack, Len(stack)) = {}
  <2>1. OwnedUpTo(stack, 0) = {}
    BY UpToFacts, 0 \in Nat
  <2> QED BY <1>1, <2>1 DEF Apart
<1>3. Is(rt, {}, {})
  <2>1. Temps({})
    BY FS_EmptySet DEF Temps
  <2> QED BY <2>1, SourcesFacts DEF Init, Is, Runtimes
<1>4. StackHolds
  BY <1>2, <1>3 DEF StackHolds
<1>5. nodes \in 0 .. MaxNodes
  BY ExprAssumption DEF Init
<1> QED BY <1>1, <1>4, <1>5 DEF Init, IInv

\* A node leaves the operands under its own as they were.
LEMMA Replaces ==
  ASSUME IInv, Evaluating, NEW n \in Nat, n <= Len(stack), NEW g,
         Holds(g.rt, g.v, OwnedUpTo(stack, Len(stack) - n), {}), Replace(n, g)
  PROVE  IInv'
<1>1. Apart(stack) /\ Len(stack) \in Nat /\ phase = "eval" /\ result = {} /\ mask = 0
      /\ nodes \in Nat /\ nodes + 1 \in 0 .. MaxNodes
  <2>1. phase = "eval" /\ StackHolds /\ result = {} /\ mask = 0
    BY DEF IInv, Evaluating
  <2>2. nodes \in Nat /\ nodes + 1 \in 0 .. MaxNodes
    BY ExprAssumption DEF IInv, Evaluating
  <2>3. Apart(stack)
    BY <2>1 DEF StackHolds
  <2>4. Len(stack) \in Nat
    BY <2>3 DEF Apart
  <2> QED BY <2>1, <2>2, <2>3, <2>4
<1> DEFINE k == Len(stack) - n
<1>2. k \in 0 .. Len(stack)
  BY <1>1
<1>3. /\ rt' = [g.rt EXCEPT !.last = 0] /\ stack' = Append(SubSeq(stack, 1, k), g.v)
      /\ nodes' = nodes + 1 /\ plan' = plan /\ phase' = phase /\ mask' = mask /\ result' = result
  BY DEF Replace, Popped
<1> HIDE DEF k
<1>4. Apart(stack') /\ Is(g.rt, OwnedUpTo(stack', Len(stack')), {})
  BY <1>1, <1>2, <1>3, Pushes DEF k
<1>5. Is(rt', OwnedUpTo(stack', Len(stack')), {})
  BY <1>3, <1>4, LastSet
<1>6. StackHolds'
  BY <1>4, <1>5 DEF StackHolds
<1> QED BY <1>1, <1>3, <1>6 DEF IInv

\* A plan that ends gives the runtime's buffers back.
LEMMA Ends ==
  ASSUME IInv, NEW r, NEW O, NEW bufs, Is(r, O, bufs), Done(r, bufs)
  PROVE  IInv'
<1>1. Is([FreeAll(r) EXCEPT !.last = 0], {}, bufs)
  BY FreesAll
<1> QED BY <1>1 DEF Done, IInv

\* The operand of a unary node, which owns no dictionary.
LEMMA UnaryOperand ==
  ASSUME NoKnownFault, IInv, Evaluating, stack # << >>, Consumable(Top)
  PROVE  /\ Holds(rt, Top, OwnedUpTo(stack, Len(stack) - 1), {}) /\ ~Top.ownDict
         /\ Len(stack) \in Nat /\ 1 <= Len(stack)
<1>1. StackHolds
  BY DEF IInv, Evaluating
<1>2. "consumed dictionaries" \notin Features
  BY DEF NoKnownFault
<1>3. Len(stack) \in Nat /\ 1 <= Len(stack)
  BY <1>1 DEF StackHolds, Apart
<1> QED BY <1>1, <1>2, <1>3, TopHolds DEF StackHolds, Top, Consumable

\* The operands of a binary node.
LEMMA BinaryOperands ==
  ASSUME IInv, Evaluating, Len(stack) >= 2,
         (Numeric(Under) /\ Numeric(Top)) \/ (Boolean(Under) /\ Boolean(Top))
  PROVE  /\ Pair(rt, Under, Top, OwnedUpTo(stack, Len(stack) - 2), {})
         /\ ~Under.ownDict /\ ~Top.ownDict
         /\ Len(stack) \in Nat
<1>1. StackHolds
  BY DEF IInv, Evaluating
<1>2. Pair(rt, Under, Top, OwnedUpTo(stack, Len(stack) - 2), {})
  BY <1>1, TopTwoHold DEF StackHolds, Under, Top
<1>3. Under.dict = 0 /\ Top.dict = 0
  BY <1>2 DEF Numeric, Boolean, Pair, ValOk
<1>4. Len(stack) \in Nat
  BY <1>1 DEF StackHolds, Apart
<1> QED BY <1>2, <1>3, <1>4 DEF Pair, ValOk

LEMMA LeafStep ==
  ASSUME Unbounded, IInv, Load \/ Constant
  PROVE  IInv'
<1> DEFINE F == OwnedUpTo(stack, Len(stack) - 0)
<1>1. Evaluating /\ Is(rt, F, {}) /\ 0 \in Nat /\ 0 <= Len(stack)
  <2>1. Evaluating /\ StackHolds
    BY DEF Load, Constant, Evaluating, IInv
  <2>2. Len(stack) \in Nat /\ Len(stack) - 0 = Len(stack)
    BY <2>1 DEF StackHolds, Apart
  <2> QED BY <2>1, <2>2 DEF StackHolds
<1> HIDE DEF F
<1>2. CASE Load
  <2>1. PICK c \in Columns, realign \in BOOLEAN :
          (realign => c.vp # 0) /\ Replace(0, EvalCol(rt, c, realign))
    BY <1>2 DEF Load
  <2> DEFINE g == EvalCol(rt, c, realign)
  <2>2. Holds(g.rt, g.v, F, {})
    BY <1>1, <2>1, EvalColHolds
  <2> HIDE DEF g
  <2>3. Replace(0, g)
    BY <2>1 DEF g
  <2> QED BY <1>1, <2>2, <2>3, Replaces DEF F
<1>3. CASE Constant
  <2>1. PICK null \in BOOLEAN :
          \/ \E bool \in BOOLEAN : Replace(0, BroadcastScalar(rt, bool, null))
          \/ Replace(0, BroadcastPredicate(rt, null))
    BY <1>3 DEF Constant
  <2>2. ASSUME NEW bool \in BOOLEAN, Replace(0, BroadcastScalar(rt, bool, null))
        PROVE  IInv'
    <3> DEFINE g == BroadcastScalar(rt, bool, null)
    <3>1. Holds(g.rt, g.v, F, {})
      BY <1>1, BroadcastScalarHolds
    <3>2. Replace(0, g)
      BY <2>2
    <3> HIDE DEF g
    <3> QED BY <1>1, <3>1, <3>2, Replaces DEF F
  <2>3. ASSUME Replace(0, BroadcastPredicate(rt, null))
        PROVE  IInv'
    <3> DEFINE g == BroadcastPredicate(rt, null)
    <3>1. Holds(g.rt, g.v, F, {})
      BY <1>1, BroadcastPredicateHolds
    <3>2. Replace(0, g)
      BY <2>3
    <3> HIDE DEF g
    <3> QED BY <1>1, <3>1, <3>2, Replaces DEF F
  <2> QED BY <2>1, <2>2, <2>3
<1> QED BY <1>2, <1>3

\* What every node on one operand does.
LEMMA UnaryStep ==
  ASSUME NoKnownFault, IInv, Evaluating, stack # << >>, Consumable(Top), NEW g, Replace(1, g),
         Holds(g.rt, g.v, OwnedUpTo(stack, Len(stack) - 1), {})
  PROVE  IInv'
BY UnaryOperand, Replaces, 1 \in Nat

LEMMA NumericStep ==
  ASSUME Unbounded, NoKnownFault, IInv, NumericNode
  PROVE  IInv'
<1> DEFINE F == OwnedUpTo(stack, Len(stack) - 1)
<1>1. Evaluating /\ stack # << >> /\ Consumable(Top)
  BY DEF NumericNode, Unary
<1>2. Holds(rt, Top, F, {}) /\ ~Top.ownDict
  BY <1>1, UnaryOperand
<1>3. \/ \E null \in BOOLEAN : Replace(1, ArithScalar(rt, Top, null))
      \/ \E null \in BOOLEAN : Replace(1, CompareScalar(rt, Top, null))
      \/ Replace(1, FillNull(rt, Top))
      \/ Replace(1, Extract(rt, Top))
  BY DEF NumericNode
<1> HIDE DEF F
<1>4. ASSUME NEW null \in BOOLEAN, Replace(1, ArithScalar(rt, Top, null))
      PROVE  IInv'
  <2> DEFINE g == ArithScalar(rt, Top, null)
  <2>1. Holds(g.rt, g.v, F, {})
    BY <1>2, ArithScalarHolds
  <2>2. Replace(1, g)
    BY <1>4
  <2> HIDE DEF g
  <2> QED BY <1>1, <2>1, <2>2, UnaryStep DEF F
<1>5. ASSUME NEW null \in BOOLEAN, Replace(1, CompareScalar(rt, Top, null))
      PROVE  IInv'
  <2> DEFINE g == CompareScalar(rt, Top, null)
  <2>1. Holds(g.rt, g.v, F, {})
    BY <1>2, CompareScalarHolds
  <2>2. Replace(1, g)
    BY <1>5
  <2> HIDE DEF g
  <2> QED BY <1>1, <2>1, <2>2, UnaryStep DEF F
<1>6. ASSUME Replace(1, FillNull(rt, Top))
      PROVE  IInv'
  <2> DEFINE g == FillNull(rt, Top)
  <2>1. Holds(g.rt, g.v, F, {})
    BY <1>2, FillNullHolds
  <2>2. Replace(1, g)
    BY <1>6
  <2> HIDE DEF g
  <2> QED BY <1>1, <2>1, <2>2, UnaryStep DEF F
<1>7. ASSUME Replace(1, Extract(rt, Top))
      PROVE  IInv'
  <2> DEFINE g == Extract(rt, Top)
  <2>1. Holds(g.rt, g.v, F, {})
    BY <1>2, ExtractHolds
  <2>2. Replace(1, g)
    BY <1>7
  <2> HIDE DEF g
  <2> QED BY <1>1, <2>1, <2>2, UnaryStep DEF F
<1> QED BY <1>3, <1>4, <1>5, <1>6, <1>7

LEMMA Utf8Step ==
  ASSUME Unbounded, NoKnownFault, IInv, Utf8Node
  PROVE  IInv'
<1> DEFINE F == OwnedUpTo(stack, Len(stack) - 1)
<1>1. Evaluating /\ stack # << >> /\ Consumable(Top) /\ Top.dict # 0
  BY DEF Utf8Node, Unary, Utf8
<1>2. Holds(rt, Top, F, {}) /\ ~Top.ownDict
  BY <1>1, UnaryOperand
<1>3. \/ \E null \in BOOLEAN : Replace(1, CompareScalar(rt, Top, null))
      \/ \E new \in BOOLEAN : Replace(1, FillNullUtf8(rt, Top, new))
      \/ Replace(1, StrSlice(rt, Top))
  BY DEF Utf8Node
<1> HIDE DEF F
<1>4. ASSUME NEW null \in BOOLEAN, Replace(1, CompareScalar(rt, Top, null))
      PROVE  IInv'
  <2> DEFINE g == CompareScalar(rt, Top, null)
  <2>1. Holds(g.rt, g.v, F, {})
    BY <1>2, CompareScalarHolds
  <2>2. Replace(1, g)
    BY <1>4
  <2> HIDE DEF g
  <2> QED BY <1>1, <2>1, <2>2, UnaryStep DEF F
<1>5. ASSUME NEW new \in BOOLEAN, Replace(1, FillNullUtf8(rt, Top, new))
      PROVE  IInv'
  <2> DEFINE g == FillNullUtf8(rt, Top, new)
  <2>1. Holds(g.rt, g.v, F, {})
    BY <1>1, <1>2, FillNullUtf8Holds
  <2>2. Replace(1, g)
    BY <1>5
  <2> HIDE DEF g
  <2> QED BY <1>1, <2>1, <2>2, UnaryStep DEF F
<1>6. ASSUME Replace(1, StrSlice(rt, Top))
      PROVE  IInv'
  <2> DEFINE g == StrSlice(rt, Top)
  <2>1. Holds(g.rt, g.v, F, {})
    BY <1>2, StrSliceHolds
  <2>2. Replace(1, g)
    BY <1>6
  <2> HIDE DEF g
  <2> QED BY <1>1, <2>1, <2>2, UnaryStep DEF F
<1> QED BY <1>3, <1>4, <1>5, <1>6

LEMMA BooleanStep ==
  ASSUME Unbounded, NoKnownFault, IInv, BooleanNode
  PROVE  IInv'
<1> DEFINE F == OwnedUpTo(stack, Len(stack) - 1)
<1>1. Evaluating /\ stack # << >> /\ Consumable(Top)
  BY DEF BooleanNode, Unary
<1>2. Holds(rt, Top, F, {}) /\ ~Top.ownDict
  BY <1>1, UnaryOperand
<1>3. \/ Replace(1, ToBoolCol(rt, Top))
      \/ Replace(1, NotBool(rt, Top))
      \/ Replace(1, FillNull(rt, Top))
  BY DEF BooleanNode
<1> HIDE DEF F
<1>4. ASSUME Replace(1, ToBoolCol(rt, Top))
      PROVE  IInv'
  <2> DEFINE g == ToBoolCol(rt, Top)
  <2>1. Holds(g.rt, g.v, F, {})
    BY <1>2, ToBoolColHolds
  <2>2. Replace(1, g)
    BY <1>4
  <2> HIDE DEF g
  <2> QED BY <1>1, <2>1, <2>2, UnaryStep DEF F
<1>5. ASSUME Replace(1, NotBool(rt, Top))
      PROVE  IInv'
  <2> DEFINE g == NotBool(rt, Top)
  <2>1. Holds(g.rt, g.v, F, {})
    BY <1>2, NotBoolHolds
  <2>2. Replace(1, g)
    BY <1>5
  <2> HIDE DEF g
  <2> QED BY <1>1, <2>1, <2>2, UnaryStep DEF F
<1>6. ASSUME Replace(1, FillNull(rt, Top))
      PROVE  IInv'
  <2> DEFINE g == FillNull(rt, Top)
  <2>1. Holds(g.rt, g.v, F, {})
    BY <1>2, FillNullHolds
  <2>2. Replace(1, g)
    BY <1>6
  <2> HIDE DEF g
  <2> QED BY <1>1, <2>1, <2>2, UnaryStep DEF F
<1> QED BY <1>3, <1>4, <1>5, <1>6

LEMMA IsNullStep ==
  ASSUME Unbounded, NoKnownFault, IInv, IsNullNode
  PROVE  IInv'
<1> DEFINE F == OwnedUpTo(stack, Len(stack) - 1)  g == IsNull(rt, Top)
<1>1. Evaluating /\ stack # << >> /\ Consumable(Top)
  BY DEF IsNullNode, Unary
<1>2. Holds(rt, Top, F, {}) /\ ~Top.ownDict
  BY <1>1, UnaryOperand
<1>3. Holds(g.rt, g.v, F, {})
  <2> HIDE DEF F
  <2> QED BY <1>2, IsNullHolds
<1>4. Replace(1, g)
  BY DEF IsNullNode
<1> HIDE DEF g
<1> QED BY <1>1, <1>3, <1>4, UnaryStep

LEMMA CastStep ==
  ASSUME Unbounded, NoKnownFault, IInv, CastNode
  PROVE  IInv'
<1> DEFINE F == OwnedUpTo(stack, Len(stack) - 1)
<1>1. Evaluating /\ stack # << >> /\ Consumable(Top) /\ Castable(Top)
  BY DEF CastNode, Unary
<1>2. Holds(rt, Top, F, {}) /\ ~Top.ownDict
  BY <1>1, UnaryOperand
<1>3. Top.rep # "mask"
  BY <1>1 DEF Castable, Numeric, NoKnownFault
<1>4. PICK bool \in BOOLEAN, sameSize \in BOOLEAN, lossy \in BOOLEAN :
        Replace(1, Cast(rt, Top, bool, sameSize, lossy))
  BY DEF CastNode
<1> DEFINE g == Cast(rt, Top, bool, sameSize, lossy)
<1>5. Holds(g.rt, g.v, F, {})
  <2> HIDE DEF F
  <2> QED BY <1>2, <1>3, CastHolds
<1>6. Replace(1, g)
  BY <1>4
<1> HIDE DEF g
<1> QED BY <1>1, <1>5, <1>6, UnaryStep

LEMMA BinaryStep ==
  ASSUME Unbounded, IInv, BinaryNode
  PROVE  IInv'
<1> DEFINE F == OwnedUpTo(stack, Len(stack) - 2)
<1>1. /\ Evaluating /\ Len(stack) >= 2
      /\ (Numeric(Under) /\ Numeric(Top)) \/ (Boolean(Under) /\ Boolean(Top))
  BY DEF BinaryNode, Binary
<1>2. Pair(rt, Under, Top, F, {}) /\ ~Under.ownDict /\ ~Top.ownDict
  BY <1>1, BinaryOperands
<1>3. \/ \E zeroes \in BOOLEAN : Replace(2, ArithVec(rt, Under, Top, zeroes))
      \/ Replace(2, CompareVec(rt, Under, Top))
      \/ Replace(2, Kleene(rt, Under, Top))
  BY DEF BinaryNode
<1>4. 2 \in Nat /\ 2 <= Len(stack)
  BY <1>1, BinaryOperands
<1> HIDE DEF F
<1>5. ASSUME NEW g, Replace(2, g), Holds(g.rt, g.v, F, {})
      PROVE  IInv'
  BY <1>1, <1>4, <1>5, Replaces DEF F
<1>6. ASSUME NEW zeroes \in BOOLEAN, Replace(2, ArithVec(rt, Under, Top, zeroes))
      PROVE  IInv'
  <2> DEFINE g == ArithVec(rt, Under, Top, zeroes)
  <2>1. Holds(g.rt, g.v, F, {})
    BY <1>2, ArithVecHolds
  <2>2. Replace(2, g)
    BY <1>6
  <2> HIDE DEF g
  <2> QED BY <1>5, <2>1, <2>2
<1>7. ASSUME Replace(2, CompareVec(rt, Under, Top))
      PROVE  IInv'
  <2> DEFINE g == CompareVec(rt, Under, Top)
  <2>1. Holds(g.rt, g.v, F, {})
    BY <1>2, CompareVecHolds
  <2>2. Replace(2, g)
    BY <1>7
  <2> HIDE DEF g
  <2> QED BY <1>5, <2>1, <2>2
<1>8. ASSUME Replace(2, Kleene(rt, Under, Top))
      PROVE  IInv'
  <2> DEFINE g == Kleene(rt, Under, Top)
  <2>1. Holds(g.rt, g.v, F, {})
    BY <1>2, KleeneHolds
  <2>2. Replace(2, g)
    BY <1>8
  <2> HIDE DEF g
  <2> QED BY <1>5, <2>1, <2>2
<1> QED BY <1>3, <1>6, <1>7, <1>8

LEMMA Pops ==
  ASSUME NEW s \in Seq(Values), NEW k \in Nat, k <= Len(s)
  PROVE  LET t == SubSeq(s, 1, k) IN
         /\ t \in Seq(Values) /\ Len(t) = k
         /\ \A i \in 1 .. k : t[i] = s[i] /\ i \in 1 .. Len(s)
<1>1. Len(s) \in Nat /\ \A i \in 1 .. k : i \in 1 .. Len(s)
  OBVIOUS
<1>2. SubSeq(s, 1, k) \in Seq(Values) /\ Len(SubSeq(s, 1, k)) = k
  BY <1>1
<1>3. \A i \in 1 .. k : SubSeq(s, 1, k)[i] = s[i]
  BY <1>1
<1> QED BY <1>1, <1>2, <1>3

LEMMA AggregateStep ==
  ASSUME Unbounded, NoKnownFault, IInv, Aggregate
  PROVE  IInv'
<1> DEFINE k == Len(stack) - 1  F == OwnedUpTo(stack, k)
<1>1. Evaluating /\ stack # << >> /\ Consumable(Top)
  BY DEF Aggregate, Unary
<1>2. Holds(rt, Top, F, {}) /\ ~Top.ownDict /\ Len(stack) \in Nat /\ 1 <= Len(stack)
  BY <1>1, UnaryOperand
<1>3. PICK count \in BOOLEAN : rt' = [EvalAgg(rt, Top, count) EXCEPT !.last = 0]
  BY DEF Aggregate
<1>4. Is(rt', F, {})
  <2>1. Is(EvalAgg(rt, Top, count), F, {})
    <3> HIDE DEF F
    <3> QED BY <1>2, EvalAggHolds
  <2> HIDE DEF F
  <2> QED BY <1>3, <2>1, LastSet
<1>5. /\ stack' = SubSeq(stack, 1, k) /\ nodes' = nodes + 1
      /\ plan' = plan /\ phase' = phase /\ mask' = mask /\ result' = result
  BY DEF Aggregate, Popped
<1>6. phase = "eval" /\ StackHolds /\ result = {} /\ mask = 0
  BY <1>1 DEF IInv, Evaluating
<1>7. nodes + 1 \in 0 .. MaxNodes
  BY <1>1, ExprAssumption DEF IInv, Evaluating
<1>8. /\ stack' \in Seq(Values) /\ Len(stack') = k
      /\ \A i \in 1 .. k : stack'[i] = stack[i] /\ i \in 1 .. Len(stack)
  <2>1. stack \in Seq(Values) /\ k \in Nat /\ k <= Len(stack)
    BY <1>2, <1>6 DEF StackHolds, Apart
  <2> HIDE DEF k
  <2> QED BY <1>5, <2>1, Pops
<1>9. Apart(stack') /\ OwnedUpTo(stack', Len(stack')) = F
  <2>1. \A i \in 1 .. k : ValOk(stack[i])
    BY <1>6, <1>8 DEF StackHolds, Apart
  <2>2. \A i, j \in 1 .. k : i # j => Own(stack[i]) \cap Own(stack[j]) = {}
    BY <1>6, <1>8 DEF StackHolds, Apart
  <2> HIDE DEF k
  <2> QED BY <1>8, <2>1, <2>2 DEF Apart, OwnedUpTo
<1>10. StackHolds'
  BY <1>4, <1>9 DEF StackHolds
<1> QED BY <1>5, <1>6, <1>7, <1>10 DEF IInv

LEMMA ColumnDoneStep ==
  ASSUME Unbounded, IInv, ColumnDone
  PROVE  IInv'
<1>1. phase = "eval" /\ Len(stack) = 1
  BY DEF ColumnDone
<1>2. StackHolds /\ stack # << >> /\ Len(stack) - 1 = 0
  BY <1>1 DEF IInv
<1>3. Holds(rt, Top, {}, {})
  <2>1. Holds(rt, stack[Len(stack)], OwnedUpTo(stack, Len(stack) - 1), {})
    BY <1>2, TopHolds DEF StackHolds
  <2>2. OwnedUpTo(stack, 0) = {}
    BY UpToFacts, 0 \in Nat
  <2> QED BY <1>2, <2>1, <2>2 DEF Top
<1> DEFINE k == FinalizeColumn(rt, Top)
<1>4. PICK O : Is(k.rt, O, k.bufs)
  BY <1>3, FinalizesColumn
<1>5. Done(k.rt, k.bufs)
  BY DEF ColumnDone
<1> HIDE DEF k
<1> QED BY <1>4, <1>5, Ends

\* A plan without a column to keep: its scalar is computed, or it threw.
LEMMA EmptyHandedStep ==
  ASSUME IInv, phase = "eval", Done(rt, {})
  PROVE  IInv'
<1>1. Is(rt, OwnedUpTo(stack, Len(stack)), {})
  BY DEF IInv, StackHolds
<1> QED BY <1>1, Ends

LEMMA FilterDoneStep ==
  ASSUME Unbounded, IInv, FilterDone
  PROVE  IInv'
<1>1. phase = "eval" /\ Len(stack) = 1 /\ Boolean(Top)
  BY DEF FilterDone
<1>2. StackHolds /\ stack # << >> /\ Len(stack) - 1 = 0 /\ result = {}
  BY <1>1 DEF IInv
<1>3. Holds(rt, Top, {}, {})
  <2>1. Holds(rt, stack[Len(stack)], OwnedUpTo(stack, Len(stack) - 1), {})
    BY <1>2, TopHolds DEF StackHolds
  <2>2. OwnedUpTo(stack, 0) = {}
    BY UpToFacts, 0 \in Nat
  <2> QED BY <1>2, <2>1, <2>2 DEF Top
<1>4. ~Top.ownDict
  BY <1>1, <1>3 DEF Boolean, Holds, ValOk
<1> DEFINE m == ToMask(rt, Top)  w == m.v
           o == Out(m.rt, w)
           k == FreeValidity(o, w.vp)
           combined == w.vp.ptr # 0
           r == IF combined THEN k ELSE m.rt
           p == IF combined THEN o.last ELSE w.data
<1>5. Holds(m.rt, w, {}, {}) /\ ~w.ownDict
  BY <1>3, <1>4, ToMaskHolds
<1> HIDE DEF m, w
<1>6. /\ Is(o, {} \cup Rest(w) \cup {o.last}, {}) /\ o.last \in Addresses \ Sources
      /\ o.last \notin {} \cup Rest(w) /\ w.data \in Readable({} \cup Rest(w) \cup {o.last}, {})
  BY <1>5, TakesOut
<1>7. Rest(w) = OwnVp(w.vp)
  BY <1>5, NoDict
<1>8. Call(o, {w.data, w.vp.ptr}, o.last) = o
  <2> DEFINE O == {} \cup Rest(w) \cup {o.last}
  <2>1. w.vp.ptr \in Readable(O, {})
    BY <1>5, <1>7, ValueReadable DEF Holds, Readable
  <2>2. {w.data, w.vp.ptr} \subseteq Readable(O, {}) /\ o.last \in O \cup {}
    BY <1>6, <2>1
  <2> HIDE DEF O, o
  <2>3. \A out \in O \cup {} : Call(o, {w.data, w.vp.ptr}, out) = o
    BY <1>6, <2>2, CallsSoundly DEF O
  <2> QED BY <2>2, <2>3
<1>9. /\ rt' = [r EXCEPT !.last = 0] /\ mask' = p
      /\ phase' = "selection" /\ stack' = << >> /\ plan' = plan /\ result' = result /\ nodes' = nodes
  BY <1>8 DEF FilterDone, m, w
<1>10. \E O : Is(r, O, {}) /\ p \in Readable(O, {})
  <2>1. CASE combined
    <3>1. Is(k, ({} \cup Rest(w) \cup {o.last}) \ OwnVp(w.vp), {})
      BY <1>6, FreesValidity
    <3>2. ({} \cup Rest(w) \cup {o.last}) \ OwnVp(w.vp) = {o.last}
      BY <1>6, <1>7
    <3>3. Is(r, {o.last}, {}) /\ p \in Readable({o.last}, {})
      BY <2>1, <3>1, <3>2 DEF Readable
    <3> QED BY <3>3
  <2>2. CASE ~combined
    <3>1. Is(r, {} \cup Own(w), {})
      BY <1>5, <2>2 DEF Holds
    <3>2. p \in Readable({} \cup Own(w), {})
      BY <1>5, <2>2, ValueReadable DEF Holds, Readable, Own
    <3> QED BY <3>1, <3>2
  <2> QED BY <2>1, <2>2
<1> HIDE DEF r, p
<1>11. Is(rt', rt'.owned, {}) /\ mask' \in Readable(rt'.owned, {})
  <2>1. PICK O : Is(r, O, {}) /\ p \in Readable(O, {})
    BY <1>10
  <2>2. Is(rt', O, {})
    BY <1>9, <2>1, LastSet
  <2>3. rt'.owned = O
    BY <2>2 DEF Is
  <2> QED BY <1>9, <2>1, <2>2, <2>3
<1> QED BY <1>2, <1>9, <1>11 DEF IInv

LEMMA CompactStep ==
  ASSUME Unbounded, IInv, NEW c \in Columns, NEW nulls \in BOOLEAN, Compact(c, nulls)
  PROVE  IInv'
<1> DEFINE d == ModAlloc(rt)
           k == Call(d, {c.data, mask}, d.last)
           n == ModAlloc(k)
           w == Call(n, {c.vp, mask}, n.last)
           v == IF c.vp = 0 THEN k ELSE IF nulls THEN w ELSE ModFree(w, n.last)
           s == ModAlloc(v)
           x == IF c.dict = 0 THEN v ELSE Call(s, {c.dict}, s.last)
           O == rt.owned
<1>1. /\ phase = "selection" /\ nodes < MaxNodes /\ rt' = [x EXCEPT !.last = 0]
      /\ result' = result \cup (x.live \ rt.live) /\ nodes' = nodes + 1
      /\ plan' = plan /\ phase' = phase /\ stack' = stack /\ mask' = mask
  BY DEF Compact
<1>2. Is(rt, O, result) /\ mask \in Readable(O, result) /\ stack = << >>
  BY <1>1 DEF IInv
<1> HIDE DEF O
<1>3. PICK N : Is(x, O, N) /\ result \subseteq N
  BY <1>2, Compacts
<1> HIDE DEF x
<1>4. result' = N
  <2>1. x.live = Sources \cup O \cup N /\ rt.live = Sources \cup O \cup result
    BY <1>2, <1>3 DEF Is
  <2>2. N \cap (Sources \cup O) = {}
    BY <1>3, TempsFacts DEF Is
  <2> QED BY <1>1, <1>3, <2>1, <2>2
<1>5. Is(rt', O, N)
  BY <1>1, <1>3, LastSet
<1>6. rt'.owned = O /\ mask' \in Readable(O, N)
  BY <1>1, <1>2, <1>3, <1>5 DEF Is, Readable
<1>7. nodes' \in 0 .. MaxNodes
  BY <1>1, ExprAssumption DEF IInv
<1> QED BY <1>1, <1>2, <1>4, <1>5, <1>6, <1>7 DEF IInv

LEMMA SelectionFreeStep ==
  ASSUME IInv, SelectionFree
  PROVE  IInv'
<1>1. Is(rt, rt.owned, result) /\ Done(rt, result)
  BY DEF SelectionFree, IInv
<1> QED BY <1>1, Ends

LEMMA ThrowInFilterStep ==
  ASSUME IInv, ThrowInFilter
  PROVE  IInv'
<1>1. Is(rt, OwnedUpTo(stack, Len(stack)), {}) /\ result = {} /\ mask = 0
  BY DEF ThrowInFilter, IInv, StackHolds
<1>2. Is(rt, rt.owned, {})
  BY <1>1 DEF Is
<1> QED BY <1>1, <1>2 DEF ThrowInFilter, IInv

LEMMA NextHolds ==
  ASSUME Unbounded, NoKnownFault, IInv, [Next]_vars
  PROVE  IInv'
<1>1. CASE Load \/ Constant
  BY <1>1, LeafStep
<1>2. CASE NumericNode
  BY <1>2, NumericStep
<1>3. CASE Utf8Node
  BY <1>3, Utf8Step
<1>4. CASE BooleanNode
  BY <1>4, BooleanStep
<1>5. CASE IsNullNode
  BY <1>5, IsNullStep
<1>6. CASE CastNode
  BY <1>6, CastStep
<1>7. CASE BinaryNode
  BY <1>7, BinaryStep
<1>8. CASE Aggregate
  BY <1>8, AggregateStep
<1>9. CASE ColumnDone
  BY <1>9, ColumnDoneStep
<1>10. CASE ScalarDone
  BY <1>10, EmptyHandedStep DEF ScalarDone
<1>11. CASE Throw
  BY <1>11, EmptyHandedStep DEF Throw
<1>12. CASE FilterDone
  BY <1>12, FilterDoneStep
<1>13. CASE SelectionFree
  BY <1>13, SelectionFreeStep
<1>14. CASE ThrowInFilter
  BY <1>14, ThrowInFilterStep
<1>15. ASSUME NEW c \in Columns, NEW nulls \in BOOLEAN, Compact(c, nulls)
       PROVE  IInv'
  BY <1>15, CompactStep
<1>16. CASE UNCHANGED vars
  BY <1>16 DEF vars, IInv, StackHolds
<1> QED
  BY <1>1, <1>2, <1>3, <1>4, <1>5, <1>6, <1>7, <1>8, <1>9, <1>10, <1>11, <1>12, <1>13,
     <1>14, <1>15, <1>16 DEF Next

LEMMA IInvHolds ==
  ASSUME Unbounded, NoKnownFault
  PROVE  Spec => []IInv
<1>1. IInv /\ [Next]_vars => IInv'
  BY NextHolds
<1> QED BY <1>1, InitHolds, PTL DEF Spec

-----------------------------------------------------------------------------
(* What the invariant says of a plan.                                      *)

LEMMA RuntimeFacts ==
  ASSUME IInv
  PROVE  /\ \E O, B : Is(rt, O, B) /\ result \subseteq B
         /\ mask \in Buffer /\ result \subseteq Addresses
<1>1. CASE phase = "eval"
  BY <1>1 DEF IInv, StackHolds, Buffer
<1>2. CASE phase = "selection"
  <2>1. Is(rt, rt.owned, result) /\ mask \in Readable(rt.owned, result)
    BY <1>2 DEF IInv
  <2>2. rt.owned \subseteq Addresses /\ result \subseteq Addresses
    BY <2>1, TempsFacts DEF Is
  <2> QED BY <2>1, <2>2, SourcesFacts DEF Readable, Buffer
<1>3. CASE phase = "done"
  <2>1. Is(rt, {}, result) /\ mask = 0
    BY <1>3 DEF IInv
  <2>2. result \subseteq Addresses
    BY <2>1, TempsFacts DEF Is
  <2> QED BY <2>1, <2>2 DEF Buffer
<1>4. CASE phase = "thrown"
  <2>1. Is(rt, rt.owned, {}) /\ result = {} /\ mask = 0
    BY <1>4 DEF IInv
  <2> QED BY <2>1 DEF Buffer
<1> QED BY <1>1, <1>2, <1>3, <1>4 DEF IInv

LEMMA TypesHold ==
  ASSUME IInv
  PROVE  TypeOK /\ OwnedIsLive
<1>1. PICK O, B : Is(rt, O, B) /\ result \subseteq B
  BY RuntimeFacts
<1>2. /\ rt.owned \subseteq Addresses \ Sources /\ rt.live \subseteq Addresses /\ Sources \subseteq rt.live
      /\ rt.owned \subseteq rt.live \ result
  <2>1. O \subseteq Addresses \ Sources /\ B \subseteq Addresses /\ O \cap B = {}
    BY <1>1 DEF Is, Temps
  <2> QED BY <1>1, <2>1, SourcesFacts DEF Is
<1>3. \A i \in 1 .. Len(stack) :
        LET v == stack[i] IN
        /\ v \in Values
        /\ v.own <=> v.data \notin Sources
        /\ v.vp.ptr # 0 => (v.vp.owns <=> v.vp.ptr \notin Sources)
        /\ v.dict # 0 => (v.ownDict <=> v.dict \notin Sources)
  <2>1. CASE phase = "eval"
    <3>1. \A i \in 1 .. Len(stack) : ValOk(stack[i])
      BY <2>1 DEF IInv, StackHolds, Apart
    <3> QED BY <3>1 DEF ValOk, VpOk
  <2>2. CASE phase # "eval"
    <3>1. stack = << >>
      BY <2>2 DEF IInv
    <3>2. Len(stack) = 0
      BY <3>1
    <3> QED BY <3>2
  <2> QED BY <2>1, <2>2
<1> QED BY <1>2, <1>3, RuntimeFacts DEF TypeOK, OwnedIsLive, IInv

\* A place of the i-th operand that owns its buffer.
LEMMA PlacesOwn ==
  ASSUME NEW x \in Owning
  PROVE  /\ x[1] \in 1 .. Len(stack)
         /\ \/ x = <<x[1], "data">> /\ OwnData(stack[x[1]]) = {BufferAt(x)}
            \/ x = <<x[1], "vp">> /\ OwnVp(stack[x[1]].vp) = {BufferAt(x)}
            \/ x = <<x[1], "dict">> /\ OwnDict(stack[x[1]]) = {BufferAt(x)}
<1>1. x \in (1 .. Len(stack)) \X {"data", "vp", "dict"}
  BY DEF Owning
<1>2. CASE x[2] = "data" /\ stack[x[1]].own
  BY <1>1, <1>2 DEF BufferAt, OwnData, Piece
<1>3. CASE x[2] = "vp" /\ stack[x[1]].vp.owns
  BY <1>1, <1>3 DEF BufferAt, OwnVp, Piece
<1>4. CASE x[2] = "dict" /\ stack[x[1]].ownDict
  BY <1>1, <1>4 DEF BufferAt, OwnDict, Piece
<1> QED BY <1>1, <1>2, <1>3, <1>4 DEF Owning

LEMMA OperandsOwn ==
  ASSUME IInv
  PROVE  TempsAreOperands
<1> SUFFICES ASSUME phase = "eval"
             PROVE  /\ rt.owned = {BufferAt(x) : x \in Owning}
                    /\ \A x, y \in Owning : BufferAt(x) = BufferAt(y) => x = y
  BY DEF TempsAreOperands
<1>1. Apart(stack) /\ rt.owned = OwnedUpTo(stack, Len(stack))
  BY DEF IInv, StackHolds, Is
<1>2. \A x \in Owning : x[1] \in 1 .. Len(stack) /\ BufferAt(x) \in Own(stack[x[1]])
  BY PlacesOwn DEF Own
<1>3. {BufferAt(x) : x \in Owning} \subseteq rt.owned
  BY <1>1, <1>2 DEF OwnedUpTo
<1>4. rt.owned \subseteq {BufferAt(x) : x \in Owning}
  <2> SUFFICES ASSUME NEW i \in 1 .. Len(stack), NEW b \in Own(stack[i])
               PROVE  \E x \in Owning : BufferAt(x) = b
    BY <1>1 DEF OwnedUpTo
  <2>1. CASE b \in OwnData(stack[i])
    <3>1. stack[i].own /\ b = stack[i].data
      BY <2>1 DEF OwnData, Piece
    <3>2. <<i, "data">> \in Owning /\ BufferAt(<<i, "data">>) = b
      BY <3>1 DEF Owning, BufferAt
    <3> QED BY <3>2
  <2>2. CASE b \in OwnVp(stack[i].vp)
    <3>1. stack[i].vp.owns /\ b = stack[i].vp.ptr
      BY <2>2 DEF OwnVp, Piece
    <3>2. <<i, "vp">> \in Owning /\ BufferAt(<<i, "vp">>) = b
      BY <3>1 DEF Owning, BufferAt
    <3> QED BY <3>2
  <2>3. CASE b \in OwnDict(stack[i])
    <3>1. stack[i].ownDict /\ b = stack[i].dict
      BY <2>3 DEF OwnDict, Piece
    <3>2. <<i, "dict">> \in Owning /\ BufferAt(<<i, "dict">>) = b
      BY <3>1 DEF Owning, BufferAt
    <3> QED BY <3>2
  <2> QED BY <2>1, <2>2, <2>3 DEF Own
<1>5. ASSUME NEW x \in Owning, NEW y \in Owning, BufferAt(x) = BufferAt(y)
      PROVE  x = y
  <2>1. x[1] = y[1]
    <3>1. BufferAt(x) \in Own(stack[x[1]]) \cap Own(stack[y[1]])
      BY <1>2, <1>5
    <3> QED BY <1>1, <1>2, <3>1 DEF Apart
  <2>2. ValOk(stack[x[1]])
    BY <1>1, <1>2 DEF Apart
  <2>3. /\ OwnData(stack[x[1]]) \cap OwnVp(stack[x[1]].vp) = {}
        /\ OwnData(stack[x[1]]) \cap OwnDict(stack[x[1]]) = {}
        /\ OwnVp(stack[x[1]].vp) \cap OwnDict(stack[x[1]]) = {}
    BY <2>2 DEF ValOk
  <2> DEFINE PlaceOf(z) ==
        \/ z = <<z[1], "data">> /\ OwnData(stack[z[1]]) = {BufferAt(z)}
        \/ z = <<z[1], "vp">> /\ OwnVp(stack[z[1]].vp) = {BufferAt(z)}
        \/ z = <<z[1], "dict">> /\ OwnDict(stack[z[1]]) = {BufferAt(z)}
  <2>4. PlaceOf(x) /\ PlaceOf(y)
    BY PlacesOwn
  <2> QED BY <1>5, <2>1, <2>3, <2>4
<1> QED BY <1>3, <1>4, <1>5

\* Between two nodes the runtime tracks exactly the buffers its operands own, each
\* once, for every expression: no node of expr/compile.ts forgets a temporary,
\* frees one that another operand uses, or hands one out twice.
THEOREM TemporariesBelongToOperands ==
  ASSUME Unbounded, NoKnownFault
  PROVE  Spec => []TempsInv
<1>1. IInv => TempsInv
  BY TypesHold, OperandsOwn DEF TempsInv
<1> QED BY <1>1, IInvHolds, PTL

\* No kernel or loop of a plan reads a buffer that was freed, writes a column of
\* the frame, or frees what is not allocated.
THEOREM NodesAreSound ==
  ASSUME Unbounded, NoKnownFault
  PROVE  Spec => []KernelsSound
<1>1. IInv => KernelsSound
  <2> SUFFICES ASSUME IInv PROVE KernelsSound
    OBVIOUS
  <2> QED BY RuntimeFacts DEF Is, KernelsSound
<1> QED BY <1>1, IInvHolds, PTL

\* A plan that ended, with a result or an exception, leaves nothing but the
\* columns of the frame and its result (runtime.ts freeAll).
THEOREM PlansLeaveNothing ==
  ASSUME Unbounded, NoKnownFault
  PROVE  Spec => []NothingLeft
<1>1. IInv => NothingLeft
  BY DEF IInv, Is, NothingLeft
<1> QED BY <1>1, IInvHolds, PTL
=============================================================================
