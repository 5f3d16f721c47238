---------------------------- MODULE ReduceProofs ----------------------------
(***************************************************************************)
(* Proofs about the kernels that reduce a column: filter and topk of       *)
(* Select keep the rows they should, for any mask and any k, and each      *)
(* reduction of Reduce, over any buffer and validity, is that of the valid *)
(* rows.                                                                   *)
(***************************************************************************)
EXTENDS ValueProofs

-----------------------------------------------------------------------------
(* Lists of rows.                                                          *)

\* The list s has the rows T, the lower before the higher.
Lists(s, T) ==
  /\ T \subseteq Nat /\ s \in Seq(T)
  /\ \A x \in T : \E i \in 1 .. Len(s) : s[i] = x
  /\ \A i, j \in 1 .. Len(s) : i < j => s[i] < s[j]

LEMMA ListsAppend ==
  ASSUME NEW s, NEW T, Lists(s, T), NEW x \in Nat, \A y \in T : y < x
  PROVE  Lists(Append(s, x), T \cup {x})
<1> DEFINE t == Append(s, x)
           n == Len(s)
<1>1. /\ T \subseteq Nat /\ s \in Seq(T) /\ n \in Nat
      /\ \A y \in T : \E i \in 1 .. n : s[i] = y
      /\ \A i, j \in 1 .. n : i < j => s[i] < s[j]
  BY DEF Lists
<1>2. Len(t) = n + 1 /\ t[n + 1] = x /\ \A i \in 1 .. n : t[i] = s[i] /\ s[i] \in T
  BY <1>1
<1>3. t \in Seq(T \cup {x})
  <2>1. s \in Seq(T \cup {x})
    BY <1>1
  <2> QED BY <2>1
<1> HIDE DEF t, n
<1>4. \A y \in T \cup {x} : \E i \in 1 .. Len(t) : t[i] = y
  <2> SUFFICES ASSUME NEW y \in T \cup {x} PROVE \E i \in 1 .. Len(t) : t[i] = y
    OBVIOUS
  <2>1. CASE y = x
    BY <1>1, <1>2, <2>1
  <2>2. CASE y \in T
    <3>1. PICK i \in 1 .. n : s[i] = y
      BY <1>1, <2>2
    <3> QED BY <1>1, <1>2, <3>1
  <2> QED BY <2>1, <2>2
<1>5. \A i, j \in 1 .. Len(t) : i < j => t[i] < t[j]
  <2> SUFFICES ASSUME NEW i \in 1 .. Len(t), NEW j \in 1 .. Len(t), i < j PROVE t[i] < t[j]
    OBVIOUS
  <2>1. i \in 1 .. n /\ t[i] = s[i] /\ s[i] \in T
    BY <1>1, <1>2
  <2>2. CASE j \in 1 .. n
    BY <1>1, <1>2, <2>1, <2>2
  <2>3. CASE j = n + 1
    BY <1>2, <2>1, <2>3
  <2> QED BY <1>1, <1>2, <2>2, <2>3
<1>6. T \cup {x} \subseteq Nat
  BY <1>1
<1> QED BY <1>3, <1>4, <1>5, <1>6 DEF Lists, t

LEMMA ListsConcat ==
  ASSUME NEW s, NEW S, Lists(s, S), NEW t, NEW T, Lists(t, T), \A x \in S, y \in T : x < y
  PROVE  Lists(s \o t, S \cup T)
<1> DEFINE u == s \o t
           m == Len(s)
           n == Len(t)
<1>1. /\ S \subseteq Nat /\ s \in Seq(S) /\ m \in Nat
      /\ \A y \in S : \E i \in 1 .. m : s[i] = y
      /\ \A i, j \in 1 .. m : i < j => s[i] < s[j]
  BY DEF Lists
<1>2. /\ T \subseteq Nat /\ t \in Seq(T) /\ n \in Nat
      /\ \A y \in T : \E i \in 1 .. n : t[i] = y
      /\ \A i, j \in 1 .. n : i < j => t[i] < t[j]
  BY DEF Lists
<1>3. u \in Seq(S \cup T) /\ Len(u) = m + n
  <2>1. s \in Seq(S \cup T) /\ t \in Seq(S \cup T)
    BY <1>1, <1>2
  <2> QED BY <1>1, <1>2, <2>1
<1>4. \A i \in 1 .. m : u[i] = s[i] /\ s[i] \in S
  BY <1>1, <1>2
<1>5. \A i \in m + 1 .. m + n : u[i] = t[i - m] /\ t[i - m] \in T /\ i - m \in 1 .. n
  <2> SUFFICES ASSUME NEW i \in m + 1 .. m + n PROVE u[i] = t[i - m] /\ t[i - m] \in T /\ i - m \in 1 .. n
    OBVIOUS
  <2>1. i - m \in 1 .. n /\ i \in 1 .. m + n /\ i > m
    BY <1>1, <1>2
  <2> QED BY <1>1, <1>2, <2>1
<1> HIDE DEF u, m, n
<1>6. \A y \in S \cup T : \E i \in 1 .. Len(u) : u[i] = y
  <2> SUFFICES ASSUME NEW y \in S \cup T PROVE \E i \in 1 .. Len(u) : u[i] = y
    OBVIOUS
  <2>1. CASE y \in S
    <3>1. PICK i \in 1 .. m : s[i] = y
      BY <1>1, <2>1
    <3> QED BY <1>1, <1>2, <1>3, <1>4, <3>1
  <2>2. CASE y \in T
    <3>1. PICK i \in 1 .. n : t[i] = y
      BY <1>2, <2>2
    <3>2. i + m \in m + 1 .. m + n /\ (i + m) - m = i /\ i + m \in 1 .. Len(u)
      BY <1>1, <1>2, <1>3
    <3> QED BY <1>5, <3>1, <3>2
  <2> QED BY <2>1, <2>2
<1>7. \A i, j \in 1 .. Len(u) : i < j => u[i] < u[j]
  <2> SUFFICES ASSUME NEW i \in 1 .. Len(u), NEW j \in 1 .. Len(u), i < j PROVE u[i] < u[j]
    OBVIOUS
  <2>1. CASE i \in 1 .. m /\ j \in 1 .. m
    BY <1>1, <1>4, <2>1
  <2>2. CASE i \in 1 .. m /\ j \in m + 1 .. m + n
    BY <1>4, <1>5, <2>2
  <2>3. CASE i \in m + 1 .. m + n /\ j \in m + 1 .. m + n
    <3>1. i - m < j - m
      BY <1>1, <2>3
    <3> QED BY <1>2, <1>5, <2>3, <3>1
  <2>4. \/ i \in 1 .. m /\ j \in 1 .. m
        \/ i \in 1 .. m /\ j \in m + 1 .. m + n
        \/ i \in m + 1 .. m + n /\ j \in m + 1 .. m + n
    BY <1>1, <1>2, <1>3
  <2> QED BY <2>1, <2>2, <2>3, <2>4
<1>8. S \cup T \subseteq Nat
  BY <1>1, <1>2
<1> QED BY <1>3, <1>6, <1>7, <1>8 DEF Lists, u

Entries(s) == {s[i] : i \in 1 .. Len(s)}

Behind(set, rel, x) == {y \in set : <<y, x>> \in rel}

\* A list in a strict order: as many rows as places, and behind as many rows as its
\* place tells.
Strictly(S, rel, s) ==
  /\ s \in Seq(S)
  /\ \A x, y \in S : ~(<<x, y>> \in rel /\ <<y, x>> \in rel)
  /\ \A i, j \in 1 .. Len(s) : i < j => <<s[i], s[j]>> \in rel

RankKnown(S, set, rel, s, p) ==
  /\ set \subseteq S
  /\ \A i \in 1 .. p - 1 : s[i] \in set
  /\ \A x \in set : <<x, s[p]>> \in rel => \E i \in 1 .. Len(s) : x = s[i]

LEMMA RankInList ==
  ASSUME NEW S, NEW s, NEW rel, Strictly(S, rel, s)
  PROVE  /\ IsFiniteSet(Entries(s)) /\ Cardinality(Entries(s)) = Len(s)
         /\ \A p \in 1 .. Len(s) : \A set :
              RankKnown(S, set, rel, s, p) => Cardinality(Behind(set, rel, s[p])) = p - 1
<1> DEFINE Before(m) == {s[i] : i \in 1 .. m}
           n == Len(s)
<1>0. /\ s \in Seq(S) /\ \A x, y \in S : ~(<<x, y>> \in rel /\ <<y, x>> \in rel)
      /\ \A i, j \in 1 .. n : i < j => <<s[i], s[j]>> \in rel
  BY DEF Strictly
<1>1. n \in Nat /\ \A i \in 1 .. n : s[i] \in S
  BY <1>0
<1>2. ASSUME NEW m \in 0 .. n PROVE IsFiniteSet(Before(m)) /\ Cardinality(Before(m)) = m
  <2> DEFINE f == [i \in 1 .. m |-> s[i]]
  <2>1. m \in Nat /\ m <= n
    BY <1>1
  <2>2. \A i \in 1 .. m : i \in 1 .. n
    BY <1>1, <2>1
  <2>3. f \in Bijection(1 .. m, Before(m))
    <3>1. f \in [1 .. m -> Before(m)]
      OBVIOUS
    <3>2. \A i, j \in 1 .. m : f[i] = f[j] => i = j
      <4> SUFFICES ASSUME NEW i \in 1 .. m, NEW j \in 1 .. m, s[i] = s[j] PROVE i = j
        OBVIOUS
      <4>1. i \in 1 .. n /\ j \in 1 .. n /\ s[i] \in S /\ s[j] \in S
        BY <1>1, <2>2
      <4>2. ~(i < j) /\ ~(j < i)
        BY <1>0, <4>1
      <4> QED BY <4>1, <4>2
    <3>3. \A t \in Before(m) : \E i \in 1 .. m : f[i] = t
      OBVIOUS
    <3>4. IsInjective(f)
      BY <3>1, <3>2 DEF IsInjective
    <3> QED BY <3>1, <3>3, <3>4 DEF Bijection, Injection, Surjection
  <2>4. ExistsBijection(1 .. m, Before(m))
    BY <2>3 DEF ExistsBijection
  <2>5. IsFiniteSet(1 .. m) /\ Cardinality(1 .. m) = m
    BY <2>1, FS_Interval
  <2> QED BY <2>4, <2>5, FS_Bijection
<1>3. ASSUME NEW p \in 1 .. n, NEW set, set \subseteq S, \A i \in 1 .. p - 1 : s[i] \in set,
             \A x \in set : <<x, s[p]>> \in rel => \E i \in 1 .. n : x = s[i]
      PROVE  Behind(set, rel, s[p]) = Before(p - 1)
  <2>1. ASSUME NEW x \in set, <<x, s[p]>> \in rel PROVE x \in Before(p - 1)
    <3>1. PICK i \in 1 .. n : x = s[i]
      BY <1>3, <2>1
    <3>2. i < p
      <4>1. s[i] \in S /\ s[p] \in S
        BY <1>1
      <4>2. ~(p < i) /\ i # p
        BY <1>0, <2>1, <3>1, <4>1
      <4> QED BY <1>1, <4>2
    <3>3. i \in 1 .. p - 1
      BY <1>1, <3>2
    <3> QED BY <3>1, <3>3
  <2>2. ASSUME NEW x \in Before(p - 1) PROVE x \in set /\ <<x, s[p]>> \in rel
    <3>1. PICK i \in 1 .. p - 1 : x = s[i]
      OBVIOUS
    <3>2. i \in 1 .. n /\ i < p
      BY <1>1
    <3> QED BY <1>0, <1>3, <3>1, <3>2
  <2> HIDE DEF Before
  <2> QED BY <2>1, <2>2 DEF Behind
<1>4. n \in 0 .. n /\ \A p \in 1 .. n : p - 1 \in 0 .. n
  BY <1>1
<1>5. \A p \in 1 .. n : Cardinality(Before(p - 1)) = p - 1
  BY <1>2, <1>4
<1>6. IsFiniteSet(Entries(s)) /\ Cardinality(Entries(s)) = n
  <2>1. Entries(s) = Before(n)
    BY DEF Entries
  <2> QED BY <1>2, <1>4, <2>1
<1> HIDE DEF n
<1> QED
  <2>1. \A p \in 1 .. n : \A set :
          RankKnown(S, set, rel, s, p) => Cardinality(Behind(set, rel, s[p])) = p - 1
    <3> SUFFICES ASSUME NEW p \in 1 .. n, NEW set, RankKnown(S, set, rel, s, p)
                 PROVE  Cardinality(Behind(set, rel, s[p])) = p - 1
      OBVIOUS
    <3>1. Behind(set, rel, s[p]) = Before(p - 1)
      BY <1>3 DEF RankKnown, n
    <3> HIDE DEF Before
    <3> QED BY <1>5, <3>1
  <2> QED BY <1>6, <2>1 DEF n

-----------------------------------------------------------------------------
(* Filter.                                                                 *)

BitsOf(byte, base, b) == {base + c : c \in {d \in 0 .. b - 1 : d \in byte}}

\* The rows of a byte are those of its bits.
LEMMA ByteLists ==
  ASSUME NEW byte, NEW base \in Nat
  PROVE  Lists(RowsOf(byte, base), BitsOf(byte, base, 8))
<1> DEFINE A == [b \in 0 .. 8 |-> {s \in Seq(Nat) : Lists(s, BitsOf(byte, base, b))}]
           Body(x, b) == IF b - 1 \in byte THEN Append(x, base + b - 1) ELSE x
           step == [x \in (1 .. 8) \X Seq(Nat) |-> Body(x[2], x[1])]
           IsLoop(f) == f = [b \in 0 .. 8 |-> IF b = 0 THEN << >>
                              ELSE IF b - 1 \in byte THEN Append(f[b - 1], base + b - 1) ELSE f[b - 1]]
           loop == CHOOSE f : IsLoop(f)
<1>1. RowsOf(byte, base) = loop[8]
  BY DEF RowsOf
<1>2. << >> \in A[0]
  <2>1. BitsOf(byte, base, 0) = {}
    BY DEF BitsOf
  <2>2. << >> \in Seq({}) /\ << >> \in Seq(Nat) /\ Len(<< >>) = 0
    OBVIOUS
  <2>3. Lists(<< >>, {})
    BY <2>2 DEF Lists
  <2>4. A[0] = {s \in Seq(Nat) : Lists(s, BitsOf(byte, base, 0))}
    OBVIOUS
  <2> HIDE DEF A
  <2> QED BY <2>1, <2>2, <2>3, <2>4
<1>3. ASSUME NEW b \in 1 .. 8, NEW x \in A[b - 1]
      PROVE  step[<<b, x>>] = Body(x, b) /\ Body(x, b) \in A[b]
  <2>1. x \in Seq(Nat) /\ Lists(x, BitsOf(byte, base, b - 1)) /\ b - 1 \in 0 .. 8 /\ b \in 0 .. 8
    OBVIOUS
  <2>2. CASE b - 1 \in byte
    <3>1. BitsOf(byte, base, b) = BitsOf(byte, base, b - 1) \cup {base + b - 1}
      <4>1. ASSUME NEW r \in BitsOf(byte, base, b) PROVE r \in BitsOf(byte, base, b - 1) \cup {base + b - 1}
        BY DEF BitsOf
      <4>2. ASSUME NEW r \in BitsOf(byte, base, b - 1) \cup {base + b - 1} PROVE r \in BitsOf(byte, base, b)
        <5>1. CASE r = base + (b - 1)
          BY <2>1, <2>2, <5>1 DEF BitsOf
        <5>2. CASE r \in BitsOf(byte, base, b - 1)
          BY <2>1, <5>2 DEF BitsOf
        <5> QED BY <5>1, <5>2
      <4> QED BY <4>1, <4>2
    <3>2. \A y \in BitsOf(byte, base, b - 1) : y < base + b - 1
      BY DEF BitsOf
    <3>3. base + b - 1 \in Nat
      OBVIOUS
    <3>4. Lists(Append(x, base + b - 1), BitsOf(byte, base, b - 1) \cup {base + b - 1})
      BY <2>1, <3>2, <3>3, ListsAppend
    <3>5. Append(x, base + b - 1) \in Seq(Nat)
      BY <2>1, <3>3
    <3> QED BY <2>1, <2>2, <3>1, <3>4, <3>5
  <2>3. CASE b - 1 \notin byte
    <3>1. BitsOf(byte, base, b) = BitsOf(byte, base, b - 1)
      <4>1. {d \in 0 .. b - 1 : d \in byte} = {d \in 0 .. (b - 1) - 1 : d \in byte}
        BY <2>3
      <4> QED BY <4>1 DEF BitsOf
    <3> QED BY <2>1, <2>3, <3>1
  <2> QED BY <2>2, <2>3
<1>4. \A b \in 0 .. 8 : \A x \in A[b] : x \in Seq(Nat) /\ Lists(x, BitsOf(byte, base, b))
  OBVIOUS
<1> HIDE DEF A, step
<1>5. PICK f : Steps(f, 8, A, << >>, step)
  <2>1. \A b \in 1 .. 8 : \A x \in A[b - 1] : step[<<b, x>>] \in A[b]
    BY <1>3
  <2> QED BY <1>2, <2>1, Recursion
<1>6. /\ f = [b \in 0 .. 8 |-> IF b = 0 THEN << >> ELSE step[<<b, f[b - 1]>>]]
      /\ \A b \in 0 .. 8 : f[b] \in A[b]
  BY <1>5 DEF Steps
<1>7. IsLoop(f)
  <2>1. \A b \in 0 .. 8 : (IF b = 0 THEN << >> ELSE step[<<b, f[b - 1]>>])
          = IF b = 0 THEN << >> ELSE IF b - 1 \in byte THEN Append(f[b - 1], base + b - 1) ELSE f[b - 1]
    <3> SUFFICES ASSUME NEW b \in 0 .. 8, b # 0 PROVE step[<<b, f[b - 1]>>] = Body(f[b - 1], b)
      OBVIOUS
    <3>1. b \in 1 .. 8 /\ b - 1 \in 0 .. 8
      OBVIOUS
    <3> QED BY <1>3, <1>6, <3>1
  <2> QED BY <1>6, <2>1
<1>8. IsLoop(loop)
  <2>1. \E g : IsLoop(g)
    BY <1>7
  <2> HIDE DEF IsLoop
  <2> QED BY <2>1
<1> HIDE DEF loop
<1>9. \A b \in 0 .. 8 : loop[b] \in A[b]
  <2> DEFINE G == {b \in 0 .. 8 : loop[b] \in A[b]}
  <2>1. \A b \in 0 .. 8 : loop[b] = IF b = 0 THEN << >> ELSE Body(loop[b - 1], b)
    BY <1>8
  <2>2. 0 \in G
    BY <1>2, <2>1
  <2>3. \A b \in 1 .. 8 : b - 1 \in G => b \in G
    <3> SUFFICES ASSUME NEW b \in 1 .. 8, b - 1 \in G PROVE b \in G
      OBVIOUS
    <3>1. b \in 0 .. 8 /\ b # 0
      OBVIOUS
    <3>2. loop[b] = Body(loop[b - 1], b)
      BY <2>1, <3>1
    <3> HIDE DEF Body
    <3> QED BY <1>3, <3>1, <3>2
  <2> HIDE DEF G
  <2>4. \A b \in 0 .. 8 : b \in G
    BY <2>2, <2>3, StepByStep
  <2> QED BY <2>4 DEF G
<1> QED BY <1>1, <1>4, <1>9

\* The rows of a filter are those of the bits of its mask.
LEMMA FilterLists ==
  ASSUME NEW n \in Nat, NEW mask, n > 0 => mask # NullPtr
  PROVE  Lists(FilterIndices(mask, n), {i \in 0 .. n - 1 : Bit(mask, i)})
<1> DEFINE m == n \div 8
           Kept(a) == {i \in 0 .. a - 1 : Bit(mask, i)}
           A == [k \in 0 .. m |-> {s \in Seq(Nat) : Lists(s, Kept(8 * k))}]
           Body(x, k) == x \o RowsOf(mask[k - 1], 8 * (k - 1))
           step == [x \in (1 .. m) \X Seq(Nat) |-> Body(x[2], x[1])]
           IsLoop(f) == f = [k \in 0 .. n \div 8 |->
                              IF k = 0 THEN << >> ELSE f[k - 1] \o RowsOf(mask[k - 1], 8 * (k - 1))]
           loop == CHOOSE f : IsLoop(f)
           rest == IF n % 8 = 0 THEN << >> ELSE RowsOf(TailBits(mask, n), 8 * (n \div 8))
<1>0. m \in Nat /\ n % 8 \in 0 .. 7 /\ n = 8 * m + (n % 8)
  OBVIOUS
<1>1. FilterIndices(mask, n) = loop[n \div 8] \o rest
  BY DEF FilterIndices
<1>2. << >> \in A[0]
  <2>1. Kept(8 * 0) = {} /\ 0 \in 0 .. m
    BY <1>0
  <2>2. << >> \in Seq({}) /\ << >> \in Seq(Nat) /\ Len(<< >>) = 0
    OBVIOUS
  <2>3. Lists(<< >>, {})
    BY <2>2 DEF Lists
  <2>4. A[0] = {s \in Seq(Nat) : Lists(s, Kept(8 * 0))}
    BY <2>1
  <2> HIDE DEF A, Kept
  <2> QED BY <2>1, <2>2, <2>3, <2>4
<1>3. ASSUME NEW a \in Nat, NEW b \in 0 .. 8, NEW byte, NEW s, Lists(s, Kept(8 * a)), 8 * a + b <= n, b > 0,
             \A c \in 0 .. 7 : c \in byte <=> c < b /\ c \in mask[a]
      PROVE  Lists(s \o RowsOf(byte, 8 * a), Kept(8 * a + b))
  <2> DEFINE new == BitsOf(byte, 8 * a, 8)
  <2>1. Lists(RowsOf(byte, 8 * a), new)
    BY ByteLists
  <2>2. mask # NullPtr
    BY <1>3
  <2>3. \A c \in 0 .. 7 : (8 * a + c) % 8 = c /\ (8 * a + c) \div 8 = a
    <3> SUFFICES ASSUME NEW c \in 0 .. 7 PROVE (8 * a + c) % 8 = c /\ (8 * a + c) \div 8 = a
      OBVIOUS
    <3> QED OBVIOUS
  <2>4. \A c \in 0 .. 7 : Bit(mask, 8 * a + c) <=> c \in mask[a]
    BY <2>2, <2>3 DEF Bit
  <2>5. ASSUME NEW r \in new PROVE r \in 8 * a .. 8 * a + b - 1 /\ Bit(mask, r)
    <3>1. PICK c \in 0 .. 7 : c \in byte /\ r = 8 * a + c
      BY DEF BitsOf
    <3> QED BY <1>3, <2>4, <3>1
  <2>6. ASSUME NEW r \in 8 * a .. 8 * a + b - 1, Bit(mask, r) PROVE r \in new
    <3> DEFINE c == r - 8 * a
    <3>1. c \in 0 .. 7 /\ c < b /\ r = 8 * a + c
      OBVIOUS
    <3>2. c \in byte
      BY <1>3, <2>4, <2>6, <3>1
    <3>3. c \in {d \in 0 .. 8 - 1 : d \in byte}
      BY <3>1, <3>2
    <3> HIDE DEF c
    <3> QED BY <3>1, <3>3 DEF BitsOf
  <2> HIDE DEF new
  <2>7. \A x \in Kept(8 * a), y \in new : x < y
    BY <2>5
  <2>8. Kept(8 * a + b) = Kept(8 * a) \cup new
    <3>1. \A r \in 0 .. 8 * a + b - 1 : r \in 0 .. 8 * a - 1 \/ r \in 8 * a .. 8 * a + b - 1
      OBVIOUS
    <3> QED BY <2>5, <2>6, <3>1
  <2> HIDE DEF Kept
  <2> QED BY <1>3, <2>1, <2>7, <2>8, ListsConcat
<1>4. ASSUME NEW k \in 1 .. m, NEW x \in A[k - 1]
      PROVE  step[<<k, x>>] = Body(x, k) /\ Body(x, k) \in A[k]
  <2>1. x \in Seq(Nat) /\ Lists(x, Kept(8 * (k - 1))) /\ k - 1 \in 0 .. m /\ k \in 0 .. m
    BY <1>0
  <2>2. Lists(Body(x, k), Kept(8 * (k - 1) + 8))
    <3>1. k - 1 \in Nat /\ 8 * (k - 1) + 8 <= n
      BY <1>0
    <3>2. \A c \in 0 .. 7 : c \in mask[k - 1] <=> c < 8 /\ c \in mask[k - 1]
      OBVIOUS
    <3>3. 8 \in 0 .. 8 /\ 8 > 0
      OBVIOUS
    <3> HIDE DEF Kept
    <3> QED BY <1>3, <2>1, <3>1, <3>2, <3>3
  <2>3. 8 * (k - 1) + 8 = 8 * k
    BY <2>1
  <2>4. Body(x, k) \in Seq(Nat)
    <3>1. Body(x, k) \in Seq(Kept(8 * (k - 1) + 8))
      BY <2>2 DEF Lists
    <3>2. Kept(8 * (k - 1) + 8) \subseteq Nat
      OBVIOUS
    <3> HIDE DEF Body, Kept
    <3> QED BY <3>1, <3>2
  <2>5. step[<<k, x>>] = Body(x, k)
    BY <2>1
  <2>6. A[k] = {s \in Seq(Nat) : Lists(s, Kept(8 * k))}
    BY <2>1
  <2> HIDE DEF A, Kept, Body, step
  <2> QED BY <2>2, <2>3, <2>4, <2>5, <2>6
<1>5. \A k \in 0 .. m : \A x \in A[k] : x \in Seq(Nat) /\ Lists(x, Kept(8 * k))
  OBVIOUS
<1> HIDE DEF A, step, Kept
<1>6. PICK f : Steps(f, m, A, << >>, step)
  <2>1. \A k \in 1 .. m : \A x \in A[k - 1] : step[<<k, x>>] \in A[k]
    BY <1>4
  <2> HIDE DEF m
  <2> QED BY <1>0, <1>2, <2>1, Recursion
<1>7. /\ f = [k \in 0 .. m |-> IF k = 0 THEN << >> ELSE step[<<k, f[k - 1]>>]]
      /\ \A k \in 0 .. m : f[k] \in A[k]
  BY <1>6 DEF Steps
<1>8. IsLoop(f)
  <2>1. \A k \in 0 .. m : (IF k = 0 THEN << >> ELSE step[<<k, f[k - 1]>>]) = IF k = 0 THEN << >> ELSE Body(f[k - 1], k)
    <3> SUFFICES ASSUME NEW k \in 0 .. m, k # 0 PROVE step[<<k, f[k - 1]>>] = Body(f[k - 1], k)
      OBVIOUS
    <3>1. k \in 1 .. m /\ k - 1 \in 0 .. m
      BY <1>0
    <3> HIDE DEF Body, m
    <3> QED BY <1>4, <1>7, <3>1
  <2> QED BY <1>7, <2>1
<1>9. IsLoop(loop)
  <2>1. \E g : IsLoop(g)
    BY <1>8
  <2> HIDE DEF IsLoop
  <2> QED BY <2>1
<1> HIDE DEF loop
<1>10. \A k \in 0 .. m : loop[k] \in A[k]
  <2> DEFINE G == {k \in 0 .. m : loop[k] \in A[k]}
  <2>1. \A k \in 0 .. m : loop[k] = IF k = 0 THEN << >> ELSE Body(loop[k - 1], k)
    BY <1>9
  <2>2. 0 \in G
    BY <1>0, <1>2, <2>1
  <2>3. \A k \in 1 .. m : k - 1 \in G => k \in G
    <3> SUFFICES ASSUME NEW k \in 1 .. m, k - 1 \in G PROVE k \in G
      OBVIOUS
    <3>1. k \in 0 .. m /\ k # 0 /\ k - 1 \in 0 .. m /\ loop[k - 1] \in A[k - 1]
      BY <1>0
    <3>2. loop[k] = Body(loop[k - 1], k)
      BY <2>1, <3>1
    <3> HIDE DEF Body, m
    <3> QED BY <1>4, <3>1, <3>2
  <2> HIDE DEF G, m
  <2>4. \A k \in 0 .. m : k \in G
    BY <1>0, <2>2, <2>3, StepByStep
  <2> QED BY <2>4 DEF G
<1>11. loop[m] \in Seq(Nat) /\ Lists(loop[m], Kept(8 * m))
  <2>1. m \in 0 .. m
    BY <1>0
  <2> HIDE DEF m
  <2> QED BY <1>5, <1>10, <2>1
<1>12. CASE n % 8 = 0
  <2>1. FilterIndices(mask, n) = loop[m] /\ 8 * m = n
    BY <1>0, <1>1, <1>11, <1>12
  <2> QED BY <1>11, <2>1 DEF Kept
<1>13. CASE n % 8 # 0
  <2>1. FilterIndices(mask, n) = loop[m] \o RowsOf(TailBits(mask, n), 8 * m)
    BY <1>1, <1>13
  <2>2. \A c \in 0 .. 7 : c \in TailBits(mask, n) <=> c < n % 8 /\ c \in mask[m]
    BY <1>0 DEF TailBits
  <2>3. n % 8 \in 0 .. 8 /\ n % 8 > 0 /\ 8 * m + (n % 8) <= n
    BY <1>0, <1>13
  <2> HIDE DEF m
  <2>4. Lists(loop[m] \o RowsOf(TailBits(mask, n), 8 * m), Kept(8 * m + (n % 8)))
    BY <1>0, <1>3, <1>11, <2>2, <2>3
  <2> QED BY <1>0, <2>1, <2>4 DEF Kept
<1> QED BY <1>12, <1>13

PlaceOf(K, i) == Cardinality({j \in K : j < i})

PlacedIn(s, K, i) == \E p \in 1 .. Len(s) : s[p] = i /\ PlaceOf(K, i) = p - 1

\* The place of a row in the list of the rows kept.
LEMMA PlaceInList ==
  ASSUME NEW n \in Nat, NEW K, K \subseteq 0 .. n - 1, NEW s, Lists(s, K)
  PROVE  /\ Cardinality(K) = Len(s) /\ Len(s) \in 0 .. n
         /\ \A i \in K : PlacedIn(s, K, i)
<1> DEFINE rel == {p \in K \X K : p[1] < p[2]}
<1>1. /\ s \in Seq(K) /\ Len(s) \in Nat
      /\ \A x \in K : \E i \in 1 .. Len(s) : s[i] = x
      /\ \A i, j \in 1 .. Len(s) : i < j => s[i] < s[j]
      /\ \A i \in 1 .. Len(s) : s[i] \in K
  BY DEF Lists
<1>2. \A x, y \in K : <<x, y>> \in rel <=> x < y
  OBVIOUS
<1> HIDE DEF rel
<1>3. \A x, y \in K : ~(<<x, y>> \in rel /\ <<y, x>> \in rel)
  <2> SUFFICES ASSUME NEW x \in K, NEW y \in K, <<x, y>> \in rel, <<y, x>> \in rel PROVE FALSE
    OBVIOUS
  <2>1. x \in Int /\ y \in Int
    OBVIOUS
  <2>2. x < y /\ y < x
    BY <1>2
  <2> QED BY <2>1, <2>2
<1>4. \A i, j \in 1 .. Len(s) : i < j => <<s[i], s[j]>> \in rel
  BY <1>1, <1>2
<1>5. /\ Cardinality(Entries(s)) = Len(s)
      /\ \A p \in 1 .. Len(s) : \A set :
           RankKnown(K, set, rel, s, p) => Cardinality(Behind(set, rel, s[p])) = p - 1
  <2>1. Strictly(K, rel, s)
    BY <1>1, <1>3, <1>4 DEF Strictly
  <2> QED BY <2>1, RankInList
<1>6. Entries(s) = K
  BY <1>1 DEF Entries
<1>7. Cardinality(K) <= n
  <2>1. IsFiniteSet(0 .. n - 1) /\ Cardinality(0 .. n - 1) = n
    BY FS_Interval
  <2> QED BY <2>1, FS_Subset
<1>8. ASSUME NEW i \in K PROVE PlacedIn(s, K, i)
  <2>1. PICK p \in 1 .. Len(s) : s[p] = i
    BY <1>1
  <2>2. RankKnown(K, K, rel, s, p)
    BY <1>1 DEF RankKnown
  <2>5. Cardinality(Behind(K, rel, s[p])) = p - 1
    BY <1>5, <2>2
  <2>6. Behind(K, rel, s[p]) = {j \in K : j < i}
    BY <1>2, <2>1 DEF Behind
  <2> QED BY <2>1, <2>5, <2>6 DEF PlaceOf, PlacedIn
<1>9. Cardinality(K) = Len(s)
  BY <1>5, <1>6
<1>10. Len(s) \in 0 .. n
  <2>1. Len(s) \in Nat /\ Len(s) <= n /\ n \in Nat
    BY <1>1, <1>7, <1>9
  <2> QED BY ONLY <2>1
<1> QED BY <1>8, <1>9, <1>10

\* The validity of the rows gathered.
LEMMA GatheredBits ==
  ASSUME NEW vp, NEW s, NEW T, Lists(s, T), NEW n \in Nat, Len(s) \in 1 .. n, NEW out, 0 .. BytesFor(n) - 1 \subseteq DOMAIN out
  PROVE  /\ \A p \in 1 .. Len(s) : Bit(GatherValidity(vp, s, out), p - 1) <=> Bit(vp, s[p])
         /\ \A k \in 0 .. BytesFor(Len(s)) - 1 : \A b \in GatherValidity(vp, s, out)[k] : 8 * k + b < Len(s)
<1> DEFINE l == Len(s)
           set == {k \in 0 .. l - 1 : Bit(vp, s[k + 1])}
           bits == Packed(l, set)
           v == GatherValidity(vp, s, out)
<1>1. v = [k \in DOMAIN out |-> IF k \in DOMAIN bits THEN bits[k] ELSE out[k]]
  BY DEF GatherValidity
<1>2. l \in 1 .. n /\ l \in Nat
  OBVIOUS
<1>3. DOMAIN bits = 0 .. BytesFor(l) - 1 /\ DOMAIN bits \subseteq DOMAIN out
  <2>1. DOMAIN bits = 0 .. BytesFor(l) - 1
    BY DEF Packed
  <2>2. BytesFor(l) <= BytesFor(n) /\ BytesFor(l) \in Nat /\ BytesFor(n) \in Nat
    BY <1>2 DEF BytesFor
  <2>3. 0 .. BytesFor(l) - 1 \subseteq 0 .. BytesFor(n) - 1
    BY <2>2
  <2> HIDE DEF bits
  <2> QED BY <2>1, <2>3
<1>4. \A k \in 0 .. BytesFor(l) - 1 : v[k] = bits[k] /\ k \in DOMAIN v
  BY <1>1, <1>3
<1>5. \A k \in 0 .. BytesFor(l) - 1 : bits[k] = {b \in 0 .. 7 : 8 * k + b < l /\ 8 * k + b \in set}
  BY DEF Packed
<1>6. ASSUME NEW p \in 1 .. l PROVE Bit(v, p - 1) <=> Bit(vp, s[p])
  <2>1. p - 1 \in 0 .. l - 1
    BY <1>2
  <2>2. Bit(bits, p - 1) <=> p - 1 \in set
    BY <1>2, <2>1, PackedBits
  <2>3. (p - 1) \div 8 \in 0 .. BytesFor(l) - 1
    BY <1>2, <2>1, BytesOfRows
  <2>4. v # << >> /\ bits # << >>
    <3>1. DOMAIN << >> = {}
      OBVIOUS
    <3> HIDE DEF v, bits
    <3> QED BY <1>3, <1>4, <2>3, <3>1
  <2>5. Bit(v, p - 1) <=> Bit(bits, p - 1)
    BY <1>4, <2>3, <2>4 DEF Bit, NullPtr
  <2>6. p - 1 \in set <=> Bit(vp, s[p])
    <3>1. (p - 1) + 1 = p
      OBVIOUS
    <3> QED BY <2>1, <3>1
  <2> QED BY <2>2, <2>5, <2>6
<1> QED BY <1>4, <1>5, <1>6

\* What filter and gather give.
FilterExact(c, r) ==
  LET kept == {i \in 0 .. c.n - 1 : Bit(c.mask, i)}
      place(i) == Cardinality({j \in kept : j < i})
  IN /\ Len(r.rows) = Cardinality(kept) /\ Len(r.data) = Cardinality(kept)
     /\ \A i \in kept :
          /\ r.rows[place(i) + 1] = i
          /\ r.data[place(i) + 1] = c.col.data[i]
          /\ r.gathered[place(i)] = c.col.data[i]
          /\ Bit(r.vp, place(i)) = Bit(c.col.vp, i)
     /\ \A i \in 0 .. c.n - 1 : r.wide[i] = IF i \in kept THEN 1 ELSE 0
     /\ \A k \in 0 .. BytesFor(Cardinality(kept)) - 1 :
          \A b \in r.vp[k] : 8 * k + b < Cardinality(kept)

LEMMA FilterSelects ==
  ASSUME NEW c, c.n \in Nat, c.n > 0 => c.mask # NullPtr, 0 .. BytesFor(c.n) - 1 \subseteq DOMAIN c.old
  PROVE  FilterExact(c, [rows |-> FilterIndices(c.mask, c.n), data |-> Filter(c.col.data, c.mask, c.n),
                         gathered |-> Gather(c.col.data, FilterIndices(c.mask, c.n)),
                         vp |-> GatherValidity(c.col.vp, FilterIndices(c.mask, c.n), c.old),
                         wide |-> ExpandMaskBool(c.mask, c.n)])
<1> DEFINE n == c.n
           K == {i \in 0 .. n - 1 : Bit(c.mask, i)}
           s == FilterIndices(c.mask, n)
           v == GatherValidity(c.col.vp, s, c.old)
           place(i) == Cardinality({j \in K : j < i})
<1>1. Lists(s, K)
  BY FilterLists
<1>2. n \in Nat /\ K \subseteq 0 .. n - 1
  OBVIOUS
<1>3. /\ Filter(c.col.data, c.mask, n) = [k \in 1 .. Len(s) |-> c.col.data[s[k]]]
      /\ Gather(c.col.data, s) = [k \in 0 .. Len(s) - 1 |-> c.col.data[s[k + 1]]]
  BY DEF Filter, Gather
<1> HIDE DEF s
<1>4. /\ Cardinality(K) = Len(s) /\ Len(s) \in 0 .. n
      /\ \A i \in K : \E p \in 1 .. Len(s) : s[p] = i /\ place(i) = p - 1
  <2>1. /\ Cardinality(K) = Len(s) /\ Len(s) \in 0 .. n
        /\ \A i \in K : PlacedIn(s, K, i)
    <3> HIDE DEF K, n
    <3> QED BY ONLY <1>1, <1>2, PlaceInList
  <2> HIDE DEF K
  <2> QED BY <2>1 DEF PlaceOf, PlacedIn
<1>5. Len(s) > 0 => /\ \A p \in 1 .. Len(s) : Bit(v, p - 1) <=> Bit(c.col.vp, s[p])
                    /\ \A k \in 0 .. BytesFor(Len(s)) - 1 : \A b \in v[k] : 8 * k + b < Len(s)
  <2> SUFFICES ASSUME Len(s) > 0
               PROVE  /\ \A p \in 1 .. Len(s) : Bit(v, p - 1) <=> Bit(c.col.vp, s[p])
                      /\ \A k \in 0 .. BytesFor(Len(s)) - 1 : \A b \in v[k] : 8 * k + b < Len(s)
    OBVIOUS
  <2>1. Len(s) \in 1 .. n
    BY <1>4
  <2> HIDE DEF K
  <2> QED BY <1>1, <1>2, <2>1, GatheredBits
<1>6. ASSUME NEW i \in K
      PROVE  /\ s[place(i) + 1] = i
             /\ [k \in 1 .. Len(s) |-> c.col.data[s[k]]][place(i) + 1] = c.col.data[i]
             /\ [k \in 0 .. Len(s) - 1 |-> c.col.data[s[k + 1]]][place(i)] = c.col.data[i]
             /\ Bit(v, place(i)) = Bit(c.col.vp, i)
  <2>1. PICK p \in 1 .. Len(s) : s[p] = i /\ place(i) = p - 1
    BY <1>4
  <2>2. Len(s) \in Nat
    BY <1>4
  <2> HIDE DEF place, v
  <2>3. place(i) + 1 = p /\ place(i) \in 0 .. Len(s) - 1
    BY <2>1, <2>2
  <2>4. Bit(v, place(i)) <=> Bit(c.col.vp, i)
    BY <1>5, <2>1, <2>2
  <2>5. Bit(c.col.vp, i) \in BOOLEAN /\ Bit(v, place(i)) = Bit(c.col.vp, i)
    BY <2>4 DEF Bit
  <2> QED BY <2>1, <2>3, <2>5
<1>7. Len([k \in 1 .. Len(s) |-> c.col.data[s[k]]]) = Len(s)
  BY <1>4
<1>8. \A i \in 0 .. n - 1 : ExpandMaskBool(c.mask, n)[i] = IF i \in K THEN 1 ELSE 0
  BY DEF ExpandMaskBool
<1>9. \A k \in 0 .. BytesFor(Len(s)) - 1 : \A b \in v[k] : 8 * k + b < Len(s)
  <2>1. CASE Len(s) = 0
    BY <2>1 DEF BytesFor
  <2> QED BY <1>4, <1>5, <2>1
<1> DEFINE r == [rows |-> s, data |-> Filter(c.col.data, c.mask, n), gathered |-> Gather(c.col.data, s),
                 vp |-> v, wide |-> ExpandMaskBool(c.mask, n)]
<1>10. /\ r.rows = s /\ r.data = [k \in 1 .. Len(s) |-> c.col.data[s[k]]]
       /\ r.gathered = [k \in 0 .. Len(s) - 1 |-> c.col.data[s[k + 1]]]
       /\ r.vp = v /\ r.wide = ExpandMaskBool(c.mask, n)
  BY <1>3
<1> HIDE DEF v, r
<1>11. FilterExact(c, r)
  <2>1. Len(r.rows) = Cardinality(K) /\ Len(r.data) = Cardinality(K)
    BY <1>4, <1>7, <1>10
  <2>2. \A i \in K : /\ r.rows[place(i) + 1] = i /\ r.data[place(i) + 1] = c.col.data[i]
                     /\ r.gathered[place(i)] = c.col.data[i] /\ Bit(r.vp, place(i)) = Bit(c.col.vp, i)
    BY <1>6, <1>10
  <2>3. \A i \in 0 .. n - 1 : r.wide[i] = IF i \in K THEN 1 ELSE 0
    BY <1>8, <1>10
  <2>4. \A k \in 0 .. BytesFor(Cardinality(K)) - 1 : \A b \in r.vp[k] : 8 * k + b < Cardinality(K)
    BY <1>4, <1>9, <1>10
  <2> QED BY <2>1, <2>2, <2>3, <2>4, Zenon DEF FilterExact
<1> QED BY <1>11 DEF r, s, v

-----------------------------------------------------------------------------
(* A heap.  Of two rows in order the first is to be replaced before the    *)
(* other.                                                                  *)

\* Two rows of S are in order in one way.
StrictOrder(S, order) ==
  /\ \A x, y \in S : ~(<<x, y>> \in order /\ <<y, x>> \in order)
  /\ \A x, y \in S : x # y => <<x, y>> \in order \/ <<y, x>> \in order
  /\ \A x, y, z \in S : <<x, y>> \in order /\ <<y, z>> \in order => <<x, z>> \in order

Child(p, c) == c = 2 * p \/ c = 2 * p + 1

\* From position i on no child is to be replaced before its parent.
HeapFrom(h, order, i) ==
  \A p \in i .. Len(h), c \in 1 .. Len(h) : Child(p, c) => <<h[c], h[p]>> \notin order

\* The same but for the children of position at, which are not to be replaced before
\* the parent of it.
HeapBut(h, order, i, at) ==
  /\ \A p \in i .. Len(h), c \in 1 .. Len(h) : Child(p, c) /\ p # at => <<h[c], h[p]>> \notin order
  /\ \A p \in i .. Len(h), c \in 1 .. Len(h) : Child(p, at) /\ Child(at, c) => <<h[c], h[p]>> \notin order

\* g has the rows of h, each once.
Rearranged(S, h, g) ==
  /\ h \in Seq(S) /\ g \in Seq(S) /\ Len(g) = Len(h) /\ Entries(g) = Entries(h)
  /\ \A i, j \in 1 .. Len(h) : h[i] = h[j] => i = j
  /\ \A i, j \in 1 .. Len(g) : g[i] = g[j] => i = j

LEMMA NotAfter ==
  ASSUME NEW S, NEW order, StrictOrder(S, order), NEW x \in S, NEW y \in S, NEW z \in S,
         <<y, x>> \notin order, <<z, y>> \notin order
  PROVE  <<z, x>> \notin order
<1> SUFFICES ASSUME <<z, x>> \in order PROVE FALSE
  OBVIOUS
<1>1. CASE x = y
  BY <1>1
<1>2. CASE y = z
  BY <1>2
<1>3. CASE x # y /\ y # z
  <2>1. <<x, y>> \in order /\ <<y, z>> \in order
    BY <1>3 DEF StrictOrder
  <2>2. <<x, z>> \in order
    BY <2>1 DEF StrictOrder
  <2> QED BY <2>2 DEF StrictOrder
<1> QED BY <1>1, <1>2, <1>3

\* Two positions exchanged.
Swapped(h, a, b) == [h EXCEPT ![a] = h[b], ![b] = h[a]]

LEMMA SwapRearranges ==
  ASSUME NEW S, NEW h0, NEW h, Rearranged(S, h0, h), NEW a \in 1 .. Len(h), NEW b \in 1 .. Len(h), a # b
  PROVE  /\ Rearranged(S, h0, Swapped(h, a, b))
         /\ \A i \in 1 .. Len(h) : Swapped(h, a, b)[i] = IF i = a THEN h[b] ELSE IF i = b THEN h[a] ELSE h[i]
<1> DEFINE n == Len(h)
           g == Swapped(h, a, b)
           other(i) == IF i = a THEN b ELSE IF i = b THEN a ELSE i
<1>1. /\ h0 \in Seq(S) /\ h \in Seq(S) /\ n = Len(h0) /\ Entries(h) = Entries(h0) /\ n \in Nat
      /\ \A i, j \in 1 .. Len(h0) : h0[i] = h0[j] => i = j
      /\ \A i, j \in 1 .. n : h[i] = h[j] => i = j
      /\ \A i \in 1 .. n : h[i] \in S
      /\ DOMAIN h = 1 .. n
  BY DEF Rearranged
<1>2. g \in Seq(S) /\ Len(g) = n
  <2>1. h[a] \in S /\ h[b] \in S
    BY <1>1
  <2> QED BY <1>1, <2>1 DEF Swapped
<1>3. \A i \in 1 .. n : g[i] = h[other(i)] /\ other(i) \in 1 .. n
  BY <1>1 DEF Swapped
<1> HIDE DEF g, n
<1>4. \A i, j \in 1 .. n : g[i] = g[j] => i = j
  <2> SUFFICES ASSUME NEW i \in 1 .. n, NEW j \in 1 .. n, g[i] = g[j] PROVE i = j
    OBVIOUS
  <2>1. other(i) = other(j)
    <3> HIDE DEF other
    <3> QED BY <1>1, <1>3
  <2> QED BY <2>1
<1>5. Entries(g) = Entries(h)
  <2>1. Entries(g) = {g[i] : i \in 1 .. n} /\ Entries(h) = {h[i] : i \in 1 .. n}
    BY <1>2 DEF Entries, n
  <2>2. \A i \in 1 .. n : other(i) \in 1 .. n /\ g[other(i)] = h[i]
    BY <1>3 DEF n
  <2> HIDE DEF other
  <2> QED BY <1>3, <2>1, <2>2
<1>6. Rearranged(S, h0, g)
  BY <1>1, <1>2, <1>4, <1>5 DEF Rearranged
<1>7. \A i \in 1 .. n : g[i] = IF i = a THEN h[b] ELSE IF i = b THEN h[a] ELSE h[i]
  BY <1>3
<1> QED BY <1>6, <1>7 DEF g, n

\* No row below at is out of order, and those at at may be.
Sifting(S, h0, order, start, s) ==
  /\ s.at \in Nat /\ start <= s.at
  /\ s = [heap |-> s.heap, at |-> s.at]
  /\ Rearranged(S, h0, s.heap)
  /\ HeapBut(s.heap, order, start, s.at)

\* The child to compare with is the one to be replaced before the other.
LEMMA WorseChildIs ==
  ASSUME NEW S, NEW order, StrictOrder(S, order), NEW h \in Seq(S), NEW at \in Nat \ {0}, 2 * at <= Len(h)
  PROVE  LET c == WorseChild(h, at, order) IN
         /\ c \in 1 .. Len(h) /\ Child(at, c) /\ c > at
         /\ \A d \in 1 .. Len(h) : Child(at, d) => <<h[d], h[c]>> \notin order
<1> DEFINE c == WorseChild(h, at, order)
           n == Len(h)
<1>1. n \in Nat /\ \A i \in 1 .. n : h[i] \in S
  OBVIOUS
<1>2. \A x \in S : <<x, x>> \notin order
  BY DEF StrictOrder
<1>3. CASE 2 * at < n /\ <<h[2 * at + 1], h[2 * at]>> \in order
  <2>1. c = 2 * at + 1 /\ c \in 1 .. n /\ 2 * at \in 1 .. n /\ c > at /\ Child(at, c)
    BY <1>1, <1>3 DEF WorseChild, Child
  <2>2. <<h[2 * at], h[c]>> \notin order
    BY <1>1, <1>3, <2>1 DEF StrictOrder
  <2> HIDE DEF c
  <2>3. <<h[c], h[c]>> \notin order
    BY <1>1, <1>2, <2>1
  <2>4. \A d \in 1 .. n : Child(at, d) => <<h[d], h[c]>> \notin order
    BY <2>1, <2>2, <2>3 DEF Child
  <2> QED BY <2>1, <2>4 DEF c
<1>4. CASE ~(2 * at < n /\ <<h[2 * at + 1], h[2 * at]>> \in order)
  <2>1. c = 2 * at /\ c \in 1 .. n /\ c > at /\ Child(at, c)
    BY <1>1, <1>4 DEF WorseChild, Child
  <2>2. 2 * at + 1 \in 1 .. n => <<h[2 * at + 1], h[c]>> \notin order
    BY <1>1, <1>4, <2>1
  <2> HIDE DEF c
  <2>3. <<h[c], h[c]>> \notin order
    BY <1>1, <1>2, <2>1
  <2>4. \A d \in 1 .. n : Child(at, d) => <<h[d], h[c]>> \notin order
    BY <2>1, <2>2, <2>3 DEF Child
  <2> QED BY <2>1, <2>4 DEF c
<1> QED BY <1>3, <1>4

\* A position has one parent.
LEMMA OneParent ==
  ASSUME NEW p \in Nat, NEW q \in Nat, NEW c \in Nat, Child(p, c), Child(q, c)
  PROVE  p = q
BY DEF Child

\* An iteration of the loop goes down a level, or everything is in order.
LEMMA SiftStepKeeps ==
  ASSUME NEW S, NEW order, StrictOrder(S, order), NEW h0, NEW start \in Nat \ {0},
         NEW s, Sifting(S, h0, order, start, s)
  PROVE  /\ Sifting(S, h0, order, start, SiftStep(s, order))
         /\ SiftStep(s, order).at > s.at \/ (SiftStep(s, order) = s /\ HeapFrom(s.heap, order, start))
<1> DEFINE t == SiftStep(s, order)
           h == s.heap
           at == s.at
           n == Len(h)
           c == WorseChild(h, at, order)
           Down == 2 * at <= n /\ <<h[c], h[at]>> \in order
<1>1. /\ at \in Nat \ {0} /\ start <= at /\ Rearranged(S, h0, h) /\ h \in Seq(S) /\ n \in Nat
      /\ s = [heap |-> h, at |-> at]
      /\ \A i \in 1 .. n : h[i] \in S
  BY DEF Sifting, Rearranged
<1>2. /\ \A p \in start .. n, d \in 1 .. n : Child(p, d) /\ p # at => <<h[d], h[p]>> \notin order
      /\ \A p \in start .. n, d \in 1 .. n : Child(p, at) /\ Child(at, d) => <<h[d], h[p]>> \notin order
  BY DEF Sifting, HeapBut
<1>3. CASE Down
  <2> DEFINE g == Swapped(h, at, c)
  <2>1. t = [heap |-> g, at |-> c]
    BY <1>3 DEF SiftStep, Swapped
  <2>2. /\ c \in 1 .. n /\ Child(at, c) /\ c > at
        /\ \A d \in 1 .. n : Child(at, d) => <<h[d], h[c]>> \notin order
    BY <1>1, <1>3, WorseChildIs
  <2> HIDE DEF c, h, at, n, t
  <2>3. at \in 1 .. n /\ at # c
    BY <1>1, <2>2
  <2>4. /\ Rearranged(S, h0, g)
        /\ \A i \in 1 .. n : g[i] = IF i = at THEN h[c] ELSE IF i = c THEN h[at] ELSE h[i]
    BY <1>1, <2>2, <2>3, SwapRearranges DEF n
  <2>5. Len(g) = n
    BY <1>1, <2>4 DEF Rearranged, n
  <2> HIDE DEF g
  <2>6. ASSUME NEW p \in start .. n, NEW d \in 1 .. n, Child(p, d), p # c PROVE <<g[d], g[p]>> \notin order
    <3>0. p \in Nat /\ d \in Nat /\ at \in Nat /\ c \in Nat /\ p \in 1 .. n
      BY <1>1, <2>2
    <3>1. CASE p = at
      <4>1. g[p] = h[c] /\ d # at
        BY <2>3, <2>4, <2>6, <3>0, <3>1 DEF Child
      <4>2. CASE d = c
        <5>1. g[d] = h[at]
          BY <2>3, <2>4, <4>1, <4>2
        <5> QED BY <1>1, <1>3, <2>2, <2>3, <4>1, <5>1 DEF StrictOrder
      <4>3. CASE d # c
        <5>1. g[d] = h[d]
          BY <2>4, <4>1, <4>3
        <5> QED BY <2>2, <2>6, <3>1, <4>1, <5>1
      <4> QED BY <4>2, <4>3
    <3>2. CASE p # at
      <4>1. d # c
        BY <2>2, <2>6, <3>0, <3>2, OneParent
      <4>2. g[p] = h[p]
        BY <2>4, <2>6, <3>0, <3>2
      <4>3. CASE d = at
        <5>1. g[d] = h[c]
          BY <2>3, <2>4, <4>3
        <5> QED BY <1>2, <2>2, <2>6, <4>2, <4>3, <5>1
      <4>4. CASE d # at
        <5>1. g[d] = h[d]
          BY <2>4, <4>1, <4>4
        <5> QED BY <1>2, <2>6, <3>2, <4>2, <5>1
      <4> QED BY <4>3, <4>4
    <3> QED BY <3>1, <3>2
  <2>7. ASSUME NEW p \in start .. n, NEW d \in 1 .. n, Child(p, c), Child(c, d) PROVE <<g[d], g[p]>> \notin order
    <3>0. p \in Nat /\ d \in Nat /\ at \in Nat /\ c \in Nat
      BY <1>1, <2>2
    <3>1. p = at
      BY <2>2, <2>7, <3>0, OneParent
    <3>2. d # at /\ d # c
      BY <2>2, <2>7, <3>0 DEF Child
    <3>3. g[d] = h[d] /\ g[p] = h[c]
      BY <2>3, <2>4, <3>1, <3>2
    <3>4. c \in start .. n /\ c # at
      BY <1>1, <2>2
    <3> QED BY <1>2, <2>7, <3>3, <3>4
  <2>8. HeapBut(g, order, start, c)
    BY <2>5, <2>6, <2>7 DEF HeapBut
  <2>9. t.heap = g /\ t.at = c
    BY <2>1
  <2>10. Sifting(S, h0, order, start, t)
    <3>1. c \in Nat /\ start <= c
      BY <1>1, <2>2
    <3> QED BY <2>1, <2>4, <2>8, <2>9, <3>1 DEF Sifting
  <2>11. t.at > s.at
    BY <2>2, <2>9 DEF at
  <2> QED BY <2>10, <2>11 DEF t
<1>4. CASE ~Down
  <2>1. t = s
    BY <1>4 DEF SiftStep
  <2>2. ASSUME NEW d \in 1 .. n, Child(at, d) PROVE <<h[d], h[at]>> \notin order
    <3>1. 2 * at <= n /\ at \in 1 .. n
      BY <1>1, <2>2 DEF Child
    <3>2. /\ c \in 1 .. n
          /\ \A e \in 1 .. n : Child(at, e) => <<h[e], h[c]>> \notin order
      BY <1>1, <3>1, WorseChildIs
    <3>3. <<h[d], h[c]>> \notin order /\ <<h[c], h[at]>> \notin order
      BY <1>4, <2>2, <3>1, <3>2
    <3>4. h[d] \in S /\ h[c] \in S /\ h[at] \in S
      BY <1>1, <3>1, <3>2
    <3> HIDE DEF c, h, at
    <3> QED BY <3>3, <3>4, NotAfter
  <2>3. HeapFrom(h, order, start)
    BY <1>2, <2>2 DEF HeapFrom
  <2> QED BY <2>1, <2>3
<1> QED BY <1>3, <1>4

Once(h) == \A i, j \in 1 .. Len(h) : h[i] = h[j] => i = j

\* Where all below it is a heap a row is sifted down until it is one from there.
LEMMA SiftDownKeeps ==
  ASSUME NEW S, NEW order, StrictOrder(S, order), NEW h, h \in Seq(S), Once(h),
         NEW start \in Nat \ {0}, start <= Len(h), HeapFrom(h, order, start + 1)
  PROVE  Rearranged(S, h, SiftDown(h, start, order)) /\ HeapFrom(SiftDown(h, start, order), order, start)
<1> DEFINE n == Len(h)
           first == [heap |-> h, at |-> start]
           States == [heap : Seq(S), at : Nat]
           Reached(k) == {s \in States : /\ Sifting(S, h, order, start, s)
                                         /\ s.at >= start + k \/ HeapFrom(s.heap, order, start)}
           A == [k \in 0 .. n |-> Reached(k)]
           step == [x \in (1 .. n) \X States |-> SiftStep(x[2], order)]
           IsLoop(f) == f = [k \in 0 .. Len(h) |-> IF k = 0 THEN [heap |-> h, at |-> start]
                                                   ELSE SiftStep(f[k - 1], order)]
           loop == CHOOSE f : IsLoop(f)
<1>0. n \in Nat
  OBVIOUS
<1>1. SiftDown(h, start, order) = loop[n].heap
  BY DEF SiftDown
<1>2. first \in Reached(0)
  <2>1. HeapBut(h, order, start, start)
    <3>1. ASSUME NEW p \in start .. n, NEW c \in 1 .. n, p # start, Child(p, c) PROVE <<h[c], h[p]>> \notin order
      <4>1. p \in start + 1 .. n
        BY <1>0, <3>1
      <4> QED BY <3>1, <4>1 DEF HeapFrom
    <3>2. ASSUME NEW p \in start .. n PROVE ~Child(p, start)
      BY <1>0 DEF Child
    <3> QED BY <3>1, <3>2 DEF HeapBut
  <2>2. Rearranged(S, h, h)
    BY DEF Rearranged, Once
  <2>3. Sifting(S, h, order, start, first)
    BY <2>1, <2>2 DEF Sifting
  <2> QED BY <2>3
<1>3. ASSUME NEW k \in 1 .. n, NEW s \in Reached(k - 1) PROVE SiftStep(s, order) \in Reached(k)
  <2> DEFINE t == SiftStep(s, order)
  <2>1. Sifting(S, h, order, start, s) /\ (s.at >= start + (k - 1) \/ HeapFrom(s.heap, order, start)) /\ s.at \in Nat
    OBVIOUS
  <2>2. Sifting(S, h, order, start, t) /\ (t.at > s.at \/ (t = s /\ HeapFrom(s.heap, order, start)))
    <3> HIDE DEF A, Reached, step, loop, States
    <3>1. Sifting(S, h, order, start, SiftStep(s, order))
      BY <2>1, SiftStepKeeps
    <3>2. SiftStep(s, order).at > s.at \/ (SiftStep(s, order) = s /\ HeapFrom(s.heap, order, start))
      BY <2>1, SiftStepKeeps
    <3> QED BY <3>1, <3>2 DEF t
  <2> HIDE DEF t
  <2>3. t.at \in Nat /\ t = [heap |-> t.heap, at |-> t.at] /\ t.heap \in Seq(S)
    BY <2>2 DEF Sifting, Rearranged
  <2>4. t \in States
    BY <2>3
  <2>5. HeapFrom(s.heap, order, start) => HeapFrom(t.heap, order, start)
    <3> SUFFICES ASSUME HeapFrom(s.heap, order, start), t # s PROVE HeapFrom(t.heap, order, start)
      OBVIOUS
    <3>1. t = s
      <4> DEFINE c == WorseChild(s.heap, s.at, order)
      <4>1. 2 * s.at <= Len(s.heap) => <<s.heap[c], s.heap[s.at]>> \notin order
        <5> SUFFICES ASSUME 2 * s.at <= Len(s.heap) PROVE <<s.heap[c], s.heap[s.at]>> \notin order
          OBVIOUS
        <5>1. s.heap \in Seq(S) /\ s.at \in Nat \ {0} /\ start <= s.at
          BY <2>1 DEF Sifting, Rearranged
        <5>2. c \in 1 .. Len(s.heap) /\ Child(s.at, c)
          BY <5>1, WorseChildIs
        <5>3. s.at \in start .. Len(s.heap)
          BY <5>1
        <5> QED BY <5>2, <5>3 DEF HeapFrom
      <4> QED BY <4>1 DEF SiftStep, t
    <3> QED BY <3>1
  <2>6. t.at >= start + k \/ HeapFrom(t.heap, order, start)
    BY <2>1, <2>2, <2>3, <2>5
  <2> QED BY <2>2, <2>4, <2>6 DEF t
<1>4. \A k \in 0 .. n : A[k] = Reached(k) /\ A[k] \subseteq States
  OBVIOUS
<1> HIDE DEF A, Reached
<1>5. ASSUME NEW k \in 1 .. n, NEW x \in A[k - 1]
      PROVE  step[<<k, x>>] = SiftStep(x, order) /\ SiftStep(x, order) \in A[k]
  <2>1. k \in 0 .. n /\ k - 1 \in 0 .. n
    OBVIOUS
  <2>2. x \in States /\ x \in Reached(k - 1)
    BY <1>4, <2>1
  <2>3. step[<<k, x>>] = SiftStep(x, order)
    BY <2>2
  <2> QED BY <1>3, <1>4, <2>1, <2>2, <2>3
<1> HIDE DEF step, States
<1>6. first \in A[0]
  BY <1>2, <1>4
<1>7. PICK f : Steps(f, n, A, first, step)
  <2>1. \A k \in 1 .. n : \A x \in A[k - 1] : step[<<k, x>>] \in A[k]
    BY <1>5
  <2> HIDE DEF n, first
  <2> QED BY <1>0, <1>6, <2>1, Recursion
<1>8. IsLoop(f)
  <2>1. /\ f = [k \in 0 .. n |-> IF k = 0 THEN first ELSE step[<<k, f[k - 1]>>]]
        /\ \A k \in 0 .. n : f[k] \in A[k]
    BY <1>7 DEF Steps
  <2>2. \A k \in 0 .. n : (IF k = 0 THEN first ELSE step[<<k, f[k - 1]>>])
                            = IF k = 0 THEN first ELSE SiftStep(f[k - 1], order)
    <3> SUFFICES ASSUME NEW k \in 0 .. n, k # 0 PROVE step[<<k, f[k - 1]>>] = SiftStep(f[k - 1], order)
      OBVIOUS
    <3>1. k \in 1 .. n /\ k - 1 \in 0 .. n
      OBVIOUS
    <3> QED BY <1>5, <2>1, <3>1
  <2> QED BY <2>1, <2>2
<1>9. IsLoop(loop)
  <2>1. \E g : IsLoop(g)
    BY <1>8
  <2> HIDE DEF IsLoop
  <2> QED BY <2>1
<1> HIDE DEF loop
<1>10. \A k \in 0 .. n : loop[k] \in A[k]
  <2> DEFINE G == {k \in 0 .. n : loop[k] \in A[k]}
  <2>1. \A k \in 0 .. n : loop[k] = IF k = 0 THEN first ELSE SiftStep(loop[k - 1], order)
    BY <1>9
  <2>2. 0 \in G
    BY <1>0, <1>6, <2>1
  <2>3. \A k \in 1 .. n : k - 1 \in G => k \in G
    <3> SUFFICES ASSUME NEW k \in 1 .. n, k - 1 \in G PROVE k \in G
      OBVIOUS
    <3>1. k \in 0 .. n /\ k # 0
      OBVIOUS
    <3>2. loop[k] = SiftStep(loop[k - 1], order)
      BY <2>1, <3>1
    <3> QED BY <1>5, <3>1, <3>2
  <2> HIDE DEF G, n
  <2>4. \A k \in 0 .. n : k \in G
    BY <1>0, <2>2, <2>3, StepByStep
  <2> QED BY <2>4 DEF G
<1>11. loop[n] \in Reached(n)
  BY <1>0, <1>4, <1>10
<1>12. /\ Sifting(S, h, order, start, loop[n]) /\ loop[n].at \in Nat
       /\ loop[n].at >= start + n \/ HeapFrom(loop[n].heap, order, start)
  BY <1>11 DEF Reached, States
<1>13. HeapFrom(loop[n].heap, order, start)
  <2> SUFFICES ASSUME loop[n].at >= start + n PROVE HeapFrom(loop[n].heap, order, start)
    BY <1>12
  <2> DEFINE g == loop[n].heap
             at == loop[n].at
  <2>1. HeapBut(g, order, start, at) /\ Len(g) = n /\ at > n
    BY <1>0, <1>12 DEF Sifting, Rearranged
  <2>2. \A p \in start .. Len(g) : p # at
    BY <2>1
  <2> QED BY <2>1, <2>2 DEF HeapBut, HeapFrom
<1> QED BY <1>1, <1>12, <1>13 DEF Sifting

LEMMA RearrangedAgain ==
  ASSUME NEW S, NEW h, NEW g, NEW f, Rearranged(S, h, g), Rearranged(S, g, f)
  PROVE  Rearranged(S, h, f)
BY DEF Rearranged

\* Sifting the parents from the last to the first makes a heap.
LEMMA HeapBuildKeeps ==
  ASSUME NEW S, NEW order, StrictOrder(S, order), NEW h, h \in Seq(S), Once(h)
  PROVE  Rearranged(S, h, HeapBuild(h, order)) /\ HeapFrom(HeapBuild(h, order), order, 1)
<1> DEFINE half == Len(h) \div 2
           Reached(k) == {g \in Seq(S) : Rearranged(S, h, g) /\ HeapFrom(g, order, half - k + 1)}
           A == [k \in 0 .. half |-> Reached(k)]
           Body(g, k) == SiftDown(g, half - k + 1, order)
           step == [x \in (1 .. half) \X Seq(S) |-> Body(x[2], x[1])]
           IsLoop(f) == f = [k \in 0 .. half |-> IF k = 0 THEN h ELSE Body(f[k - 1], k)]
           loop == CHOOSE f : IsLoop(f)
<1>0. half \in Nat /\ 2 * half + 2 > Len(h) /\ half <= Len(h) /\ Len(h) \in Nat
  OBVIOUS
<1>1. HeapBuild(h, order) = loop[half]
  BY DEF HeapBuild
<1>2. h \in Reached(0)
  <2>1. Rearranged(S, h, h)
    BY DEF Rearranged, Once
  <2>2. ASSUME NEW p \in half - 0 + 1 .. Len(h), NEW c \in 1 .. Len(h) PROVE ~Child(p, c)
    BY <1>0 DEF Child
  <2>3. HeapFrom(h, order, half - 0 + 1)
    BY <2>2 DEF HeapFrom
  <2> HIDE DEF half
  <2> QED BY <2>1, <2>3
<1>3. ASSUME NEW k \in 1 .. half, NEW g \in Reached(k - 1) PROVE Body(g, k) \in Reached(k)
  <2> DEFINE start == half - k + 1
  <2>1. Rearranged(S, h, g) /\ HeapFrom(g, order, half - (k - 1) + 1)
    OBVIOUS
  <2>2. start \in Nat \ {0} /\ start <= Len(h) /\ start + 1 = half - (k - 1) + 1
    BY <1>0
  <2>3. g \in Seq(S) /\ Once(g) /\ Len(g) = Len(h)
    BY <2>1 DEF Rearranged, Once
  <2> HIDE DEF start, half
  <2>4. Rearranged(S, g, SiftDown(g, start, order)) /\ HeapFrom(SiftDown(g, start, order), order, start)
    BY <2>1, <2>2, <2>3, SiftDownKeeps
  <2>5. Rearranged(S, h, SiftDown(g, start, order)) /\ SiftDown(g, start, order) \in Seq(S)
    <3>1. Rearranged(S, h, SiftDown(g, start, order))
      BY <2>1, <2>4, RearrangedAgain
    <3> QED BY <3>1 DEF Rearranged
  <2> QED BY <2>4, <2>5 DEF start
<1>4. \A k \in 0 .. half : A[k] = Reached(k) /\ A[k] \subseteq Seq(S)
  OBVIOUS
<1> HIDE DEF A, Reached, half
<1>5. ASSUME NEW k \in 1 .. half, NEW x \in A[k - 1]
      PROVE  step[<<k, x>>] = Body(x, k) /\ Body(x, k) \in A[k]
  <2>1. k \in 0 .. half /\ k - 1 \in 0 .. half
    BY <1>0
  <2>2. x \in Seq(S) /\ x \in Reached(k - 1)
    BY <1>4, <2>1
  <2> HIDE DEF Body
  <2>3. step[<<k, x>>] = Body(x, k)
    BY <2>2
  <2> QED BY <1>3, <1>4, <2>1, <2>2, <2>3
<1> HIDE DEF step, Body
<1>6. h \in A[0]
  BY <1>0, <1>2, <1>4
<1>7. PICK f : Steps(f, half, A, h, step)
  <2>1. \A k \in 1 .. half : \A x \in A[k - 1] : step[<<k, x>>] \in A[k]
    BY <1>5
  <2> QED BY <1>0, <1>6, <2>1, Recursion
<1>8. IsLoop(f)
  <2>1. /\ f = [k \in 0 .. half |-> IF k = 0 THEN h ELSE step[<<k, f[k - 1]>>]]
        /\ \A k \in 0 .. half : f[k] \in A[k]
    BY <1>7 DEF Steps
  <2>2. \A k \in 0 .. half : (IF k = 0 THEN h ELSE step[<<k, f[k - 1]>>]) = IF k = 0 THEN h ELSE Body(f[k - 1], k)
    <3> SUFFICES ASSUME NEW k \in 0 .. half, k # 0 PROVE step[<<k, f[k - 1]>>] = Body(f[k - 1], k)
      OBVIOUS
    <3>1. k \in 1 .. half /\ k - 1 \in 0 .. half
      BY <1>0
    <3> QED BY <1>5, <2>1, <3>1
  <2> QED BY <2>1, <2>2
<1>9. IsLoop(loop)
  <2>1. \E g : IsLoop(g)
    BY <1>8
  <2> HIDE DEF IsLoop
  <2> QED BY <2>1
<1> HIDE DEF loop
<1>10. \A k \in 0 .. half : loop[k] \in A[k]
  <2> DEFINE G == {k \in 0 .. half : loop[k] \in A[k]}
  <2>1. \A k \in 0 .. half : loop[k] = IF k = 0 THEN h ELSE Body(loop[k - 1], k)
    BY <1>9
  <2>2. 0 \in G
    BY <1>0, <1>6, <2>1
  <2>3. \A k \in 1 .. half : k - 1 \in G => k \in G
    <3> SUFFICES ASSUME NEW k \in 1 .. half, k - 1 \in G PROVE k \in G
      OBVIOUS
    <3>1. k \in 0 .. half /\ k # 0
      BY <1>0
    <3>2. loop[k] = Body(loop[k - 1], k)
      BY <2>1, <3>1
    <3> QED BY <1>5, <3>1, <3>2
  <2> HIDE DEF G
  <2>4. \A k \in 0 .. half : k \in G
    BY <1>0, <2>2, <2>3, StepByStep
  <2> QED BY <2>4 DEF G
<1>11. loop[half] \in Reached(half) /\ half - half + 1 = 1
  BY <1>0, <1>4, <1>10
<1> QED BY <1>1, <1>11 DEF Reached

\* The root is the first to be replaced.
LEMMA RootFirst ==
  ASSUME NEW S, NEW order, StrictOrder(S, order), NEW h, h \in Seq(S), HeapFrom(h, order, 1)
  PROVE  \A p \in 1 .. Len(h) : <<h[p], h[1]>> \notin order
<1> DEFINE n == Len(h)
           G == {k \in 0 .. n : \A p \in 1 .. k : <<h[p], h[1]>> \notin order}
<1>1. n \in Nat /\ \A p \in 1 .. n : h[p] \in S
  OBVIOUS
<1>2. 0 \in G
  BY <1>1
<1>3. ASSUME NEW k \in 1 .. n, k - 1 \in G PROVE k \in G
  <2>1. <<h[k], h[1]>> \notin order
    <3>1. CASE k = 1
      <4>1. h[1] \in S
        BY <1>1, <3>1
      <4> QED BY <3>1, <4>1 DEF StrictOrder
    <3>2. CASE k # 1
      <4> DEFINE p == k \div 2
      <4>1. p \in 1 .. k - 1 /\ p \in 1 .. n /\ (k = 2 * p \/ k = 2 * p + 1)
        BY <1>1, <3>2
      <4> HIDE DEF p
      <4>2. <<h[p], h[1]>> \notin order /\ <<h[k], h[p]>> \notin order
        BY <1>3, <4>1 DEF HeapFrom, Child
      <4>3. h[p] \in S /\ h[1] \in S /\ h[k] \in S
        BY <1>1, <4>1
      <4> QED BY <4>2, <4>3, NotAfter
    <3> QED BY <3>1, <3>2
  <2>2. k \in 0 .. n /\ \A p \in 1 .. k : p \in 1 .. k - 1 \/ p = k
    BY <1>1
  <2> QED BY <1>3, <2>1, <2>2
<1> HIDE DEF G, n
<1>4. \A k \in 0 .. n : k \in G
  BY <1>1, <1>2, <1>3, StepByStep
<1> QED BY <1>1, <1>4 DEF G, n

-----------------------------------------------------------------------------
(* topk: the rows kept of those offered.                                   *)

\* h has of the rows R the k that are replaced last, as a heap once there are k.
Kept(k, order, R, h) ==
  /\ h \in Seq(R) /\ Once(h) /\ Len(h) <= k
  /\ Len(h) < k => Entries(h) = R
  /\ Len(h) = k => /\ HeapFrom(h, order, 1)
                   /\ \A r \in R : r \in Entries(h) \/ \A p \in 1 .. Len(h) : <<r, h[p]>> \in order

LEMMA OnceAppended ==
  ASSUME NEW R, NEW h, h \in Seq(R), Once(h), NEW x, x \notin R
  PROVE  /\ Append(h, x) \in Seq(R \cup {x}) /\ Once(Append(h, x)) /\ Len(Append(h, x)) = Len(h) + 1
         /\ Entries(Append(h, x)) = Entries(h) \cup {x}
<1> DEFINE g == Append(h, x)
           n == Len(h)
<1>1. n \in Nat /\ \A i \in 1 .. n : h[i] \in R
  OBVIOUS
<1>2. g \in Seq(R \cup {x}) /\ Len(g) = n + 1 /\ g[n + 1] = x /\ \A i \in 1 .. n : g[i] = h[i]
  <2>1. h \in Seq(R \cup {x})
    OBVIOUS
  <2> QED BY <2>1
<1> HIDE DEF g
<1>3. \A i, j \in 1 .. n : h[i] = h[j] => i = j
  BY DEF Once
<1> HIDE DEF n
<1>4. \A i \in 1 .. n + 1 : i \in 1 .. n \/ i = n + 1
  BY <1>1
<1>5. \A i, j \in 1 .. n + 1 : g[i] = g[j] => i = j
  BY <1>1, <1>2, <1>3, <1>4
<1>6. Entries(g) = Entries(h) \cup {x}
  <2>1. n + 1 \in 1 .. n + 1 /\ \A i \in 1 .. n : i \in 1 .. n + 1
    BY <1>1
  <2>2. Entries(h) = {h[i] : i \in 1 .. n} /\ Entries(g) = {g[i] : i \in 1 .. n + 1}
    BY <1>2 DEF Entries, n
  <2> QED BY <1>2, <1>4, <2>1, <2>2
<1> QED BY <1>2, <1>5, <1>6 DEF Once, g, n

\* The first of a heap replaced by another row.
LEMMA RootReplaced ==
  ASSUME NEW R, NEW order, NEW h, h \in Seq(R), Once(h), Len(h) > 0, HeapFrom(h, order, 1), NEW x, x \notin R
  PROVE  /\ [h EXCEPT ![1] = x] \in Seq(R \cup {x}) /\ Once([h EXCEPT ![1] = x])
         /\ Len([h EXCEPT ![1] = x]) = Len(h) /\ HeapFrom([h EXCEPT ![1] = x], order, 2)
         /\ Entries([h EXCEPT ![1] = x]) = {x} \cup {h[p] : p \in 2 .. Len(h)}
<1> DEFINE g == [h EXCEPT ![1] = x]
           n == Len(h)
<1>1. n \in Nat \ {0} /\ \A i \in 1 .. n : h[i] \in R
  OBVIOUS
<1>2. g \in Seq(R \cup {x}) /\ Len(g) = n /\ g[1] = x /\ \A i \in 2 .. n : g[i] = h[i]
  <2>1. h \in Seq(R \cup {x})
    OBVIOUS
  <2> QED BY <2>1
<1> HIDE DEF g
<1>3. \A i, j \in 1 .. n : h[i] = h[j] => i = j
  BY DEF Once
<1>4. \A p \in 1 .. n, c \in 1 .. n : Child(p, c) => <<h[c], h[p]>> \notin order
  BY DEF HeapFrom
<1> HIDE DEF n
<1>5. \A i \in 1 .. n : i = 1 \/ i \in 2 .. n
  BY <1>1
<1>6. \A i, j \in 1 .. n : g[i] = g[j] => i = j
  BY <1>1, <1>2, <1>3, <1>5
<1>7. \A p \in 2 .. n, c \in 1 .. n : Child(p, c) => <<g[c], g[p]>> \notin order
  <2> SUFFICES ASSUME NEW p \in 2 .. n, NEW c \in 1 .. n, Child(p, c) PROVE <<g[c], g[p]>> \notin order
    OBVIOUS
  <2>1. c \in 2 .. n /\ p \in 1 .. n
    BY <1>1 DEF Child
  <2> QED BY <1>2, <1>4, <2>1
<1>8. Entries(g) = {x} \cup {h[p] : p \in 2 .. n}
  <2>1. Entries(g) = {g[i] : i \in 1 .. n} /\ 1 \in 1 .. n /\ \A i \in 2 .. n : i \in 1 .. n
    BY <1>1, <1>2 DEF Entries
  <2> QED BY <1>2, <1>5, <2>1
<1> QED BY <1>2, <1>6, <1>7, <1>8 DEF Once, HeapFrom, g, n

\* A row offered is kept where it belongs.
LEMMA OfferKeeps ==
  ASSUME NEW k \in Nat \ {0}, NEW order, NEW R, NEW row, row \notin R, NEW vp,
         Bit(vp, row) => StrictOrder(R \cup {row}, order),
         NEW h, Kept(k, order, R, h)
  PROVE  Kept(k, order, IF Bit(vp, row) THEN R \cup {row} ELSE R, Offer(h, row, k, vp, order))
<1> DEFINE S == R \cup {row}
           n == Len(h)
<1>1. /\ h \in Seq(R) /\ Once(h) /\ n <= k /\ n \in Nat
      /\ n < k => Entries(h) = R
      /\ n = k => /\ HeapFrom(h, order, 1)
                  /\ \A r \in R : r \in Entries(h) \/ \A p \in 1 .. n : <<r, h[p]>> \in order
      /\ h \in Seq(S)
  BY DEF Kept
<1>2. CASE ~Bit(vp, row)
  BY <1>2 DEF Offer
<1>3. CASE Bit(vp, row) /\ n < k
  <2> DEFINE g == Append(h, row)
  <2>1. g \in Seq(S) /\ Once(g) /\ Len(g) = n + 1 /\ Entries(g) = Entries(h) \cup {row}
    BY <1>1, OnceAppended
  <2>2. Entries(g) = S
    BY <1>1, <1>3, <2>1
  <2>3. CASE n + 1 = k
    <3> DEFINE f == HeapBuild(g, order)
    <3>1. Offer(h, row, k, vp, order) = f
      BY <1>3, <2>3 DEF Offer
    <3> HIDE DEF g, S
    <3>2. StrictOrder(S, order)
      BY <1>3 DEF S
    <3>3. Rearranged(S, g, f) /\ HeapFrom(f, order, 1)
      BY <2>1, <3>2, HeapBuildKeeps
    <3> HIDE DEF f
    <3>4. f \in Seq(S) /\ Once(f) /\ Len(f) = k /\ Entries(f) = S
      BY <2>1, <2>2, <2>3, <3>3 DEF Rearranged, Once
    <3>5. Kept(k, order, S, f)
      BY <3>3, <3>4 DEF Kept
    <3> QED BY <1>3, <3>1, <3>5 DEF S
  <2>4. CASE n + 1 # k
    <3>1. Offer(h, row, k, vp, order) = g
      BY <1>3, <2>4 DEF Offer
    <3>2. Len(g) < k
      BY <1>1, <1>3, <2>1, <2>4
    <3> HIDE DEF g, S
    <3>3. Kept(k, order, S, g)
      BY <2>1, <2>2, <3>2 DEF Kept
    <3> QED BY <1>3, <3>1, <3>3 DEF S
  <2> QED BY <2>3, <2>4
<1>4. CASE Bit(vp, row) /\ ~(n < k)
  <2>1. /\ n = k /\ 1 \in 1 .. n /\ n > 0 /\ HeapFrom(h, order, 1)
        /\ \A r \in R : r \in Entries(h) \/ \A p \in 1 .. n : <<r, h[p]>> \in order
    BY <1>1, <1>4
  <2>2. /\ \A p \in 1 .. n : h[p] \in R /\ h[p] \in S /\ h[p] # row
        /\ \A i, j \in 1 .. n : h[i] = h[j] => i = j
        /\ row \in S /\ R \subseteq S
    BY <1>1 DEF Once
  <2>2a. StrictOrder(S, order)
    BY <1>4
  <2> HIDE DEF S
  <2>3. \A p \in 1 .. n : p # 1 => <<h[1], h[p]>> \in order
    <3>1. \A p \in 1 .. n : <<h[p], h[1]>> \notin order
      BY <1>1, <2>1, <2>2a, RootFirst
    <3> QED BY <2>1, <2>2, <2>2a, <3>1 DEF StrictOrder
  <2>4. CASE <<h[1], row>> \in order
    <3> DEFINE g == [h EXCEPT ![1] = row]
               f == SiftDown(g, 1, order)
    <3>1. Offer(h, row, k, vp, order) = f
      BY <1>4, <2>4 DEF Offer
    <3>2. /\ g \in Seq(S) /\ Once(g) /\ Len(g) = n /\ HeapFrom(g, order, 2)
          /\ Entries(g) = {row} \cup {h[p] : p \in 2 .. n}
      BY <1>1, <2>1, RootReplaced DEF S
    <3> HIDE DEF g
    <3>3. Rearranged(S, g, f) /\ HeapFrom(f, order, 1)
      <4>1. 1 <= Len(g) /\ HeapFrom(g, order, 1 + 1) /\ 1 \in Nat \ {0}
        BY <2>1, <3>2
      <4> QED BY <2>2a, <3>2, <4>1, SiftDownKeeps
    <3> HIDE DEF f
    <3>4. f \in Seq(S) /\ Once(f) /\ Len(f) = k /\ Entries(f) = Entries(g)
      BY <2>1, <3>2, <3>3 DEF Rearranged, Once
    <3>5. ASSUME NEW r \in S, r \notin Entries(f) PROVE \A p \in 1 .. Len(f) : <<r, f[p]>> \in order
      <4>1. r \in R /\ r # row
        BY <3>2, <3>4, <3>5 DEF S
      <4>2. <<r, row>> \in order /\ \A p \in 2 .. n : <<r, h[p]>> \in order
        <5>1. CASE r = h[1]
          <6>1. \A p \in 2 .. n : p \in 1 .. n /\ p # 1
            OBVIOUS
          <6> QED BY <2>3, <2>4, <5>1, <6>1
        <5>2. CASE r # h[1]
          <6>1. r \notin Entries(h)
            <7> SUFFICES ASSUME NEW p \in 1 .. n, r = h[p] PROVE FALSE
              BY DEF Entries
            <7>1. p \in 2 .. n
              BY <1>1, <5>2
            <7> QED BY <3>2, <3>4, <3>5, <7>1
          <6>2. \A p \in 1 .. n : <<r, h[p]>> \in order
            BY <2>1, <4>1, <6>1
          <6>3. <<r, row>> \in order
            BY <2>1, <2>2, <2>2a, <2>4, <6>2 DEF StrictOrder
          <6> QED BY <6>2, <6>3
        <5> QED BY <5>1, <5>2
      <4>3. ASSUME NEW p \in 1 .. Len(f) PROVE <<r, f[p]>> \in order
        <5>1. f[p] \in Entries(f)
          BY DEF Entries
        <5>2. f[p] = row \/ \E q \in 2 .. n : f[p] = h[q]
          BY <3>2, <3>4, <5>1
        <5> QED BY <4>2, <5>2
      <4> QED BY <4>3
    <3>6. Kept(k, order, S, f)
      BY <3>3, <3>4, <3>5 DEF Kept
    <3> QED BY <1>4, <3>1, <3>6 DEF S
  <2>5. CASE <<h[1], row>> \notin order
    <3>1. Offer(h, row, k, vp, order) = h
      BY <1>4, <2>5 DEF Offer
    <3>2. <<row, h[1]>> \in order
      BY <2>1, <2>2, <2>2a, <2>5 DEF StrictOrder
    <3>3. \A p \in 1 .. n : <<row, h[p]>> \in order
      BY <2>1, <2>2, <2>2a, <2>3, <3>2 DEF StrictOrder
    <3>4. \A r \in S : r \in Entries(h) \/ \A p \in 1 .. n : <<r, h[p]>> \in order
      BY <2>1, <3>3 DEF S
    <3>5. Kept(k, order, S, h)
      BY <1>1, <2>1, <3>4 DEF Kept, S
    <3> QED BY <1>4, <3>1, <3>5 DEF S
  <2> QED BY <2>4, <2>5
<1> QED BY <1>2, <1>3, <1>4

\* Fewer than k rows, or k of them.
LEMMA LeastOf ==
  ASSUME NEW a \in Nat, NEW b \in Nat, NEW l \in Nat, l = IF a < b THEN a ELSE b
  PROVE  Min({a, b}) = l
<1>1. l \in {a, b} /\ \A y \in {a, b} : l <= y
  OBVIOUS
<1>2. \A x \in {a, b} : (\A y \in {a, b} : x <= y) => x = l
  BY <1>1
<1> HIDE DEF Min
<1>3. Min({a, b}) = CHOOSE x \in {a, b} : \A y \in {a, b} : x <= y
  BY Zenon DEF Min
<1> QED BY <1>1, <1>2, <1>3

\* The first rows of R in the order before, as many as k.
FirstOf(k, before, R, s) ==
  /\ Len(s) = Min({k, Cardinality(R)}) /\ s \in Seq(R)
  /\ \A p \in 1 .. Len(s) : Cardinality(Behind(R, before, s[p])) = p - 1

\* The rows kept in the order asked for.
LEMMA KeptInOrder ==
  ASSUME NEW k \in Nat \ {0}, NEW worse, NEW before, NEW R, IsFiniteSet(R), StrictOrder(R, before),
         \A x, y \in R : <<x, y>> \in worse <=> <<y, x>> \in before,
         NEW h, Kept(k, worse, R, h)
  PROVE  FirstOf(k, before, R, InsertionSort(h, k, before))
<1> DEFINE S == Entries(h)
           n == Len(h)
           place == [x \in S |-> CHOOSE i \in 1 .. n : h[i] = x]
           s == InsertionSort(h, k, before)
<1>1. /\ h \in Seq(R) /\ n \in Nat /\ n <= k
      /\ \A i, j \in 1 .. n : h[i] = h[j] => i = j
      /\ n < k => S = R
      /\ n = k => \A r \in R : r \in S \/ \A p \in 1 .. n : <<r, h[p]>> \in worse
  BY DEF Kept, Once
<1>2. S = {h[i] : i \in 1 .. n} /\ S \subseteq R /\ h \in Seq(S)
  <2>1. S = {h[i] : i \in 1 .. n}
    BY DEF Entries
  <2>2. h \in [1 .. n -> S]
    BY <1>1, <2>1
  <2>3. S \subseteq R
    BY <1>1, <2>1
  <2> HIDE DEF S
  <2>4. h \in Seq(S)
    <3>1. n \in Nat /\ DOMAIN h = 1 .. n
      BY <1>1
    <3> HIDE DEF n
    <3> QED BY ONLY <2>2, <3>1
  <2> QED BY <2>1, <2>3, <2>4
<1> HIDE DEF S
<1>3. \A i \in 1 .. n : place[h[i]] = i /\ h[i] \in S
  BY <1>1, <1>2
<1>4. place \in [S -> Nat]
  <2>1. ASSUME NEW x \in S PROVE (CHOOSE i \in 1 .. n : h[i] = x) \in Nat
    <3>1. PICK i \in 1 .. n : h[i] = x
      BY <1>2
    <3> QED BY <1>1, <3>1
  <2> QED BY <2>1
<1> HIDE DEF place
<1>5. /\ \A x, y \in S : ~(<<x, y>> \in before /\ <<y, x>> \in before)
      /\ \A x, y \in S : x # y => <<x, y>> \in before \/ <<y, x>> \in before
      /\ \A x, y, z \in S : <<x, y>> \in before /\ <<y, z>> \in before => <<x, z>> \in before
  BY <1>2 DEF StrictOrder
<1>6. Stable(S, place, before, before)
  <2>1. ASSUME NEW x \in S, NEW y \in S, place[x] < place[y]
        PROVE  IF <<y, x>> \in before THEN <<y, x>> \in before ELSE <<x, y>> \in before
    <3>1. x # y
      BY <1>4, <2>1
    <3> QED BY <1>5, <3>1
  <2> QED BY <1>4, <1>5, <2>1 DEF Stable
<1>7. Arranged(S, place, before, n, 0 .. n, h)
  <2>1. Elements(h, 0, n) = S
    BY <1>2 DEF Elements
  <2>2. \A c \in 0 .. n, i \in 1 .. n : i <= c <=> place[h[i]] <= c
    BY <1>3
  <2>3. \A i, j \in 1 .. n : i < j /\ (\A c \in 0 .. n : ~(i <= c /\ c < j)) => <<h[i], h[j]>> \in before
    <3> SUFFICES ASSUME NEW i \in 1 .. n, NEW j \in 1 .. n, i < j, \A c \in 0 .. n : ~(i <= c /\ c < j)
                 PROVE  FALSE
      OBVIOUS
    <3>1. i \in 0 .. n /\ i <= i
      BY <1>1
    <3> QED BY <3>1
  <2> QED BY <1>2, <2>1, <2>2, <2>3 DEF Arranged
<1>8. Arranged(S, place, before, n, RunCuts(n, k), s)
  BY <1>1, <1>6, <1>7, InsertionSortArranges
<1> HIDE DEF s
<1>9. s \in Seq(S) /\ Len(s) = n /\ Elements(s, 0, n) = S
  BY <1>8 DEF Arranged
<1>10. Ordered(s, 0, n, before)
  <2>1. RunCuts(n, k) \subseteq {0, n}
    BY <1>1, CutsOfLoops
  <2>2. RunCuts(n, k) \subseteq 0 .. n /\ \A c \in RunCuts(n, k) : ~(0 < c /\ c < n)
    BY <1>1, <2>1
  <2>3. 0 \in 0 .. n /\ n \in 0 .. n /\ 0 <= n
    BY <1>1
  <2> HIDE DEF n
  <2> QED BY <1>1, <1>4, <1>8, <2>2, <2>3, RunsOfCuts
<1>11. Entries(s) = S /\ s \in Seq(R) /\ \A p \in 1 .. n : s[p] \in S
  <2>1. Entries(s) = S
    BY <1>9 DEF Entries, Elements
  <2> QED BY <1>2, <1>9, <2>1
<1>12. Strictly(R, before, s)
  <2>1. \A i, j \in 1 .. Len(s) : i < j => <<s[i], s[j]>> \in before
    BY <1>9, <1>10 DEF Ordered
  <2>2. \A x, y \in R : ~(<<x, y>> \in before /\ <<y, x>> \in before)
    BY DEF StrictOrder
  <2> QED BY <1>11, <2>1, <2>2 DEF Strictly
<1>13. /\ Cardinality(S) = n
       /\ \A p \in 1 .. n : \A set : RankKnown(R, set, before, s, p) => Cardinality(Behind(set, before, s[p])) = p - 1
  <2>1. /\ Cardinality(Entries(s)) = Len(s)
        /\ \A p \in 1 .. Len(s) : \A set :
             RankKnown(R, set, before, s, p) => Cardinality(Behind(set, before, s[p])) = p - 1
    BY <1>12, RankInList
  <2> QED BY <1>9, <1>11, <2>1
<1>14. ASSUME NEW p \in 1 .. n PROVE RankKnown(R, R, before, s, p)
  <2>1. \A i \in 1 .. p - 1 : s[i] \in R
    <3>1. \A i \in 1 .. p - 1 : i \in 1 .. n
      BY <1>1
    <3> QED BY <1>2, <1>11, <3>1
  <2>2. ASSUME NEW x \in R, <<x, s[p]>> \in before PROVE \E i \in 1 .. Len(s) : x = s[i]
    <3>1. x \in S
      <4>1. CASE n < k
        BY <1>1, <4>1
      <4>2. CASE n = k
        <5>1. PICK q \in 1 .. n : s[p] = h[q]
          BY <1>2, <1>11
        <5>2. s[p] \in R
          BY <1>2, <1>11
        <5>3. x \in S \/ <<x, s[p]>> \in worse
          BY <1>1, <4>2, <5>1
        <5>4. ~(<<s[p], x>> \in before)
          BY <2>2, <5>2 DEF StrictOrder
        <5> QED BY <5>2, <5>3, <5>4
      <4> QED BY <1>1, <4>1, <4>2
    <3>2. x \in Entries(s)
      BY <1>11, <3>1
    <3> QED BY <3>2 DEF Entries
  <2> QED BY <2>1, <2>2 DEF RankKnown
<1>15. Len(s) = Min({k, Cardinality(R)})
  <2>1. Cardinality(R) \in Nat /\ Cardinality(S) <= Cardinality(R)
    BY <1>2, FS_CardinalityType, FS_Subset
  <2>2. n = IF k < Cardinality(R) THEN k ELSE Cardinality(R)
    BY <1>1, <1>13, <2>1
  <2> QED BY <1>1, <1>9, <2>1, <2>2, LeastOf
<1>16. \A p \in 1 .. Len(s) : Cardinality(Behind(R, before, s[p])) = p - 1
  BY <1>9, <1>13, <1>14
<1> QED BY <1>11, <1>15, <1>16 DEF FirstOf, s

\* A row is to be replaced before another where it comes behind it.
LEMMA WorseByKey ==
  ASSUME NEW col, NEW largest \in BOOLEAN, NEW x \in Nat, NEW y \in Nat,
         Bit(col.vp, x), Bit(col.vp, y), col.data[x] \in NegInf .. NaN, col.data[y] \in NegInf .. NaN
  PROVE  /\ SortKey(col, largest, x) \in Int /\ SortKey(col, largest, y) \in Int
         /\ OutputLess(col, largest, x, y) <=>
              \/ SortKey(col, largest, x) < SortKey(col, largest, y)
              \/ SortKey(col, largest, x) = SortKey(col, largest, y) /\ x < y
         /\ HeapLess(col, largest, y, x) <=> OutputLess(col, largest, x, y)
<1> DEFINE v == col.data[x]
           w == col.data[y]
<1>1. PosInf \in Nat /\ PosInf >= 1 /\ NaN = PosInf + 1 /\ NegInf = -PosInf
  BY PosInfAssumption DEF NaN, NegInf
<1>2. v \in Int /\ w \in Int /\ v <= NaN /\ w <= NaN /\ NaN \in Int
  BY <1>1
<1>3. /\ SortKey(col, largest, x) = IF largest THEN -v ELSE v
      /\ SortKey(col, largest, y) = IF largest THEN -w ELSE w
  BY DEF SortKey
<1>4. OutputLess(col, largest, x, y) <=>
        IF largest THEN Over(v, w) \/ (~Over(w, v) /\ x < y) ELSE Over(w, v) \/ (~Over(v, w) /\ x < y)
  BY DEF OutputLess
<1>5. HeapLess(col, largest, y, x) <=>
        IF largest THEN Over(v, w) \/ (~Over(w, v) /\ y > x) ELSE Over(w, v) \/ (~Over(v, w) /\ y > x)
  BY DEF HeapLess
<1> HIDE DEF v, w
<1>6. (Over(v, w) <=> w < v) /\ (Over(w, v) <=> v < w)
  BY <1>2 DEF Over, Below
<1>7. SortKey(col, largest, x) \in Int /\ SortKey(col, largest, y) \in Int
  BY <1>2, <1>3
<1>8. CASE largest
  <2>1. (-v < -w <=> w < v) /\ (-v = -w <=> ~(v < w) /\ ~(w < v)) /\ (x < y <=> y > x)
    BY <1>2
  <2>2. SortKey(col, largest, x) = -v /\ SortKey(col, largest, y) = -w
    BY <1>3, <1>8
  <2>3. OutputLess(col, largest, x, y) <=> w < v \/ (~(v < w) /\ x < y)
    BY <1>4, <1>6, <1>8
  <2>4. HeapLess(col, largest, y, x) <=> w < v \/ (~(v < w) /\ x < y)
    BY <1>5, <1>6, <1>8, <2>1
  <2>5. \/ SortKey(col, largest, x) < SortKey(col, largest, y)
        \/ SortKey(col, largest, x) = SortKey(col, largest, y) /\ x < y
        <=> w < v \/ (~(v < w) /\ x < y)
    BY <1>2, <2>1, <2>2
  <2> QED BY <1>7, <2>3, <2>4, <2>5
<1>9. CASE ~largest
  BY <1>2, <1>3, <1>4, <1>5, <1>6, <1>7, <1>9
<1> QED BY <1>8, <1>9

\* The rows before row i that are no null.
KnownUpTo(vp, i) == {r \in 0 .. i - 1 : Bit(vp, r)}

LEMMA OfferNext ==
  ASSUME NEW k \in Nat \ {0}, NEW n \in Nat, NEW vp, NEW order, StrictOrder(KnownUpTo(vp, n), order),
         NEW i \in 1 .. n, NEW h, Kept(k, order, KnownUpTo(vp, i - 1), h)
  PROVE  Kept(k, order, KnownUpTo(vp, i), Offer(h, i - 1, k, vp, order))
<1> DEFINE R == KnownUpTo(vp, i - 1)
           row == i - 1
<1>1. row \notin R /\ KnownUpTo(vp, i) = IF Bit(vp, row) THEN R \cup {row} ELSE R
  <2>1. \A r \in 0 .. i - 1 : r \in 0 .. (i - 1) - 1 \/ r = i - 1
    OBVIOUS
  <2>2. i - 1 \in 0 .. i - 1 /\ i - 1 \notin 0 .. (i - 1) - 1 /\ \A r \in 0 .. (i - 1) - 1 : r \in 0 .. i - 1
    OBVIOUS
  <2> QED BY <2>1, <2>2 DEF KnownUpTo
<1>2. Bit(vp, row) => StrictOrder(R \cup {row}, order)
  <2> SUFFICES ASSUME Bit(vp, row) PROVE StrictOrder(R \cup {row}, order)
    OBVIOUS
  <2>1. KnownUpTo(vp, i) \subseteq KnownUpTo(vp, n)
    BY DEF KnownUpTo
  <2>2. R \cup {row} \subseteq KnownUpTo(vp, n)
    BY <1>1, <2>1
  <2> HIDE DEF R, row
  <2> QED BY <2>2 DEF StrictOrder
<1>3. Kept(k, order, R, h)
  OBVIOUS
<1> HIDE DEF R, row
<1>4. Kept(k, order, IF Bit(vp, row) THEN R \cup {row} ELSE R, Offer(h, row, k, vp, order))
  BY <1>1, <1>2, <1>3, OfferKeeps
<1> QED BY <1>1, <1>4 DEF row

LEMMA NoneKept ==
  ASSUME NEW k \in Nat \ {0}, NEW vp, NEW order
  PROVE  Kept(k, order, KnownUpTo(vp, 0), << >>)
<1>1. KnownUpTo(vp, 0) = {}
  BY DEF KnownUpTo
<1>2. << >> \in Seq({}) /\ Len(<< >>) = 0 /\ Entries(<< >>) = {} /\ Once(<< >>)
  BY DEF Entries, Once
<1>3. Kept(k, order, {}, << >>)
  BY <1>2 DEF Kept
<1> QED BY <1>1, <1>3

\* The rows kept after each row offered.
Offers(loop, k, n, vp, order) ==
  loop = [i \in 0 .. n |-> IF i = 0 THEN << >> ELSE Offer(loop[i - 1], i - 1, k, vp, order)]

LEMMA OffersExist ==
  ASSUME NEW k \in Nat \ {0}, NEW n \in Nat, NEW vp, NEW order, StrictOrder(KnownUpTo(vp, n), order)
  PROVE  \E loop : Offers(loop, k, n, vp, order)
<1> DEFINE All == Seq(KnownUpTo(vp, n))
           A == [i \in 0 .. n |-> {h \in All : Kept(k, order, KnownUpTo(vp, i), h)}]
           step == [x \in (1 .. n) \X All |-> Offer(x[2], x[1] - 1, k, vp, order)]
<1>1. \A i \in 0 .. n : \A h : Kept(k, order, KnownUpTo(vp, i), h) => h \in A[i]
  <2> SUFFICES ASSUME NEW i \in 0 .. n, NEW h, Kept(k, order, KnownUpTo(vp, i), h) PROVE h \in A[i]
    OBVIOUS
  <2>1. KnownUpTo(vp, i) \subseteq KnownUpTo(vp, n)
    BY DEF KnownUpTo
  <2>2. h \in Seq(KnownUpTo(vp, i))
    BY DEF Kept
  <2>3. h \in All
    BY <2>1, <2>2
  <2> HIDE DEF All
  <2> QED BY <2>3
<1>2. \A i \in 0 .. n : \A h \in A[i] : h \in All /\ Kept(k, order, KnownUpTo(vp, i), h)
  OBVIOUS
<1> HIDE DEF A, All
<1>3. << >> \in A[0]
  BY <1>1, NoneKept
<1>4. ASSUME NEW i \in 1 .. n, NEW h \in A[i - 1]
      PROVE  step[<<i, h>>] = Offer(h, i - 1, k, vp, order) /\ Offer(h, i - 1, k, vp, order) \in A[i]
  <2>1. i \in 0 .. n /\ i - 1 \in 0 .. n
    OBVIOUS
  <2>2. h \in All /\ Kept(k, order, KnownUpTo(vp, i - 1), h)
    BY <1>2, <2>1
  <2>3. Kept(k, order, KnownUpTo(vp, i), Offer(h, i - 1, k, vp, order))
    BY <2>2, OfferNext
  <2>4. step[<<i, h>>] = Offer(h, i - 1, k, vp, order)
    BY <2>2
  <2> QED BY <1>1, <2>1, <2>3, <2>4
<1> HIDE DEF step
<1>5. PICK f : Steps(f, n, A, << >>, step)
  <2>1. \A i \in 1 .. n : \A h \in A[i - 1] : step[<<i, h>>] \in A[i]
    BY <1>4
  <2> QED BY <1>3, <2>1, Recursion
<1>6. /\ f = [i \in 0 .. n |-> IF i = 0 THEN << >> ELSE step[<<i, f[i - 1]>>]]
      /\ \A i \in 0 .. n : f[i] \in A[i]
  BY <1>5 DEF Steps
<1>7. \A i \in 0 .. n : (IF i = 0 THEN << >> ELSE step[<<i, f[i - 1]>>])
                          = IF i = 0 THEN << >> ELSE Offer(f[i - 1], i - 1, k, vp, order)
  <2> SUFFICES ASSUME NEW i \in 0 .. n, i # 0 PROVE step[<<i, f[i - 1]>>] = Offer(f[i - 1], i - 1, k, vp, order)
    OBVIOUS
  <2>1. i \in 1 .. n /\ i - 1 \in 0 .. n
    OBVIOUS
  <2> QED BY <1>4, <1>6, <2>1
<1>8. Offers(f, k, n, vp, order)
  BY <1>6, <1>7 DEF Offers
<1> QED BY <1>8

\* The rows kept once all have been offered.
LEMMA OffersKeep ==
  ASSUME NEW k \in Nat \ {0}, NEW n \in Nat, NEW vp, NEW order, StrictOrder(KnownUpTo(vp, n), order),
         NEW loop, Offers(loop, k, n, vp, order)
  PROVE  Kept(k, order, KnownUpTo(vp, n), loop[n])
<1> DEFINE G == {i \in 0 .. n : Kept(k, order, KnownUpTo(vp, i), loop[i])}
<1>1. \A i \in 0 .. n : loop[i] = IF i = 0 THEN << >> ELSE Offer(loop[i - 1], i - 1, k, vp, order)
  BY DEF Offers
<1>2. 0 \in G
  BY <1>1, NoneKept
<1>3. ASSUME NEW i \in 1 .. n, i - 1 \in G PROVE i \in G
  <2>1. i \in 0 .. n /\ i # 0 /\ loop[i] = Offer(loop[i - 1], i - 1, k, vp, order)
    BY <1>1
  <2>2. Kept(k, order, KnownUpTo(vp, i - 1), loop[i - 1])
    BY <1>3
  <2>3. Kept(k, order, KnownUpTo(vp, i), Offer(loop[i - 1], i - 1, k, vp, order))
    BY <2>2, OfferNext
  <2> QED BY <2>1, <2>3
<1> HIDE DEF G
<1>4. \A i \in 0 .. n : i \in G
  BY <1>2, <1>3, StepByStep
<1> QED BY <1>4 DEF G

\* What topk is to return of the n rows of a column.
TopExact(col, k, n, largest, s) ==
  LET R == {r \in 0 .. n - 1 : Bit(col.vp, r)}
      key(row) == SortKey(col, largest, row)
  IN /\ Len(s) = Min({k, Cardinality(R)}) /\ DOMAIN s = 1 .. Len(s)
     /\ \A p \in 1 .. Len(s) :
          /\ s[p] \in R
          /\ Cardinality({r \in R : key(r) < key(s[p]) \/ (key(r) = key(s[p]) /\ r < s[p])}) = p - 1

LEMMA TopKComputes ==
  ASSUME NEW col, NEW k \in Nat, NEW n \in Nat, NEW largest \in BOOLEAN,
         \A i \in 0 .. n - 1 : Bit(col.vp, i) => col.data[i] \in NegInf .. NaN
  PROVE  TopExact(col, k, n, largest, TopK(col, k, n, largest))
<1> DEFINE span == 0 .. n - 1
           worse == {p \in span \X span : HeapLess(col, largest, p[1], p[2])}
           before == {p \in span \X span : OutputLess(col, largest, p[1], p[2])}
           R == {r \in span : Bit(col.vp, r)}
           key(x) == SortKey(col, largest, x)
           s == TopK(col, k, n, largest)
<1>1. R = KnownUpTo(col.vp, n) /\ R \subseteq span /\ IsFiniteSet(R) /\ Cardinality(R) \in Nat
  <2>1. IsFiniteSet(span)
    BY FS_Interval
  <2> QED BY <2>1, FS_Subset, FS_CardinalityType DEF KnownUpTo
<1>2. CASE k = 0 \/ n = 0
  <2>1. s = << >> /\ Len(s) = 0 /\ DOMAIN s = {} /\ 1 .. Len(s) = {}
    BY <1>2 DEF TopK
  <2>2. Min({k, Cardinality(R)}) = 0
    <3>1. n = 0 => R = {}
      OBVIOUS
    <3>2. Cardinality({}) = 0
      BY FS_EmptySet
    <3>3. 0 = IF k < Cardinality(R) THEN k ELSE Cardinality(R)
      BY <1>1, <1>2, <3>1, <3>2
    <3> HIDE DEF R
    <3> QED BY <1>1, <3>3, LeastOf
  <2> HIDE DEF s, key
  <2>3. TopExact(col, k, n, largest, s)
    <3>1. \A p \in 1 .. Len(s) : FALSE
      BY <2>1
    <3>2. Len(s) = Min({k, Cardinality(R)}) /\ DOMAIN s = 1 .. Len(s)
      BY <2>1, <2>2
    <3> QED BY <3>1, <3>2, Zenon DEF TopExact
  <2> QED BY <2>3 DEF s
<1>3. CASE k # 0 /\ n # 0
  <2> DEFINE IsLoop(f) == f = [i \in 0 .. n |-> IF i = 0 THEN << >> ELSE Offer(f[i - 1], i - 1, k, col.vp, worse)]
             loop == CHOOSE f : IsLoop(f)
  <2>1. s = InsertionSort(loop[n], k, before)
    BY <1>3 DEF TopK
  <2>2. \A x, y \in R :
          /\ key(x) \in Int /\ key(y) \in Int /\ x \in Int /\ y \in Int
          /\ <<x, y>> \in before <=> (key(x) < key(y) \/ (key(x) = key(y) /\ x < y))
          /\ <<y, x>> \in worse <=> <<x, y>> \in before
    <3> SUFFICES ASSUME NEW x \in R, NEW y \in R
                 PROVE  /\ key(x) \in Int /\ key(y) \in Int /\ x \in Int /\ y \in Int
                        /\ <<x, y>> \in before <=> (key(x) < key(y) \/ (key(x) = key(y) /\ x < y))
                        /\ <<y, x>> \in worse <=> <<x, y>> \in before
      OBVIOUS
    <3>1. /\ x \in Nat /\ y \in Nat /\ x \in span /\ y \in span /\ Bit(col.vp, x) /\ Bit(col.vp, y)
          /\ col.data[x] \in NegInf .. NaN /\ col.data[y] \in NegInf .. NaN
      OBVIOUS
    <3>2. <<x, y>> \in before <=> OutputLess(col, largest, x, y)
      BY <3>1
    <3>3. <<y, x>> \in worse <=> HeapLess(col, largest, y, x)
      BY <3>1
    <3> HIDE DEF before, worse, R
    <3>4. /\ SortKey(col, largest, x) \in Int /\ SortKey(col, largest, y) \in Int
          /\ OutputLess(col, largest, x, y) <=>
               \/ SortKey(col, largest, x) < SortKey(col, largest, y)
               \/ SortKey(col, largest, x) = SortKey(col, largest, y) /\ x < y
          /\ HeapLess(col, largest, y, x) <=> OutputLess(col, largest, x, y)
      BY <3>1, WorseByKey
    <3> QED BY <3>1, <3>2, <3>3, <3>4
  <2> HIDE DEF before, worse, R, key, s
  <2>3. StrictOrder(R, before)
    <3>1. ASSUME NEW x \in R, NEW y \in R PROVE ~(<<x, y>> \in before /\ <<y, x>> \in before)
      BY <2>2
    <3>2. ASSUME NEW x \in R, NEW y \in R, x # y PROVE <<x, y>> \in before \/ <<y, x>> \in before
      BY <2>2, <3>2
    <3>3. ASSUME NEW x \in R, NEW y \in R, NEW z \in R, <<x, y>> \in before, <<y, z>> \in before
          PROVE  <<x, z>> \in before
      <4>1. /\ key(x) \in Int /\ key(y) \in Int /\ key(z) \in Int /\ x \in Int /\ y \in Int /\ z \in Int
            /\ key(x) < key(y) \/ (key(x) = key(y) /\ x < y)
            /\ key(y) < key(z) \/ (key(y) = key(z) /\ y < z)
        BY <2>2, <3>3
      <4>2. key(x) < key(z) \/ (key(x) = key(z) /\ x < z)
        BY <4>1
      <4> QED BY <2>2, <4>2
    <3> QED BY <3>1, <3>2, <3>3 DEF StrictOrder
  <2>4. StrictOrder(R, worse)
    BY <2>2, <2>3 DEF StrictOrder
  <2>5. IsLoop(loop)
    <3>1. \E f : Offers(f, k, n, col.vp, worse)
      BY <1>1, <1>3, <2>4, OffersExist
    <3>2. \E f : IsLoop(f)
      BY <3>1 DEF Offers
    <3> HIDE DEF IsLoop
    <3> QED BY <3>2
  <2>6. Kept(k, worse, R, loop[n])
    <3>1. Offers(loop, k, n, col.vp, worse)
      BY <2>5 DEF Offers
    <3> HIDE DEF loop
    <3> QED BY <1>1, <1>3, <2>4, <3>1, OffersKeep
  <2> HIDE DEF loop
  <2>7. FirstOf(k, before, R, s)
    <3>1. FirstOf(k, before, R, InsertionSort(loop[n], k, before))
      BY <1>1, <1>3, <2>2, <2>3, <2>6, KeptInOrder
    <3> QED BY <2>1, <3>1
  <2>8. /\ Len(s) = Min({k, Cardinality(R)}) /\ s \in Seq(R) /\ DOMAIN s = 1 .. Len(s)
        /\ \A p \in 1 .. Len(s) : s[p] \in R /\ Cardinality(Behind(R, before, s[p])) = p - 1
    <3>1. /\ Len(s) = Min({k, Cardinality(R)}) /\ s \in Seq(R)
          /\ \A p \in 1 .. Len(s) : Cardinality(Behind(R, before, s[p])) = p - 1
      BY <2>7, Zenon DEF FirstOf
    <3>2. DOMAIN s = 1 .. Len(s) /\ \A p \in 1 .. Len(s) : s[p] \in R
      BY <3>1
    <3> QED BY <3>1, <3>2, Zenon
  <2>9. \A x \in R : Behind(R, before, x) = {r \in R : key(r) < key(x) \/ (key(r) = key(x) /\ r < x)}
    BY <2>2 DEF Behind
  <2>10. \A p \in 1 .. Len(s) :
           /\ s[p] \in R
           /\ Cardinality({r \in R : key(r) < key(s[p]) \/ (key(r) = key(s[p]) /\ r < s[p])}) = p - 1
    BY <2>8, <2>9
  <2>11. R = {r \in 0 .. n - 1 : Bit(col.vp, r)}
    BY DEF R
  <2>12. TopExact(col, k, n, largest, s)
    <3>1. Len(s) = Min({k, Cardinality(R)}) /\ DOMAIN s = 1 .. Len(s)
      BY <2>8
    <3> QED BY <2>10, <2>11, <3>1, Zenon DEF TopExact, key
  <2> QED BY <2>12 DEF s
<1> QED BY <1>2, <1>3

\* topk returns the first k rows of the sorted order, ties by row, and no null, for any
\* number of rows and any k, and filter and gather move exactly the rows of the mask
\* with their validity, reading no bit of its padding (select.rs, impl_topk,
\* filter_indices and the gathers).
THEOREM SelectionOfRows == Spec => []SelectionExact
<1>1. Computed => SelectionExact
  <2> SUFFICES ASSUME Computed PROVE SelectionExact
    OBVIOUS
  <2>1. ASSUME Ran({"topk"}) PROVE TopExact(call.col, call.k, call.n, call.largest, result)
    <3>1. /\ call.k \in Nat /\ call.n \in Nat /\ call.largest \in BOOLEAN
          /\ \A i \in 0 .. call.n - 1 : Bit(call.col.vp, i) => call.col.data[i] \in NegInf .. NaN
          /\ result = TopK(call.col, call.k, call.n, call.largest)
      BY <2>1, CallsAssumption DEF Computed, Ran
    <3> QED BY <3>1, TopKComputes
  <2>2. ASSUME Ran({"filter"}) PROVE FilterExact(call, result)
    <3>1. /\ call.n \in Nat /\ (call.n > 0 => call.mask # NullPtr)
          /\ 0 .. BytesFor(call.n) - 1 \subseteq DOMAIN call.old
      BY <2>2, CallsAssumption DEF Computed, Ran
    <3>2. result = [rows |-> FilterIndices(call.mask, call.n), data |-> Filter(call.col.data, call.mask, call.n),
                    gathered |-> Gather(call.col.data, FilterIndices(call.mask, call.n)),
                    vp |-> GatherValidity(call.col.vp, FilterIndices(call.mask, call.n), call.old),
                    wide |-> ExpandMaskBool(call.mask, call.n)]
      BY <2>2 DEF Computed
    <3>3. FilterExact(call, [rows |-> FilterIndices(call.mask, call.n), data |-> Filter(call.col.data, call.mask, call.n),
                             gathered |-> Gather(call.col.data, FilterIndices(call.mask, call.n)),
                             vp |-> GatherValidity(call.col.vp, FilterIndices(call.mask, call.n), call.old),
                             wide |-> ExpandMaskBool(call.mask, call.n)])
      BY <3>1, FilterSelects
    <3> QED BY <3>2, <3>3
  <2> QED BY <2>1, <2>2, Zenon DEF SelectionExact, TopExact, FilterExact, Known
<1> QED BY <1>1, AlwaysComputed, PTL

-----------------------------------------------------------------------------
(* The loops of the reductions.                                            *)

\* f starts from a and takes these steps, in V.
Follows(f, n, V, a, step) ==
  /\ f = [k \in 0 .. n |-> IF k = 0 THEN a ELSE step[<<k, f[k - 1]>>]]
  /\ \A k \in 0 .. n : f[k] \in V

LEMMA LoopExists ==
  ASSUME NEW n \in Nat, NEW V, NEW a \in V, NEW step \in [(1 .. n) \X V -> V]
  PROVE  \E f : Follows(f, n, V, a, step)
<1> DEFINE A == [k \in 0 .. n |-> V]
<1>1. a \in A[0] /\ \A k \in 1 .. n : \A x \in A[k - 1] : step[<<k, x>>] \in A[k]
  OBVIOUS
<1>2. \A k \in 0 .. n : A[k] = V
  OBVIOUS
<1> HIDE DEF A
<1>3. PICK f : Steps(f, n, A, a, step)
  BY <1>1, Recursion
<1>4. Follows(f, n, V, a, step)
  BY <1>2, <1>3 DEF Steps, Follows
<1> QED BY <1>4

LEMMA PlusTypes == ASSUME NEW x \in Int, NEW y \in Int PROVE Plus(x, y) \in Int
BY PosInfAssumption DEF Plus, NaN

\* sum[i] is what the first i values make.
AddsUp(sum, values, n) ==
  /\ sum \in [0 .. n -> Int] /\ sum[0] = 0
  /\ \A i \in 1 .. n : sum[i] = Plus(sum[i - 1], values[i])

LEMMA AddUpIs ==
  ASSUME NEW n \in Nat, NEW values \in [1 .. n -> Int]
  PROVE  \E sum : AddsUp(sum, values, n) /\ AddUp(values, n) = sum[n]
<1> DEFINE step == [x \in (1 .. n) \X Int |-> Plus(x[2], values[x[1]])]
           IsLoop(f) == f = [i \in 0 .. n |-> IF i = 0 THEN 0 ELSE Plus(f[i - 1], values[i])]
           sum == CHOOSE f : IsLoop(f)
<1>1. step \in [(1 .. n) \X Int -> Int] /\ \A i \in 1 .. n, x \in Int : step[<<i, x>>] = Plus(x, values[i])
  BY PlusTypes
<1> HIDE DEF step
<1>2. PICK f : Follows(f, n, Int, 0, step)
  <2>1. 0 \in Int /\ step \in [(1 .. n) \X Int -> Int]
    BY <1>1
  <2> QED BY ONLY <2>1, n \in Nat, LoopExists
<1>2a. /\ f = [k \in 0 .. n |-> IF k = 0 THEN 0 ELSE step[<<k, f[k - 1]>>]]
       /\ \A k \in 0 .. n : f[k] \in Int
  BY <1>2 DEF Follows
<1>3. \A i \in 0 .. n : (IF i = 0 THEN 0 ELSE step[<<i, f[i - 1]>>]) = IF i = 0 THEN 0 ELSE Plus(f[i - 1], values[i])
  <2> SUFFICES ASSUME NEW i \in 0 .. n, i # 0 PROVE step[<<i, f[i - 1]>>] = Plus(f[i - 1], values[i])
    OBVIOUS
  <2>1. i \in 1 .. n /\ i - 1 \in 0 .. n
    OBVIOUS
  <2> QED BY <1>1, <1>2a, <2>1
<1>4. IsLoop(f)
  BY <1>2a, <1>3
<1>5. IsLoop(sum)
  <2>1. \E g : IsLoop(g)
    BY <1>4
  <2> HIDE DEF IsLoop
  <2> QED BY <2>1
<1>6. AddUp(values, n) = sum[n]
  BY DEF AddUp
<1> HIDE DEF sum
<1>7. sum = [i \in 0 .. n |-> IF i = 0 THEN 0 ELSE Plus(sum[i - 1], values[i])]
  BY <1>5
<1>8. sum[0] = 0 /\ \A i \in 1 .. n : sum[i] = Plus(sum[i - 1], values[i])
  BY <1>7
<1>9. \A i \in 0 .. n : sum[i] \in Int
  <2> DEFINE G == {i \in 0 .. n : sum[i] \in Int}
  <2>1. 0 \in G
    BY <1>8
  <2>1a. ASSUME NEW i \in 1 .. n, i - 1 \in G PROVE i \in G
    <3>1. sum[i - 1] \in Int /\ values[i] \in Int /\ sum[i] = Plus(sum[i - 1], values[i]) /\ i \in 0 .. n
      BY <1>8, <2>1a
    <3> QED BY <3>1, PlusTypes
  <2> HIDE DEF G
  <2>2. \A i \in 0 .. n : i \in G
    BY <2>1, <2>1a, StepByStep
  <2> QED BY <2>2 DEF G
<1>10. AddsUp(sum, values, n)
  BY <1>7, <1>8, <1>9 DEF AddsUp
<1> QED BY <1>6, <1>10

\* best[i] is the best of the start and the first i values.
PicksUp(best, start, values, n, least) ==
  /\ best \in [0 .. n -> Int] /\ best[0] = start
  /\ \A i \in 1 .. n : best[i] = IF Improves(least, values[i], best[i - 1]) THEN values[i] ELSE best[i - 1]

LEMMA PickUpIs ==
  ASSUME NEW n \in Nat, NEW start \in Int, NEW values \in [1 .. n -> Int], NEW least
  PROVE  \E best : PicksUp(best, start, values, n, least) /\ PickUp(start, values, n, least) = best[n]
<1> DEFINE Next1(x, v) == IF Improves(least, v, x) THEN v ELSE x
           step == [x \in (1 .. n) \X Int |-> Next1(x[2], values[x[1]])]
           IsLoop(f) == f = [i \in 0 .. n |-> IF i = 0 THEN start
                                              ELSE IF Improves(least, values[i], f[i - 1]) THEN values[i] ELSE f[i - 1]]
           best == CHOOSE f : IsLoop(f)
<1>1. step \in [(1 .. n) \X Int -> Int] /\ \A i \in 1 .. n, x \in Int : step[<<i, x>>] = Next1(x, values[i])
  OBVIOUS
<1> HIDE DEF step
<1>2. PICK f : Follows(f, n, Int, start, step)
  BY <1>1, LoopExists
<1>2a. /\ f = [k \in 0 .. n |-> IF k = 0 THEN start ELSE step[<<k, f[k - 1]>>]]
       /\ \A k \in 0 .. n : f[k] \in Int
  BY <1>2 DEF Follows
<1>3. \A i \in 0 .. n : (IF i = 0 THEN start ELSE step[<<i, f[i - 1]>>])
                          = IF i = 0 THEN start ELSE Next1(f[i - 1], values[i])
  <2> SUFFICES ASSUME NEW i \in 0 .. n, i # 0 PROVE step[<<i, f[i - 1]>>] = Next1(f[i - 1], values[i])
    OBVIOUS
  <2>1. i \in 1 .. n /\ i - 1 \in 0 .. n
    OBVIOUS
  <2> QED BY <1>1, <1>2a, <2>1
<1>4. IsLoop(f)
  BY <1>2a, <1>3
<1>5. IsLoop(best)
  <2>1. \E g : IsLoop(g)
    BY <1>4
  <2> HIDE DEF IsLoop
  <2> QED BY <2>1
<1>6. PickUp(start, values, n, least) = best[n]
  BY DEF PickUp
<1> HIDE DEF best
<1>7. best = [i \in 0 .. n |-> IF i = 0 THEN start
                               ELSE IF Improves(least, values[i], best[i - 1]) THEN values[i] ELSE best[i - 1]]
  BY <1>5
<1>8. /\ best[0] = start
      /\ \A i \in 1 .. n : best[i] = IF Improves(least, values[i], best[i - 1]) THEN values[i] ELSE best[i - 1]
  BY <1>7
<1>9. \A i \in 0 .. n : best[i] \in Int
  <2> DEFINE G == {i \in 0 .. n : best[i] \in Int}
  <2>1. 0 \in G /\ \A i \in 1 .. n : i - 1 \in G => i \in G
    BY <1>8
  <2> HIDE DEF G
  <2>2. \A i \in 0 .. n : i \in G
    BY <2>1, StepByStep
  <2> QED BY <2>2 DEF G
<1>10. PicksUp(best, start, values, n, least)
  BY <1>7, <1>8, <1>9 DEF PicksUp
<1> QED BY <1>6, <1>10

\* What row i adds to a sum.
Term(values, i) == IF i \in DOMAIN values THEN values[i] ELSE 0

\* sum[i] is the sum of the values before row i.
Sums(sum, values, n) ==
  /\ sum \in [0 .. n -> Int] /\ sum[0] = 0
  /\ \A i \in 1 .. n : sum[i] = sum[i - 1] + Term(values, i - 1)

LEMMA SumOverIs ==
  ASSUME NEW n \in Nat, NEW values, \A i \in 0 .. n - 1 : Term(values, i) \in Int
  PROVE  \E sum : Sums(sum, values, n) /\ SumOver(values, n) = sum[n]
<1> DEFINE step == [x \in (1 .. n) \X Int |-> x[2] + Term(values, x[1] - 1)]
           IsLoop(f) == f = [i \in 0 .. n |-> IF i = 0 THEN 0
                                              ELSE f[i - 1] + IF i - 1 \in DOMAIN values THEN values[i - 1] ELSE 0]
           sum == CHOOSE f : IsLoop(f)
<1>1. step \in [(1 .. n) \X Int -> Int] /\ \A i \in 1 .. n, x \in Int : step[<<i, x>>] = x + Term(values, i - 1)
  <2>1. \A i \in 1 .. n : Term(values, i - 1) \in Int
    OBVIOUS
  <2> QED BY <2>1
<1> HIDE DEF step
<1>2. PICK f : Follows(f, n, Int, 0, step)
  <2>1. 0 \in Int /\ step \in [(1 .. n) \X Int -> Int]
    BY <1>1
  <2> QED BY ONLY <2>1, n \in Nat, LoopExists
<1>2a. /\ f = [k \in 0 .. n |-> IF k = 0 THEN 0 ELSE step[<<k, f[k - 1]>>]]
       /\ \A k \in 0 .. n : f[k] \in Int
  BY <1>2 DEF Follows
<1>3. \A i \in 0 .. n : (IF i = 0 THEN 0 ELSE step[<<i, f[i - 1]>>])
                          = IF i = 0 THEN 0 ELSE f[i - 1] + IF i - 1 \in DOMAIN values THEN values[i - 1] ELSE 0
  <2> SUFFICES ASSUME NEW i \in 0 .. n, i # 0 PROVE step[<<i, f[i - 1]>>] = f[i - 1] + Term(values, i - 1)
    BY DEF Term
  <2>1. i \in 1 .. n /\ i - 1 \in 0 .. n
    OBVIOUS
  <2> QED BY <1>1, <1>2a, <2>1
<1>4. IsLoop(f)
  BY <1>2a, <1>3
<1>5. IsLoop(sum)
  <2>1. \E g : IsLoop(g)
    BY <1>4
  <2> HIDE DEF IsLoop
  <2> QED BY <2>1
<1>6. SumOver(values, n) = sum[n]
  BY DEF SumOver
<1> HIDE DEF sum
<1>7. sum = [i \in 0 .. n |-> IF i = 0 THEN 0 ELSE sum[i - 1] + IF i - 1 \in DOMAIN values THEN values[i - 1] ELSE 0]
  BY <1>5
<1>8. sum[0] = 0 /\ \A i \in 1 .. n : sum[i] = sum[i - 1] + Term(values, i - 1)
  BY <1>7 DEF Term
<1>9. \A i \in 0 .. n : sum[i] \in Int
  <2> DEFINE G == {i \in 0 .. n : sum[i] \in Int}
  <2>1. 0 \in G /\ \A i \in 1 .. n : i - 1 \in G => i \in G
    <3>1. \A i \in 1 .. n : Term(values, i - 1) \in Int
      OBVIOUS
    <3> QED BY <1>8, <3>1
  <2> HIDE DEF G
  <2>2. \A i \in 0 .. n : i \in G
    BY <2>1, StepByStep
  <2> QED BY <2>2 DEF G
<1>10. Sums(sum, values, n)
  BY <1>7, <1>8, <1>9 DEF Sums
<1> QED BY <1>6, <1>10

-----------------------------------------------------------------------------
(* Sums of the values of rows.                                             *)

Terms(values, n) == \A i \in 0 .. n - 1 : Term(values, i) \in Int

LEMMA SumIs ==
  ASSUME NEW n \in Nat, NEW values, Terms(values, n), NEW sum, Sums(sum, values, n)
  PROVE  SumOver(values, n) = sum[n]
<1>1. PICK s : Sums(s, values, n) /\ SumOver(values, n) = s[n]
  BY SumOverIs DEF Terms
<1> DEFINE G == {i \in 0 .. n : s[i] = sum[i]}
<1>2. 0 \in G
  BY <1>1 DEF Sums
<1>3. ASSUME NEW i \in 1 .. n, i - 1 \in G PROVE i \in G
  BY <1>1, <1>3 DEF Sums
<1> HIDE DEF G
<1>4. \A i \in 0 .. n : i \in G
  BY <1>2, <1>3, StepByStep
<1> QED BY <1>1, <1>4 DEF G

LEMMA SumType == ASSUME NEW n \in Nat, NEW values, Terms(values, n) PROVE SumOver(values, n) \in Int
<1>1. PICK s : Sums(s, values, n) /\ SumOver(values, n) = s[n]
  BY SumOverIs DEF Terms
<1> QED BY <1>1 DEF Sums

LEMMA Distributes == ASSUME NEW c \in Int, NEW x \in Int, NEW y \in Int PROVE c * (x + y) = (c * x) + (c * y)
OBVIOUS

LEMMA ProductType == ASSUME NEW x \in Int, NEW y \in Int PROVE x * y \in Int
OBVIOUS

\* A sum is linear in its terms.
LEMMA SumsCombine ==
  ASSUME NEW n \in Nat, NEW c \in Int, NEW d \in Int,
         NEW f, Terms(f, n), NEW g, Terms(g, n), NEW h,
         \A i \in 0 .. n - 1 : Term(h, i) = (c * Term(f, i)) + (d * Term(g, i))
  PROVE  Terms(h, n) /\ SumOver(h, n) = (c * SumOver(f, n)) + (d * SumOver(g, n))
<1>1. Terms(h, n)
  <2> SUFFICES ASSUME NEW i \in 0 .. n - 1 PROVE Term(h, i) \in Int
    BY DEF Terms
  <2>1. Term(f, i) \in Int /\ Term(g, i) \in Int /\ Term(h, i) = (c * Term(f, i)) + (d * Term(g, i))
    BY DEF Terms
  <2>2. c * Term(f, i) \in Int /\ d * Term(g, i) \in Int
    BY <2>1, ProductType
  <2> QED BY <2>1, <2>2
<1>2. PICK F : Sums(F, f, n) /\ SumOver(f, n) = F[n]
  BY SumOverIs DEF Terms
<1>3. PICK E : Sums(E, g, n) /\ SumOver(g, n) = E[n]
  BY SumOverIs DEF Terms
<1> DEFINE sum == [i \in 0 .. n |-> (c * F[i]) + (d * E[i])]
<1>4. /\ F[0] = 0 /\ E[0] = 0 /\ \A i \in 0 .. n : F[i] \in Int /\ E[i] \in Int
      /\ \A i \in 1 .. n : F[i] = F[i - 1] + Term(f, i - 1) /\ E[i] = E[i - 1] + Term(g, i - 1)
  BY <1>2, <1>3 DEF Sums
<1>5. \A i \in 0 .. n : sum[i] = (c * F[i]) + (d * E[i]) /\ sum[i] \in Int
  <2> SUFFICES ASSUME NEW i \in 0 .. n PROVE (c * F[i]) + (d * E[i]) \in Int
    OBVIOUS
  <2>1. c * F[i] \in Int /\ d * E[i] \in Int
    BY <1>4, ProductType
  <2> QED BY <2>1
<1>6. sum[0] = 0
  <2>1. c * 0 = 0 /\ d * 0 = 0
    OBVIOUS
  <2> QED BY <1>4, <1>5, <2>1
<1>7. ASSUME NEW i \in 1 .. n PROVE sum[i] = sum[i - 1] + Term(h, i - 1)
  <2> DEFINE x == F[i - 1]
             y == Term(f, i - 1)
             z == E[i - 1]
             w == Term(g, i - 1)
  <2>1. i - 1 \in 0 .. n - 1 /\ i - 1 \in 0 .. n /\ i \in 0 .. n
    OBVIOUS
  <2>2. x \in Int /\ y \in Int /\ z \in Int /\ w \in Int
    BY <1>4, <2>1 DEF Terms
  <2>3. sum[i] = (c * (x + y)) + (d * (z + w)) /\ sum[i - 1] = (c * x) + (d * z)
    BY <1>4, <1>5, <2>1
  <2>4. Term(h, i - 1) = (c * y) + (d * w)
    BY <2>1
  <2> HIDE DEF x, y, z, w, sum
  <2>5. c * (x + y) = (c * x) + (c * y) /\ d * (z + w) = (d * z) + (d * w)
    BY <2>2, Distributes
  <2>6. c * x \in Int /\ c * y \in Int /\ d * z \in Int /\ d * w \in Int
    BY <2>2, ProductType
  <2> QED BY ONLY <2>3, <2>4, <2>5, <2>6
<1>8. Sums(sum, h, n)
  <2>1. sum \in [0 .. n -> Int]
    BY <1>5
  <2> HIDE DEF sum
  <2> QED BY <1>6, <1>7, <2>1 DEF Sums
<1>9. n \in 0 .. n
  OBVIOUS
<1> HIDE DEF sum
<1> QED BY <1>1, <1>2, <1>3, <1>5, <1>8, <1>9, SumIs

\* Terms between bounds, and their sum.
LEMMA SumBounded ==
  ASSUME NEW n \in Nat, NEW b \in Nat, NEW f, Terms(f, n), \A i \in 0 .. n - 1 : -b <= Term(f, i) /\ Term(f, i) <= b
  PROVE  -(n * b) <= SumOver(f, n) /\ SumOver(f, n) <= n * b
<1>1. PICK F : Sums(F, f, n) /\ SumOver(f, n) = F[n]
  BY SumOverIs DEF Terms
<1>2. /\ F[0] = 0 /\ \A i \in 0 .. n : F[i] \in Int
      /\ \A i \in 1 .. n : F[i] = F[i - 1] + Term(f, i - 1)
  BY <1>1 DEF Sums
<1> DEFINE G == {i \in 0 .. n : -(i * b) <= F[i] /\ F[i] <= i * b}
<1>3. 0 \in G
  <2>1. 0 * b = 0
    OBVIOUS
  <2> QED BY <1>2, <2>1
<1>4. ASSUME NEW i \in 1 .. n, i - 1 \in G PROVE i \in G
  <2> DEFINE x == (i - 1) * b
             y == i * b
             t == Term(f, i - 1)
  <2>1. x \in Int /\ y = x + b
    OBVIOUS
  <2>2. i - 1 \in 0 .. n - 1 /\ i \in 0 .. n
    OBVIOUS
  <2>3. t \in Int /\ -b <= t /\ t <= b
    BY <2>2 DEF Terms
  <2>4. -x <= F[i - 1] /\ F[i - 1] <= x /\ F[i] = F[i - 1] + t /\ F[i - 1] \in Int
    BY <1>2, <1>4
  <2> HIDE DEF x, y, t
  <2>5. -y <= F[i] /\ F[i] <= y
    BY ONLY <2>1, <2>3, <2>4, b \in Nat
  <2> QED BY <2>2, <2>5 DEF y
<1> HIDE DEF G
<1>5. \A i \in 0 .. n : i \in G
  BY <1>3, <1>4, StepByStep
<1> QED BY <1>1, <1>5 DEF G

\* One term.
LEMMA SumOfOne ==
  ASSUME NEW n \in Nat, NEW f, Terms(f, n), NEW r \in 0 .. n - 1, \A i \in 0 .. n - 1 : i # r => Term(f, i) = 0
  PROVE  SumOver(f, n) = Term(f, r)
<1> DEFINE sum == [i \in 0 .. n |-> IF i <= r THEN 0 ELSE Term(f, r)]
<1>1. Term(f, r) \in Int
  BY DEF Terms
<1>2. Sums(sum, f, n)
  <2>1. sum \in [0 .. n -> Int] /\ sum[0] = 0
    BY <1>1
  <2>2. ASSUME NEW i \in 1 .. n PROVE sum[i] = sum[i - 1] + Term(f, i - 1)
    <3>1. i - 1 \in 0 .. n - 1 /\ i \in 0 .. n /\ i - 1 \in 0 .. n
      OBVIOUS
    <3>2. CASE i - 1 = r
      BY <1>1, <3>1, <3>2
    <3>3. CASE i - 1 # r
      <4>1. Term(f, i - 1) = 0 /\ (i <= r <=> i - 1 <= r)
        BY <3>1, <3>3
      <4> QED BY <1>1, <3>1, <4>1
    <3> QED BY <3>2, <3>3
  <2> HIDE DEF sum
  <2> QED BY <2>1, <2>2 DEF Sums
<1>3. sum[n] = Term(f, r)
  OBVIOUS
<1> HIDE DEF sum
<1> QED BY <1>2, <1>3, SumIs

LEMMA SumOfNone ==
  ASSUME NEW n \in Nat, NEW f, \A i \in 0 .. n - 1 : Term(f, i) = 0
  PROVE  SumOver(f, n) = 0
<1> DEFINE sum == [i \in 0 .. n |-> 0]
<1>1. Terms(f, n)
  BY DEF Terms
<1>2. Sums(sum, f, n)
  <2>1. ASSUME NEW i \in 1 .. n PROVE sum[i] = sum[i - 1] + Term(f, i - 1)
    OBVIOUS
  <2> QED BY <2>1 DEF Sums
<1>3. sum[n] = 0
  OBVIOUS
<1> HIDE DEF sum
<1> QED BY <1>1, <1>2, <1>3, SumIs

-----------------------------------------------------------------------------
(* Sums of floats.                                                         *)

\* The values of some rows.
Part(data, T) == [i \in T |-> data[i]]

Occurs(data, T, v) == \E i \in T : data[i] = v

\* The rows K of n have values of floats, and the sum of the finite ones is finite.
Bounded(data, K, n, b) ==
  /\ b \in Nat /\ n * b < PosInf /\ K \subseteq 0 .. n - 1
  /\ \A i \in K : data[i] \in NegInf .. NaN
  /\ \A i \in K : Finite(data[i]) => -b <= data[i] /\ data[i] <= b

LEMMA FloatBounds ==
  /\ PosInf \in Nat /\ NegInf \in Int /\ NaN \in Int /\ NaN = PosInf + 1 /\ NegInf < 0 /\ 0 < PosInf /\ NegInf = 0 - PosInf
  /\ \A x \in NegInf .. NaN : x \in Int /\ (x = NaN \/ x = PosInf \/ x = NegInf \/ Finite(x))
  /\ ~Finite(NaN) /\ ~Finite(PosInf) /\ ~Finite(NegInf) /\ Finite(0)
BY PosInfAssumption DEF NaN, NegInf, Finite

LEMMA ValuesOfPart ==
  ASSUME NEW data, NEW T, NEW v
  PROVE  v \in ValuesIn(Part(data, T)) <=> Occurs(data, T, v)
BY DEF ValuesIn, Part, Occurs

\* What the total is, by the values that are not finite.
LEMMA TotalCases ==
  ASSUME NEW n \in Nat, NEW data, NEW T
  PROVE  Total(Part(data, T), n)
           = IF Occurs(data, T, NaN) \/ (Occurs(data, T, PosInf) /\ Occurs(data, T, NegInf)) THEN NaN
             ELSE IF Occurs(data, T, PosInf) THEN PosInf ELSE IF Occurs(data, T, NegInf) THEN NegInf
             ELSE SumOver(Part(data, T), n)
<1> DEFINE V == ValuesIn(Part(data, T))
<1>1. \A v : v \in V <=> Occurs(data, T, v)
  BY ValuesOfPart
<1>2. {PosInf, NegInf} \subseteq V <=> Occurs(data, T, PosInf) /\ Occurs(data, T, NegInf)
  BY <1>1
<1> QED BY <1>1, <1>2 DEF Total

AllFinite(data, T) == \A i \in T : Finite(data[i])

LEMMA FiniteRows ==
  ASSUME NEW data, NEW K, NEW n \in Nat, NEW b, Bounded(data, K, n, b), NEW T, T \subseteq K
  PROVE  AllFinite(data, T) <=> ~Occurs(data, T, NaN) /\ ~Occurs(data, T, PosInf) /\ ~Occurs(data, T, NegInf)
BY FloatBounds DEF AllFinite, Occurs, Bounded

\* The sum of finite values.
LEMMA FiniteSum ==
  ASSUME NEW data, NEW K, NEW n \in Nat, NEW b, Bounded(data, K, n, b), NEW T, T \subseteq K, AllFinite(data, T)
  PROVE  /\ Terms(Part(data, T), n) /\ SumOver(Part(data, T), n) \in Int /\ Finite(SumOver(Part(data, T), n))
         /\ -(n * b) <= SumOver(Part(data, T), n) /\ SumOver(Part(data, T), n) <= n * b
<1> DEFINE f == Part(data, T)
<1>0. b \in Nat /\ n * b < PosInf /\ n * b \in Nat
  BY DEF Bounded
<1>1. \A i \in 0 .. n - 1 : Term(f, i) \in Int /\ -b <= Term(f, i) /\ Term(f, i) <= b
  <2> SUFFICES ASSUME NEW i \in 0 .. n - 1 PROVE Term(f, i) \in Int /\ -b <= Term(f, i) /\ Term(f, i) <= b
    OBVIOUS
  <2>1. CASE i \in T
    <3>1. data[i] \in Int /\ -b <= data[i] /\ data[i] <= b
      BY <2>1, FloatBounds DEF Bounded, AllFinite
    <3>2. Term(f, i) = data[i]
      BY <2>1 DEF Term, Part
    <3> QED BY <3>1, <3>2
  <2>2. CASE i \notin T
    <3>1. Term(f, i) = 0
      BY <2>2 DEF Term, Part
    <3> QED BY <1>0, <3>1
  <2> QED BY <2>1, <2>2
<1>2. Terms(f, n)
  BY <1>1 DEF Terms
<1> HIDE DEF f
<1>3. SumOver(f, n) \in Int /\ -(n * b) <= SumOver(f, n) /\ SumOver(f, n) <= n * b
  BY <1>0, <1>1, <1>2, SumType, SumBounded
<1>4. Finite(SumOver(f, n))
  BY <1>0, <1>3, FloatBounds DEF Finite
<1> QED BY <1>2, <1>3, <1>4 DEF f

LEMMA FiniteTotal ==
  ASSUME NEW data, NEW K, NEW n \in Nat, NEW b, Bounded(data, K, n, b), NEW T, T \subseteq K, AllFinite(data, T)
  PROVE  /\ Total(Part(data, T), n) = SumOver(Part(data, T), n)
         /\ Total(Part(data, T), n) \in Int /\ Finite(Total(Part(data, T), n))
<1>1. Total(Part(data, T), n) = SumOver(Part(data, T), n)
  BY FiniteRows, TotalCases
<1>2. SumOver(Part(data, T), n) \in Int /\ Finite(SumOver(Part(data, T), n))
  BY FiniteSum
<1> QED BY <1>1, <1>2

LEMMA TotalTypes ==
  ASSUME NEW data, NEW K, NEW n \in Nat, NEW b, Bounded(data, K, n, b), NEW T, T \subseteq K
  PROVE  Total(Part(data, T), n) \in Int
<1>1. CASE AllFinite(data, T)
  BY <1>1, FiniteTotal
<1>2. CASE ~AllFinite(data, T)
  BY <1>2, FiniteRows, TotalCases, FloatBounds
<1> QED BY <1>1, <1>2

\* Two sets of rows without a common one.
LEMMA SumOfUnion ==
  ASSUME NEW data, NEW K, NEW n \in Nat, NEW b, Bounded(data, K, n, b),
         NEW A, A \subseteq K, NEW B, B \subseteq K, A \cap B = {}, AllFinite(data, A), AllFinite(data, B)
  PROVE  SumOver(Part(data, A \cup B), n) = SumOver(Part(data, A), n) + SumOver(Part(data, B), n)
<1> DEFINE f == Part(data, A)
           g == Part(data, B)
           h == Part(data, A \cup B)
<1>1. Terms(f, n) /\ Terms(g, n) /\ SumOver(f, n) \in Int /\ SumOver(g, n) \in Int
  BY FiniteSum
<1>2. \A i \in 0 .. n - 1 : Term(h, i) = (1 * Term(f, i)) + (1 * Term(g, i))
  <2> SUFFICES ASSUME NEW i \in 0 .. n - 1 PROVE Term(h, i) = (1 * Term(f, i)) + (1 * Term(g, i))
    OBVIOUS
  <2>0. Term(f, i) \in Int /\ Term(g, i) \in Int
    BY <1>1 DEF Terms
  <2>1. Term(h, i) = Term(f, i) + Term(g, i)
    <3>1. CASE i \in A
      <4>1. i \notin B
        BY <3>1
      <4>2. Term(h, i) = Term(f, i) /\ Term(g, i) = 0
        BY <3>1, <4>1 DEF Term, Part
      <4> QED BY <2>0, <4>2
    <3>2. CASE i \notin A
      <4>1. Term(h, i) = Term(g, i) /\ Term(f, i) = 0
        BY <3>2 DEF Term, Part
      <4> QED BY <2>0, <4>1
    <3> QED BY <3>1, <3>2
  <2> QED BY <2>0, <2>1
<1> HIDE DEF f, g, h
<1>3. 1 \in Int
  OBVIOUS
<1>4. SumOver(h, n) = (1 * SumOver(f, n)) + (1 * SumOver(g, n))
  BY <1>1, <1>2, <1>3, SumsCombine
<1>5. SumOver(h, n) = SumOver(f, n) + SumOver(g, n)
  BY <1>1, <1>4
<1> QED BY <1>5 DEF f, g, h

LEMMA TotalOfUnion ==
  ASSUME NEW data, NEW K, NEW n \in Nat, NEW b, Bounded(data, K, n, b),
         NEW A, A \subseteq K, NEW B, B \subseteq K, A \cap B = {}
  PROVE  Plus(Total(Part(data, A), n), Total(Part(data, B), n)) = Total(Part(data, A \cup B), n)
<1> DEFINE t == Total(Part(data, A), n)
           u == Total(Part(data, B), n)
           w == Total(Part(data, A \cup B), n)
<1>1. \A v : Occurs(data, A \cup B, v) <=> Occurs(data, A, v) \/ Occurs(data, B, v)
  BY DEF Occurs
<1>2. A \cup B \subseteq K
  OBVIOUS
<1>3. CASE AllFinite(data, A) /\ AllFinite(data, B)
  <2>1. AllFinite(data, A \cup B)
    BY <1>3 DEF AllFinite
  <2>2. /\ t = SumOver(Part(data, A), n) /\ t \in Int /\ Finite(t)
        /\ u = SumOver(Part(data, B), n) /\ u \in Int /\ Finite(u)
    BY <1>3, FiniteTotal
  <2>2a. w = SumOver(Part(data, A \cup B), n)
    BY <1>2, <2>1, FiniteTotal
  <2>2b. SumOver(Part(data, A \cup B), n) = SumOver(Part(data, A), n) + SumOver(Part(data, B), n)
    BY <1>3, SumOfUnion
  <2>3. Finite(t) /\ Finite(u) /\ t \in Int /\ u \in Int /\ w = t + u
    <3> HIDE DEF t, u, w
    <3> QED BY ONLY <2>2, <2>2a, <2>2b
  <2> HIDE DEF t, u, w
  <2>4. Plus(t, u) = t + u
    BY <2>3, FloatBounds DEF Plus
  <2> QED BY <2>3, <2>4 DEF t, u, w
<1>4. CASE ~(AllFinite(data, A) /\ AllFinite(data, B))
  <2>1. /\ Occurs(data, A, NaN) \/ Occurs(data, A, PosInf) \/ Occurs(data, A, NegInf) \/ (Finite(t) /\ t \in Int)
        /\ Occurs(data, B, NaN) \/ Occurs(data, B, PosInf) \/ Occurs(data, B, NegInf) \/ (Finite(u) /\ u \in Int)
        /\ \/ Occurs(data, A, NaN) \/ Occurs(data, A, PosInf) \/ Occurs(data, A, NegInf)
           \/ Occurs(data, B, NaN) \/ Occurs(data, B, PosInf) \/ Occurs(data, B, NegInf)
    <3>1. AllFinite(data, A) => Finite(t) /\ t \in Int
      BY FiniteTotal
    <3>2. AllFinite(data, B) => Finite(u) /\ u \in Int
      BY FiniteTotal
    <3>3. AllFinite(data, A) <=> ~Occurs(data, A, NaN) /\ ~Occurs(data, A, PosInf) /\ ~Occurs(data, A, NegInf)
      BY FiniteRows
    <3>4. AllFinite(data, B) <=> ~Occurs(data, B, NaN) /\ ~Occurs(data, B, PosInf) /\ ~Occurs(data, B, NegInf)
      BY FiniteRows
    <3> HIDE DEF t, u, w
    <3> QED BY <1>4, <3>1, <3>2, <3>3, <3>4
  <2>2. /\ Occurs(data, A, NaN) \/ (Occurs(data, A, PosInf) /\ Occurs(data, A, NegInf)) => t = NaN
        /\ ~Occurs(data, A, NaN) /\ Occurs(data, A, PosInf) /\ ~Occurs(data, A, NegInf) => t = PosInf
        /\ ~Occurs(data, A, NaN) /\ ~Occurs(data, A, PosInf) /\ Occurs(data, A, NegInf) => t = NegInf
    BY TotalCases
  <2>3. /\ Occurs(data, B, NaN) \/ (Occurs(data, B, PosInf) /\ Occurs(data, B, NegInf)) => u = NaN
        /\ ~Occurs(data, B, NaN) /\ Occurs(data, B, PosInf) /\ ~Occurs(data, B, NegInf) => u = PosInf
        /\ ~Occurs(data, B, NaN) /\ ~Occurs(data, B, PosInf) /\ Occurs(data, B, NegInf) => u = NegInf
    BY TotalCases
  <2>4. LET X(v) == Occurs(data, A, v) \/ Occurs(data, B, v) IN
        /\ X(NaN) \/ (X(PosInf) /\ X(NegInf)) => w = NaN
        /\ ~X(NaN) /\ X(PosInf) /\ ~X(NegInf) => w = PosInf
        /\ ~X(NaN) /\ ~X(PosInf) /\ X(NegInf) => w = NegInf
    BY <1>1, TotalCases
  <2> HIDE DEF t, u, w
  <2>5. Plus(t, u) = w
    BY <2>1, <2>2, <2>3, <2>4, FloatBounds DEF Plus
  <2> QED BY <2>5 DEF t, u, w
<1> QED BY <1>3, <1>4

LEMMA TotalOfNone == ASSUME NEW n \in Nat, NEW data PROVE Total(Part(data, {}), n) = 0
<1>1. \A v : ~Occurs(data, {}, v)
  BY DEF Occurs
<1>2. \A i \in 0 .. n - 1 : Term(Part(data, {}), i) = 0
  BY DEF Term, Part
<1>3. SumOver(Part(data, {}), n) = 0
  BY <1>2, SumOfNone
<1> QED BY <1>1, <1>3, TotalCases

\* One row, or none.
LEMMA TotalOfRow ==
  ASSUME NEW data, NEW K, NEW n \in Nat, NEW b, Bounded(data, K, n, b), NEW r
  PROVE  Total(Part(data, {r} \cap K), n) = IF r \in K THEN data[r] ELSE 0
<1>1. CASE r \notin K
  <2>1. {r} \cap K = {}
    BY <1>1
  <2> QED BY <1>1, <2>1, TotalOfNone
<1>2. CASE r \in K
  <2>1. {r} \cap K = {r} /\ {r} \subseteq K
    BY <1>2
  <2>2. \A v : Occurs(data, {r}, v) <=> data[r] = v
    BY DEF Occurs
  <2>3. r \in 0 .. n - 1 /\ data[r] \in NegInf .. NaN
    BY <1>2 DEF Bounded
  <2>4. CASE Finite(data[r])
    <3>1. AllFinite(data, {r})
      BY <2>4 DEF AllFinite
    <3>2. Terms(Part(data, {r}), n)
      BY <2>1, <3>1, FiniteSum
    <3>3. \A i \in 0 .. n - 1 : i # r => Term(Part(data, {r}), i) = 0
      BY DEF Term, Part
    <3>4. Term(Part(data, {r}), r) = data[r]
      BY DEF Term, Part
    <3>5. SumOver(Part(data, {r}), n) = data[r]
      BY <2>3, <3>2, <3>3, <3>4, SumOfOne
    <3>6. Total(Part(data, {r}), n) = SumOver(Part(data, {r}), n)
      BY <2>1, <3>1, FiniteRows, TotalCases
    <3> QED BY <1>2, <2>1, <3>5, <3>6
  <2>5. CASE ~Finite(data[r])
    <3>1. data[r] \in {NaN, PosInf, NegInf}
      BY <2>3, <2>5, FloatBounds
    <3>2. PosInf # NegInf /\ NaN # PosInf /\ NaN # NegInf
      BY FloatBounds
    <3>3. Total(Part(data, {r}), n) = data[r]
      BY <2>2, <3>1, <3>2, TotalCases
    <3> QED BY <1>2, <2>1, <3>3
  <2> QED BY <2>4, <2>5
<1> QED BY <1>1, <1>2

\* The value at i is the total of the rows that are of class i.
TotalsBy(values, m, data, T, of, n) ==
  /\ of \in [T -> 1 .. m] /\ values \in [1 .. m -> Int]
  /\ \A i \in 1 .. m : values[i] = Total(Part(data, {r \in T : of[r] = i}), n)

\* Totals of sets of rows without common ones, added up.
LEMMA AddUpTotals ==
  ASSUME NEW data, NEW K, NEW n \in Nat, NEW b, Bounded(data, K, n, b), NEW T, T \subseteq K,
         NEW m \in Nat, NEW of, NEW values, TotalsBy(values, m, data, T, of, n)
  PROVE  AddUp(values, m) = Total(Part(data, T), n)
<1>0. /\ of \in [T -> 1 .. m] /\ values \in [1 .. m -> Int]
      /\ \A i \in 1 .. m : values[i] = Total(Part(data, {r \in T : of[r] = i}), n)
  BY DEF TotalsBy
<1> DEFINE Upto(i) == {r \in T : of[r] <= i}
<1>1. PICK sum : AddsUp(sum, values, m) /\ AddUp(values, m) = sum[m]
  BY <1>0, AddUpIs
<1>2. sum[0] = 0 /\ \A i \in 1 .. m : sum[i] = Plus(sum[i - 1], values[i])
  BY <1>1 DEF AddsUp
<1> DEFINE G == {i \in 0 .. m : sum[i] = Total(Part(data, Upto(i)), n)}
<1>3. 0 \in G
  <2>1. Upto(0) = {} /\ 0 \in 0 .. m
    BY <1>0
  <2>2. Total(Part(data, {}), n) = 0
    BY TotalOfNone
  <2> QED BY <1>2, <2>1, <2>2
<1>4. ASSUME NEW i \in 1 .. m, i - 1 \in G PROVE i \in G
  <2> DEFINE A == Upto(i - 1)
             B == {r \in T : of[r] = i}
  <2>1. A \subseteq K /\ B \subseteq K /\ A \cap B = {} /\ A \cup B = Upto(i)
    BY <1>0
  <2>2. sum[i] = Plus(Total(Part(data, A), n), Total(Part(data, B), n))
    BY <1>0, <1>2, <1>4
  <2> HIDE DEF A, B
  <2>3. Plus(Total(Part(data, A), n), Total(Part(data, B), n)) = Total(Part(data, A \cup B), n)
    BY <2>1, TotalOfUnion
  <2>4. sum[i] = Total(Part(data, Upto(i)), n)
    BY <2>1, <2>2, <2>3
  <2> QED BY <2>4
<1> HIDE DEF G
<1>5. \A i \in 0 .. m : i \in G
  BY <1>3, <1>4, StepByStep
<1>6. sum[m] = Total(Part(data, Upto(m)), n)
  <2>1. m \in 0 .. m
    OBVIOUS
  <2>2. m \in G
    BY <1>5, <2>1
  <2> QED BY <2>2 DEF G
<1>7. Upto(m) = T
  BY <1>0
<1> QED BY <1>1, <1>6, <1>7

-----------------------------------------------------------------------------
(* Stripes.                                                                *)

\* Row r is in stripe r % k, in a whole group or behind the last.
LEMMA Stripes ==
  ASSUME NEW n \in Nat, NEW k \in Nat \ {0}
  PROVE  /\ n \div k \in Nat /\ n % k \in 0 .. k - 1 /\ n = (k * (n \div k)) + (n % k)
         /\ \A r \in 0 .. n - 1 :
              /\ r \div k \in Nat /\ r % k \in 0 .. k - 1 /\ r = (k * (r \div k)) + (r % k)
              /\ r \div k < n \div k \/ (r \div k = n \div k /\ r % k < n % k)
         /\ \A g \in 0 .. (n \div k) - 1, s \in 0 .. k - 1 :
              /\ (k * g) + s \in 0 .. n - 1 /\ ((k * g) + s) \div k = g /\ ((k * g) + s) % k = s
         /\ \A s \in 0 .. (n % k) - 1 :
              LET r == (k * (n \div k)) + s IN r \in 0 .. n - 1 /\ r \div k = n \div k /\ r % k = s
<1> DEFINE q == n \div k
           e == n % k
<1>1. e \in 0 .. k - 1 /\ q \in Int /\ n = (k * q) + e
  BY Division
<1> HIDE DEF q, e
<1>2. \A x, y \in Int : x < y => (k * x) + k <= k * y
  <2> SUFFICES ASSUME NEW x \in Int, NEW y \in Int, x < y PROVE (k * x) + k <= k * y
    OBVIOUS
  <2> DEFINE d == y - (x + 1)
  <2>1. d \in Nat /\ y = (x + 1) + d
    OBVIOUS
  <2> HIDE DEF d
  <2>2. k * y = (k * (x + 1)) + (k * d)
    BY <2>1, Distributes
  <2>3. k * (x + 1) = (k * x) + (k * 1) /\ k * 1 = k
    BY Distributes
  <2>4. k * d \in Nat /\ k * x \in Int
    BY <2>1
  <2> QED BY <2>2, <2>3, <2>4
<1>3. q \in Nat
  <2>1. ASSUME q < 0 PROVE FALSE
    <3>1. (k * q) + k <= k * 0 /\ k * 0 = 0
      BY <1>1, <1>2, <2>1
    <3>2. k * q \in Int
      BY <1>1
    <3> QED BY <1>1, <3>1, <3>2
  <2> QED BY <1>1, <2>1
<1>4. ASSUME NEW r \in 0 .. n - 1
      PROVE  /\ r \div k \in Nat /\ r % k \in 0 .. k - 1 /\ r = (k * (r \div k)) + (r % k)
             /\ r \div k < q \/ (r \div k = q /\ r % k < e)
  <2> DEFINE g == r \div k
             s == r % k
  <2>1. s \in 0 .. k - 1 /\ g \in Int /\ r = (k * g) + s
    BY Division
  <2> HIDE DEF g, s
  <2>2. g \in Nat
    <3>1. ASSUME g < 0 PROVE FALSE
      <4>1. (k * g) + k <= k * 0 /\ k * 0 = 0
        BY <1>2, <2>1, <3>1
      <4>2. k * g \in Int
        BY <2>1
      <4> QED BY <2>1, <4>1, <4>2
    <3> QED BY <2>1, <3>1
  <2>3. g < q \/ (g = q /\ s < e)
    <3>1. ASSUME q < g PROVE FALSE
      <4>1. (k * q) + k <= k * g
        BY <1>2, <1>3, <2>1, <3>1
      <4>2. k * q \in Int /\ k * g \in Int
        BY <1>3, <2>1
      <4> QED BY <1>1, <2>1, <4>1, <4>2
    <3>2. ASSUME g = q PROVE s < e
      <4>1. k * q \in Int
        BY <1>3
      <4> QED BY <1>1, <2>1, <3>2, <4>1
    <3> QED BY <1>3, <2>2, <3>1, <3>2
  <2> QED BY <2>1, <2>2, <2>3 DEF g, s
<1>5. ASSUME NEW g \in Nat, NEW s \in 0 .. k - 1 PROVE ((k * g) + s) \div k = g /\ ((k * g) + s) % k = s
  <2> DEFINE r == (k * g) + s
  <2>1. r \in Int
    BY ProductType
  <2>2. r % k \in 0 .. k - 1 /\ r \div k \in Int /\ r = (k * (r \div k)) + (r % k)
    BY <2>1, Division
  <2>3. r % k = s
    BY <2>1, DivisionUnique
  <2>4. k * (r \div k) = k * g
    <3>1. r = (k * g) + s /\ k * g \in Int /\ k * (r \div k) \in Int
      BY <2>2, ProductType
    <3> HIDE DEF r
    <3> QED BY <2>2, <2>3, <3>1
  <2> DEFINE h == r \div k
  <2>5. h \in Int /\ k * h = k * g
    BY <2>2, <2>4
  <2> HIDE DEF h
  <2>6. h = g
    <3>1. ASSUME h < g PROVE FALSE
      <4>1. (k * h) + k <= k * g
        BY <1>2, <2>5, <3>1
      <4>2. k * h \in Int
        BY <2>5, ProductType
      <4> QED BY <2>5, <4>1, <4>2
    <3>2. ASSUME g < h PROVE FALSE
      <4>1. (k * g) + k <= k * h
        BY <1>2, <2>5, <3>2
      <4>2. k * h \in Int
        BY <2>5, ProductType
      <4> QED BY <2>5, <4>1, <4>2
    <3> QED BY <2>5, <3>1, <3>2
  <2> QED BY <2>3, <2>6 DEF h, r
<1>6. ASSUME NEW g \in 0 .. q - 1, NEW s \in 0 .. k - 1 PROVE (k * g) + s \in 0 .. n - 1
  <2>1. (k * g) + k <= k * q
    BY <1>2, <1>3
  <2>2. k * g \in Nat /\ k * q \in Nat
    BY <1>3
  <2> QED BY <1>1, <2>1, <2>2
<1>7. ASSUME NEW s \in 0 .. e - 1 PROVE (k * q) + s \in 0 .. n - 1 /\ s \in 0 .. k - 1
  <2>1. k * q \in Nat
    BY <1>3
  <2> QED BY <1>1, <2>1
<1>8. \A g \in 0 .. q - 1, s \in 0 .. k - 1 :
         /\ (k * g) + s \in 0 .. n - 1 /\ ((k * g) + s) \div k = g /\ ((k * g) + s) % k = s
  <2> SUFFICES ASSUME NEW g \in 0 .. q - 1, NEW s \in 0 .. k - 1
               PROVE  /\ (k * g) + s \in 0 .. n - 1 /\ ((k * g) + s) \div k = g /\ ((k * g) + s) % k = s
    OBVIOUS
  <2>1. g \in Nat
    BY <1>3
  <2>2. (k * g) + s \in 0 .. n - 1
    BY <1>6
  <2>3. ((k * g) + s) \div k = g /\ ((k * g) + s) % k = s
    BY <1>5, <2>1
  <2> QED BY <2>2, <2>3
<1>9. \A s \in 0 .. e - 1 : (k * q) + s \in 0 .. n - 1 /\ ((k * q) + s) \div k = q /\ ((k * q) + s) % k = s
  BY <1>3, <1>5, <1>7
<1> QED BY <1>1, <1>3, <1>4, <1>8, <1>9 DEF q, e

LEMMA LaneTotals ==
  ASSUME NEW a, NEW n \in Nat, NEW b, Bounded(a.data, Known(a, n), n, b), NEW r \in 0 .. n - 1
  PROVE  LaneValue(a, r) \in Int /\ LaneValue(a, r) = Total(Part(a.data, {r} \cap Known(a, n)), n)
<1> DEFINE K == Known(a, n)
<1>1. r \in K <=> Valid(a, r)
  BY DEF Known, Valid
<1>2. Total(Part(a.data, {r} \cap K), n) = IF r \in K THEN a.data[r] ELSE 0
  BY TotalOfRow
<1>3. r \in K => a.data[r] \in Int
  BY FloatBounds DEF Bounded
<1> QED BY <1>1, <1>2, <1>3 DEF LaneValue

\* The accumulators of the stripes and the rows behind them make the total.
LEMMA StripedSum ==
  ASSUME NEW a, NEW n \in Nat, NEW b, Bounded(a.data, Known(a, n), n, b), NEW k \in Nat \ {0}
  PROVE  SumStriped(a, n, k) = Total(Part(a.data, Known(a, n)), n)
<1> DEFINE K == Known(a, n)
           q == n \div k
           e == n % k
           T(S) == Total(Part(a.data, S), n)
           Lane(s) == AddUp([g \in 1 .. q |-> LaneValue(a, k * (g - 1) + s)], q)
           Acc(s) == IF s < e THEN Plus(Lane(s), LaneValue(a, n - e + s)) ELSE Lane(s)
<1>0. /\ q \in Nat /\ e \in 0 .. k - 1 /\ n = (k * q) + e
      /\ \A r \in 0 .. n - 1 :
           /\ r \div k \in Nat /\ r % k \in 0 .. k - 1 /\ r = (k * (r \div k)) + (r % k)
           /\ r \div k < q \/ (r \div k = q /\ r % k < e)
      /\ \A g \in 0 .. q - 1, s \in 0 .. k - 1 :
           /\ (k * g) + s \in 0 .. n - 1 /\ ((k * g) + s) \div k = g /\ ((k * g) + s) % k = s
      /\ \A s \in 0 .. e - 1 :
           /\ (k * q) + s \in 0 .. n - 1 /\ ((k * q) + s) \div k = q /\ ((k * q) + s) % k = s
  BY Stripes
<1>1. SumStriped(a, n, k) = AddUp([s \in 1 .. k |-> Acc(s - 1)], k)
  BY DEF SumStriped
<1>2. K \subseteq 0 .. n - 1
  BY DEF Known
<1> HIDE DEF q, e
<1>3. \A r \in 0 .. n - 1 : LaneValue(a, r) \in Int /\ LaneValue(a, r) = T({r} \cap K)
  BY LaneTotals
<1>4. ASSUME NEW s \in 0 .. k - 1 PROVE Lane(s) = T({r \in K : r % k = s /\ r \div k < q}) /\ Lane(s) \in Int
  <2> DEFINE S == {r \in K : r % k = s /\ r \div k < q}
             of == [r \in S |-> (r \div k) + 1]
             values == [g \in 1 .. q |-> LaneValue(a, k * (g - 1) + s)]
  <2>1. S \subseteq K
    OBVIOUS
  <2>2. of \in [S -> 1 .. q]
    BY <1>0, <1>2
  <2>3. ASSUME NEW g \in 1 .. q
        PROVE  values[g] \in Int /\ values[g] = T({r \in S : of[r] = g})
    <3> DEFINE x == k * (g - 1) + s
    <3>1. g - 1 \in 0 .. q - 1
      BY <1>0
    <3>2. x \in 0 .. n - 1 /\ x \div k = g - 1 /\ x % k = s
      BY <1>0, <3>1
    <3>3. \A r \in S : of[r] = g <=> r = x
      <4> SUFFICES ASSUME NEW r \in S PROVE of[r] = g <=> r = x
        OBVIOUS
      <4>1. r % k = s /\ r \div k \in Nat /\ r = (k * (r \div k)) + s /\ of[r] = (r \div k) + 1
        BY <1>0, <1>2
      <4>2. ASSUME of[r] = g PROVE r = x
        <5>1. r \div k = g - 1
          BY <4>1, <4>2
        <5> QED BY <4>1, <5>1
      <4>3. ASSUME r = x PROVE of[r] = g
        BY <3>2, <4>1, <4>3
      <4> QED BY <4>2, <4>3
    <3>4. x \in K => x \in S
      <4>1. x \div k < q
        BY <1>0, <3>1, <3>2
      <4> HIDE DEF x
      <4> QED BY <3>2, <4>1
    <3>5. {r \in S : of[r] = g} = {x} \cap K
      BY <3>3, <3>4
    <3>6. values[g] = LaneValue(a, x)
      OBVIOUS
    <3> HIDE DEF x, of, S, values
    <3> QED BY <1>3, <3>2, <3>5, <3>6
  <2>4. values \in [1 .. q -> Int]
    BY <2>3
  <2>5. AddUp(values, q) = T(S)
    <3>1. Bounded(a.data, K, n, b) /\ q \in Nat
      BY <1>0
    <3>2. TotalsBy(values, q, a.data, S, of, n)
      BY <2>2, <2>3, <2>4 DEF TotalsBy
    <3> HIDE DEF S, of, values, K
    <3> QED BY ONLY n \in Nat, <2>1, <3>1, <3>2, AddUpTotals
  <2>6. T(S) \in Int
    <3> HIDE DEF S
    <3> QED BY <2>1, TotalTypes
  <2> QED BY <2>5, <2>6
<1>5. ASSUME NEW s \in 0 .. k - 1 PROVE Acc(s) = T({r \in K : r % k = s}) /\ Acc(s) \in Int
  <2> DEFINE A == {r \in K : r % k = s /\ r \div k < q}
             C == {r \in K : r % k = s}
  <2>0. T(C) \in Int
    <3>1. C \subseteq K
      OBVIOUS
    <3> HIDE DEF C
    <3> QED BY <3>1, TotalTypes
  <2>1. CASE s < e
    <3> DEFINE x == (k * q) + s
               B == {x} \cap K
    <3>1. x \in 0 .. n - 1 /\ x \div k = q /\ x % k = s
      BY <1>0, <2>1
    <3>2. n - e + s = x
      <4>1. k * q \in Int
        BY <1>0, ProductType
      <4> QED BY <1>0, <4>1
    <3>3. A \subseteq K /\ B \subseteq K
      OBVIOUS
    <3>4. A \cap B = {}
      BY <1>0, <3>1
    <3>5. A \cup B = C
      <4>1. ASSUME NEW r \in C PROVE r \in A \/ r = x
        BY <1>0, <1>2
      <4>2. x \in K => x \in C
        BY <3>1
      <4> QED BY <4>1, <4>2
    <3>6. Acc(s) = Plus(T(A), T(B))
      <4>1. LaneValue(a, n - e + s) = T(B)
        BY <1>3, <3>1, <3>2
      <4> QED BY <1>4, <2>1, <4>1
    <3>7. Plus(T(A), T(B)) = T(A \cup B)
      <4> HIDE DEF A, B
      <4> QED BY <3>3, <3>4, TotalOfUnion
    <3>8. Acc(s) = T(C)
      <4> HIDE DEF A, B, C, x, Acc, Lane
      <4> QED BY ONLY <3>5, <3>6, <3>7
    <3> HIDE DEF A, B, C, x, Acc, Lane
    <3> QED BY ONLY <2>0, <3>8 DEF C
  <2>2. CASE ~(s < e)
    <3>1. A = C
      <4>1. ASSUME NEW r \in C PROVE r \in A
        BY <1>0, <1>2, <2>2
      <4> QED BY <4>1
    <3> QED BY <1>4, <2>0, <2>2, <3>1
  <2> QED BY <2>1, <2>2
<1> HIDE DEF Lane, Acc
<1>6. AddUp([s \in 1 .. k |-> Acc(s - 1)], k) = T(K)
  <2> DEFINE of == [r \in K |-> (r % k) + 1]
             values == [s \in 1 .. k |-> Acc(s - 1)]
  <2>1. of \in [K -> 1 .. k]
    BY <1>0, <1>2
  <2>2. ASSUME NEW s \in 1 .. k PROVE values[s] \in Int /\ values[s] = T({r \in K : of[r] = s})
    <3>1. s - 1 \in 0 .. k - 1
      OBVIOUS
    <3>2. {r \in K : of[r] = s} = {r \in K : r % k = s - 1}
      <4>1. \A r \in K : r % k \in Int
        BY <1>0, <1>2
      <4> QED BY <4>1
    <3> QED BY <1>5, <3>1, <3>2
  <2>3. values \in [1 .. k -> Int] /\ k \in Nat /\ K \subseteq K
    BY <2>2
  <2> HIDE DEF of, values, K
  <2>4. AddUp(values, k) = T(K)
    <3>1. Bounded(a.data, K, n, b)
      BY DEF K
    <3>2. TotalsBy(values, k, a.data, K, of, n)
      BY <2>1, <2>2, <2>3 DEF TotalsBy
    <3> QED BY ONLY n \in Nat, <2>3, <3>1, <3>2, AddUpTotals
  <2> QED BY <2>4 DEF values
<1> QED BY <1>1, <1>6

-----------------------------------------------------------------------------
(* Counts.                                                                 *)

FilledBy(vp, n) == \A k \in 0 .. BytesFor(n) - 1 : vp[k] \in ByteValues

\* The bits of a byte are so many rows.
LEMMA RowsOfByte ==
  ASSUME NEW base \in Nat, NEW B, B \subseteq 0 .. 7
  PROVE  LET S == {i \in base .. base + 7 : i - base \in B} IN
         IsFiniteSet(B) /\ IsFiniteSet(S) /\ Cardinality(S) = Cardinality(B) /\ Cardinality(B) \in Nat
<1> DEFINE S == {i \in base .. base + 7 : i - base \in B}
           f == [x \in B |-> base + x]
<1>1. IsFiniteSet(B)
  <2>1. IsFiniteSet(0 .. 7)
    <3>1. 0 \in Int /\ 7 \in Int
      OBVIOUS
    <3> QED BY ONLY <3>1, FS_Interval
  <2>2. B \in SUBSET (0 .. 7)
    OBVIOUS
  <2> QED BY <2>1, <2>2, FS_Subset
<1>2. f \in [B -> S]
  OBVIOUS
<1>3. \A x, y \in B : f[x] = f[y] => x = y
  OBVIOUS
<1>4. \A y \in S : \E x \in B : f[x] = y
  <2> SUFFICES ASSUME NEW y \in S PROVE \E x \in B : f[x] = y
    OBVIOUS
  <2>1. y - base \in B /\ base + (y - base) = y
    OBVIOUS
  <2>2. f[y - base] = y
    BY <2>1
  <2> QED BY <2>1, <2>2
<1>5. f \in Bijection(B, S)
  <2> HIDE DEF f, S
  <2>1. IsInjective(f)
    BY <1>2, <1>3 DEF IsInjective
  <2> QED BY <1>2, <1>4, <2>1 DEF Bijection, Injection, Surjection
<1>6. ExistsBijection(B, S)
  BY <1>5 DEF ExistsBijection
<1> HIDE DEF S
<1>7. IsFiniteSet(S) /\ Cardinality(S) = Cardinality(B) /\ Cardinality(B) \in Nat
  BY <1>1, <1>6, FS_Bijection, FS_CardinalityType
<1> QED BY <1>1, <1>7 DEF S

\* ones[k] bits are set in the first k bytes.
CountsBits(ones, vp, m) ==
  /\ ones \in [0 .. m -> Nat] /\ ones[0] = 0
  /\ \A k \in 1 .. m : ones[k] = ones[k - 1] + Cardinality(vp[k - 1])

LEMMA CountValidIs ==
  ASSUME NEW n \in Nat, NEW vp, vp # NullPtr, \A k \in 0 .. (n \div 8) - 1 : Cardinality(vp[k]) \in Nat
  PROVE  \E ones : /\ CountsBits(ones, vp, n \div 8)
                   /\ CountValid(vp, n)
                        = ones[n \div 8] + IF n % 8 = 0 THEN 0 ELSE Cardinality(vp[n \div 8] \cap (0 .. (n % 8) - 1))
<1> DEFINE m == n \div 8
           step == [x \in (1 .. m) \X Nat |-> x[2] + Cardinality(vp[x[1] - 1])]
           IsLoop(f) == f = [k \in 0 .. n \div 8 |-> IF k = 0 THEN 0 ELSE f[k - 1] + Cardinality(vp[k - 1])]
           ones == CHOOSE f : IsLoop(f)
<1>0. m \in Nat
  OBVIOUS
<1>1. step \in [(1 .. m) \X Nat -> Nat] /\ \A k \in 1 .. m, x \in Nat : step[<<k, x>>] = x + Cardinality(vp[k - 1])
  <2>1. \A k \in 1 .. m : Cardinality(vp[k - 1]) \in Nat
    BY <1>0
  <2> HIDE DEF m
  <2> QED BY <2>1
<1> HIDE DEF step
<1>2. PICK f : Follows(f, m, Nat, 0, step)
  <2>1. 0 \in Nat /\ step \in [(1 .. m) \X Nat -> Nat]
    BY <1>1
  <2> HIDE DEF m
  <2> QED BY ONLY <2>1, <1>0, LoopExists
<1>2a. /\ f = [k \in 0 .. m |-> IF k = 0 THEN 0 ELSE step[<<k, f[k - 1]>>]]
       /\ \A k \in 0 .. m : f[k] \in Nat
  BY <1>2 DEF Follows
<1>3. \A k \in 0 .. m : (IF k = 0 THEN 0 ELSE step[<<k, f[k - 1]>>])
                          = IF k = 0 THEN 0 ELSE f[k - 1] + Cardinality(vp[k - 1])
  <2> HIDE DEF m
  <2> SUFFICES ASSUME NEW k \in 0 .. m, k # 0 PROVE step[<<k, f[k - 1]>>] = f[k - 1] + Cardinality(vp[k - 1])
    OBVIOUS
  <2>1. k \in 1 .. m /\ k - 1 \in 0 .. m
    BY <1>0
  <2> QED BY <1>1, <1>2a, <2>1
<1>4. IsLoop(f)
  BY <1>2a, <1>3
<1>5. IsLoop(ones)
  <2>1. \E g : IsLoop(g)
    BY <1>4
  <2> HIDE DEF IsLoop
  <2> QED BY <2>1
<1>6. CountValid(vp, n)
        = ones[n \div 8] + IF n % 8 = 0 THEN 0 ELSE Cardinality(vp[n \div 8] \cap (0 .. (n % 8) - 1))
  BY DEF CountValid
<1> HIDE DEF ones
<1>7. ones = [k \in 0 .. m |-> IF k = 0 THEN 0 ELSE ones[k - 1] + Cardinality(vp[k - 1])]
  BY <1>5
<1> HIDE DEF m
<1>8. ones[0] = 0 /\ \A k \in 1 .. m : ones[k] = ones[k - 1] + Cardinality(vp[k - 1])
  BY <1>0, <1>7
<1>9. \A k \in 0 .. m : ones[k] \in Nat
  <2> DEFINE G == {k \in 0 .. m : ones[k] \in Nat}
  <2>1. 0 \in G
    BY <1>0, <1>8
  <2>2. ASSUME NEW k \in 1 .. m, k - 1 \in G PROVE k \in G
    <3>1. k - 1 \in 0 .. (n \div 8) - 1
      BY <1>0 DEF m
    <3>2. Cardinality(vp[k - 1]) \in Nat
      BY <3>1
    <3> QED BY <1>8, <2>2, <3>2
  <2> HIDE DEF G
  <2>3. \A k \in 0 .. m : k \in G
    BY <1>0, <2>1, <2>2, StepByStep
  <2> QED BY <2>3 DEF G
<1>10. CountsBits(ones, vp, m)
  BY <1>7, <1>8, <1>9 DEF CountsBits
<1> QED BY <1>6, <1>10 DEF m

LEMMA CountExact ==
  ASSUME NEW a, NEW n \in Nat, a.vp # NullPtr => FilledBy(a.vp, n)
  PROVE  IsFiniteSet(Known(a, n)) /\ count_null(a, n) = Cardinality(Known(a, n)) /\ Cardinality(Known(a, n)) \in 0 .. n
<1> DEFINE K == Known(a, n)
<1>1. IsFiniteSet(K) /\ Cardinality(K) \in 0 .. n
  <2>1. IsFiniteSet(0 .. n - 1) /\ Cardinality(0 .. n - 1) = n
    <3>1. 0 \in Int /\ n - 1 \in Int /\ (0 > n - 1 => n = 0) /\ (n - 1) - 0 + 1 = n
      OBVIOUS
    <3> QED BY <3>1, FS_Interval
  <2>2. K \in SUBSET (0 .. n - 1)
    BY DEF Known
  <2> HIDE DEF K
  <2>3. IsFiniteSet(K) /\ Cardinality(K) <= n
    BY <2>1, <2>2, FS_Subset
  <2>4. Cardinality(K) \in Nat
    BY <2>3, FS_CardinalityType
  <2> QED BY <2>3, <2>4
<1>2. CASE a.vp = NullPtr
  <2>1. K = 0 .. n - 1
    BY <1>2 DEF Known, Bit
  <2>2. Cardinality(0 .. n - 1) = n
    <3>1. 0 \in Int /\ n - 1 \in Int /\ (0 > n - 1 => n = 0) /\ (n - 1) - 0 + 1 = n
      OBVIOUS
    <3> QED BY <3>1, FS_Interval
  <2> QED BY <1>1, <1>2, <2>1, <2>2 DEF count_null, CountValid
<1>3. CASE a.vp # NullPtr
  <2> DEFINE vp == a.vp
             m == n \div 8
             e == n % 8
             Upto(k) == {i \in 0 .. (8 * k) - 1 : Bit(a.vp, i)}
  <2>0. m \in Nat /\ e \in 0 .. 7 /\ n = (8 * m) + e
    OBVIOUS
  <2>1. \A k \in 0 .. BytesFor(n) - 1 : vp[k] \subseteq 0 .. 7
    BY <1>3 DEF FilledBy, ByteValues
  <2>2. (\A k \in 0 .. m - 1 : k \in 0 .. BytesFor(n) - 1) /\ (e # 0 => m \in 0 .. BytesFor(n) - 1)
    BY DEF BytesFor
  <2>3. \A k \in 0 .. m - 1 : Cardinality(vp[k]) \in Nat
    <3> SUFFICES ASSUME NEW k \in 0 .. m - 1 PROVE Cardinality(vp[k]) \in Nat
      OBVIOUS
    <3>1. vp[k] \subseteq 0 .. 7 /\ 0 \in Nat
      BY <2>1, <2>2
    <3> QED BY <3>1, RowsOfByte
  <2>4. PICK ones : /\ CountsBits(ones, vp, m)
                    /\ CountValid(vp, n) = ones[m] + IF e = 0 THEN 0 ELSE Cardinality(vp[m] \cap (0 .. e - 1))
    BY <1>3, <2>3, CountValidIs
  <2>5. ones[0] = 0 /\ ones \in [0 .. m -> Nat] /\ \A k \in 1 .. m : ones[k] = ones[k - 1] + Cardinality(vp[k - 1])
    BY <2>4 DEF CountsBits
  <2>6. ASSUME NEW k \in Nat, NEW i \in 8 * k .. (8 * k) + 7 PROVE Bit(a.vp, i) <=> i - (8 * k) \in vp[k]
    <3>1. i \div 8 = k /\ i % 8 = i - (8 * k)
      OBVIOUS
    <3> QED BY <1>3, <3>1 DEF Bit
  <2> HIDE DEF m, e
  <2> DEFINE G == {k \in 0 .. m : IsFiniteSet(Upto(k)) /\ ones[k] = Cardinality(Upto(k))}
  <2>7. 0 \in G
    <3>1. Upto(0) = {}
      OBVIOUS
    <3> QED BY <2>0, <2>5, <3>1, FS_EmptySet
  <2>8. ASSUME NEW k \in 1 .. m, k - 1 \in G PROVE k \in G
    <3> DEFINE base == 8 * (k - 1)
               A == Upto(k - 1)
               B == {i \in base .. base + 7 : i - base \in vp[k - 1]}
    <3>1. k - 1 \in 0 .. m - 1 /\ k - 1 \in Nat /\ base \in Nat /\ 8 * k = base + 8
      BY <2>0
    <3>2. vp[k - 1] \subseteq 0 .. 7
      BY <2>1, <2>2, <3>1
    <3>3. IsFiniteSet(B) /\ Cardinality(B) = Cardinality(vp[k - 1])
      BY <3>1, <3>2, RowsOfByte
    <3>4. B = {i \in base .. base + 7 : Bit(a.vp, i)}
      BY <2>6, <3>1
    <3>5. Upto(k) = A \cup B /\ A \cap B = {}
      BY <3>1, <3>4
    <3>6. IsFiniteSet(A) /\ ones[k - 1] = Cardinality(A)
      BY <2>8
    <3> HIDE DEF A, B, base, G
    <3>7. IsFiniteSet(A \cup B) /\ Cardinality(A \cup B) = Cardinality(A) + Cardinality(B) - Cardinality(A \cap B)
      BY <3>3, <3>6, FS_Union
    <3>8. Cardinality(A \cap B) = 0 /\ Cardinality(A) \in Nat /\ Cardinality(B) \in Nat
      BY <3>3, <3>5, <3>6, FS_EmptySet, FS_CardinalityType
    <3>9. ones[k] = Cardinality(A \cup B)
      BY <2>5, <3>3, <3>6, <3>7, <3>8
    <3> HIDE DEF Upto
    <3>10. IsFiniteSet(Upto(k)) /\ ones[k] = Cardinality(Upto(k))
      BY ONLY <3>5, <3>7, <3>9
    <3> QED BY <2>0, <3>10 DEF G
  <2> HIDE DEF G
  <2>9. \A k \in 0 .. m : k \in G
    BY <2>0, <2>7, <2>8, StepByStep
  <2>10. IsFiniteSet(Upto(m)) /\ ones[m] = Cardinality(Upto(m))
    <3>1. m \in 0 .. m
      BY <2>0
    <3>2. m \in G
      BY <2>9, <3>1
    <3> QED BY <3>2 DEF G
  <2>11. CASE e = 0
    <3>1. K = Upto(m)
      BY <2>0, <2>11 DEF Known
    <3>2. ones[m] \in Nat
      BY <2>0, <2>5
    <3> QED BY <1>1, <2>4, <2>10, <2>11, <3>1, <3>2 DEF count_null
  <2>12. CASE e # 0
    <3> DEFINE base == 8 * m
               C == vp[m] \cap (0 .. e - 1)
               B == {i \in base .. base + 7 : i - base \in C}
               A == Upto(m)
    <3>1. base \in Nat /\ C \subseteq 0 .. 7
      BY <2>0
    <3>2. IsFiniteSet(B) /\ Cardinality(B) = Cardinality(C)
      <4> HIDE DEF C, base
      <4> QED BY <3>1, RowsOfByte
    <3>3. B = {i \in base .. base + e - 1 : Bit(a.vp, i)}
      BY <2>0, <2>6
    <3>4. K = A \cup B /\ A \cap B = {}
      BY <2>0, <3>1, <3>3 DEF Known
    <3>5. IsFiniteSet(A) /\ ones[m] = Cardinality(A)
      BY <2>10
    <3>6. CountValid(vp, n) = ones[m] + Cardinality(C)
      BY <2>4, <2>12
    <3> HIDE DEF A, B, C, base, K
    <3>7. IsFiniteSet(A \cup B) /\ Cardinality(A \cup B) = Cardinality(A) + Cardinality(B) - Cardinality(A \cap B)
      BY <3>2, <3>5, FS_Union
    <3>8. Cardinality(A \cap B) = 0 /\ Cardinality(A) \in Nat /\ Cardinality(B) \in Nat
      BY <3>2, <3>4, <3>5, FS_EmptySet, FS_CardinalityType
    <3>9. CountValid(vp, n) = Cardinality(K)
      BY <3>2, <3>4, <3>5, <3>6, <3>7, <3>8
    <3> QED BY <1>1, <3>9 DEF count_null, K
  <2> QED BY <2>11, <2>12
<1> QED BY <1>2, <1>3

-----------------------------------------------------------------------------
(* Means and variances.                                                    *)

LEMMA SquareBound ==
  ASSUME NEW m \in Nat, NEW y \in Int, -m <= y, y <= m
  PROVE  y * y \in Nat /\ y * y <= m * m
<1>1. ASSUME NEW z \in Nat, z <= m PROVE z * z \in Nat /\ z * z <= m * m
  <2> DEFINE d == m - z
  <2>1. d \in Nat /\ m = z + d
    BY <1>1
  <2> HIDE DEF d
  <2>2. m * m = (m * z) + (m * d)
    BY <2>1, Distributes
  <2>3. z * m = (z * z) + (z * d)
    BY <2>1, Distributes
  <2>4. m * z = z * m /\ m * d \in Nat /\ z * d \in Nat /\ z * z \in Nat
    BY <2>1
  <2> QED BY <2>2, <2>3, <2>4
<1>2. CASE y >= 0
  BY <1>1, <1>2
<1>3. CASE y < 0
  <2>1. 0 - y \in Nat /\ 0 - y <= m
    BY <1>3
  <2>2. (0 - y) * (0 - y) = y * y
    OBVIOUS
  <2> QED BY <1>1, <2>1, <2>2
<1> QED BY <1>2, <1>3

LEMMA ProductBound ==
  ASSUME NEW n \in Nat, NEW c \in 0 .. n, NEW b \in Nat, NEW x \in Int, -b <= x, x <= b
  PROVE  x * c \in Int /\ -(n * b) <= x * c /\ x * c <= n * b
<1> DEFINE d == n - c
           u == b - x
           v == b + x
<1>1. c \in Nat /\ d \in Nat /\ n = c + d /\ u \in Nat /\ v \in Nat /\ b = x + u /\ b = v - x
  OBVIOUS
<1>2. b * n = (b * c) + (b * d)
  <2> HIDE DEF d
  <2> QED BY <1>1, Distributes
<1>3. c * b = (c * x) + (c * u)
  <2> HIDE DEF u
  <2> QED BY <1>1, Distributes
<1>4. c * v = (c * b) + (c * x)
  <2>1. v = b + x
    OBVIOUS
  <2> HIDE DEF v
  <2> QED BY <1>1, <2>1, Distributes
<1>5. /\ b * n = n * b /\ c * b = b * c /\ c * x = x * c
      /\ b * d \in Nat /\ c * u \in Nat /\ c * v \in Nat /\ x * c \in Int /\ b * c \in Int /\ n * b \in Int
  <2> HIDE DEF d, u, v
  <2> QED BY <1>1
<1> HIDE DEF d, u, v
<1> QED BY ONLY <1>2, <1>3, <1>4, <1>5

\* The sum of a one for each row is their number.
LEMMA SumOfOnes ==
  ASSUME NEW n \in Nat, NEW K, K \subseteq 0 .. n - 1
  PROVE  Terms([i \in K |-> 1], n) /\ SumOver([i \in K |-> 1], n) = Cardinality(K)
<1> DEFINE f == [i \in K |-> 1]
           A(i) == K \cap (0 .. i - 1)
           sum == [i \in 0 .. n |-> Cardinality(A(i))]
<1>1. Terms(f, n)
  BY DEF Terms, Term
<1>2. \A i \in 0 .. n : IsFiniteSet(A(i)) /\ Cardinality(A(i)) \in Nat
  <2> SUFFICES ASSUME NEW i \in 0 .. n PROVE IsFiniteSet(A(i)) /\ Cardinality(A(i)) \in Nat
    OBVIOUS
  <2>1. IsFiniteSet(0 .. i - 1) /\ A(i) \in SUBSET (0 .. i - 1)
    BY FS_Interval
  <2> HIDE DEF A
  <2> QED BY <2>1, FS_Subset, FS_CardinalityType
<1>3. sum \in [0 .. n -> Int]
  BY <1>2
<1>4. sum[0] = 0
  <2>1. A(0) = {}
    OBVIOUS
  <2> QED BY <2>1, FS_EmptySet
<1>5. ASSUME NEW i \in 1 .. n PROVE sum[i] = sum[i - 1] + Term(f, i - 1)
  <2>1. i \in 0 .. n /\ i - 1 \in 0 .. n
    OBVIOUS
  <2>2. sum[i] = Cardinality(A(i)) /\ sum[i - 1] = Cardinality(A(i - 1)) /\ IsFiniteSet(A(i - 1))
        /\ Cardinality(A(i - 1)) \in Nat
    BY <1>2, <2>1
  <2>3. CASE i - 1 \in K
    <3>1. A(i) = A(i - 1) \cup {i - 1} /\ i - 1 \notin A(i - 1)
      BY <2>3
    <3>2. Term(f, i - 1) = 1
      BY <2>3 DEF Term
    <3> HIDE DEF A, sum, f
    <3>3. Cardinality(A(i)) = Cardinality(A(i - 1)) + 1
      BY <2>2, <3>1, FS_AddElement
    <3> QED BY <2>2, <3>2, <3>3
  <2>4. CASE i - 1 \notin K
    <3>1. A(i) = A(i - 1)
      BY <2>4
    <3>2. Term(f, i - 1) = 0
      BY <2>4 DEF Term
    <3> HIDE DEF A, sum, f
    <3> QED BY <2>2, <3>1, <3>2
  <2> QED BY <2>3, <2>4
<1>6. Sums(sum, f, n)
  <2> HIDE DEF sum, f
  <2> QED BY <1>3, <1>4, <1>5 DEF Sums
<1>7. sum[n] = Cardinality(K)
  <2>1. A(n) = K
    OBVIOUS
  <2>2. n \in 0 .. n
    OBVIOUS
  <2>3. sum[n] = Cardinality(A(n))
    BY <2>2
  <2> HIDE DEF A, sum
  <2> QED BY <2>1, <2>3
<1> HIDE DEF sum, f
<1>8. SumOver(f, n) = Cardinality(K)
  BY <1>1, <1>6, <1>7, SumIs
<1> QED BY <1>1, <1>8 DEF f

LEMMA SquareExpands ==
  ASSUME NEW x \in Int, NEW c \in Int, NEW p \in Int
  PROVE  ((x * c) - p) * ((x * c) - p) = (((c * c) * (x * x)) + ((0 - (2 * (c * p))) * x)) + ((p * p) * 1)
OBVIOUS

LEMMA VarianceIdentity ==
  ASSUME NEW c \in Int, NEW p \in Int, NEW w \in Int, NEW u \in Int,
         u = ((((c * c) * w) + ((0 - (2 * (c * p))) * p)) + ((p * p) * c))
  PROVE  u * c * (c - 1) = (c * c * (c - 1)) * (c * w - p * p)
OBVIOUS

SumOfSquared(data, K, n) == SumOver([i \in K |-> data[i] * data[i]], n)

\* The deviations of integers from p / c, squared and times c squared.
Deviates(deviations, data, c, p, K) ==
  \A i \in K : data[i] \in Int /\ deviations[i] = ((data[i] * c) - p) * ((data[i] * c) - p)

\* The sum of the deviations, from the sum of the squares.
SquaresSum(deviations, data, c, p, K, n) ==
  /\ SumOfSquared(data, K, n) \in Int /\ p \in Int
  /\ SumOver(Part(deviations, K), n)
       = ((((c * c) * SumOfSquared(data, K, n)) + ((0 - (2 * (c * p))) * p)) + ((p * p) * c))

\* The squared deviations of finite values from their mean, p over c.
LEMMA SumOfSquares ==
  ASSUME NEW n \in Nat, NEW K, K \subseteq 0 .. n - 1, NEW data, NEW p, p = SumOver(Part(data, K), n),
         NEW c, c = Cardinality(K), c \in Nat, NEW deviations, Deviates(deviations, data, c, p, K)
  PROVE  SquaresSum(deviations, data, c, p, K, n)
<1> DEFINE f == [i \in K |-> data[i] * data[i]]
           g == Part(data, K)
           one == [i \in K |-> 1]
           d == 0 - (2 * (c * p))
           m == [i \in K |-> ((c * c) * (data[i] * data[i])) + (d * data[i])]
           h == Part(deviations, K)
<1>0. \A i \in K : data[i] \in Int /\ deviations[i] = ((data[i] * c) - p) * ((data[i] * c) - p)
  BY DEF Deviates
<1>1. Terms(f, n) /\ Terms(g, n)
  BY <1>0 DEF Terms, Term, Part
<1>2. Terms(one, n) /\ SumOver(one, n) = c
  BY SumOfOnes
<1>3. SumOver(f, n) \in Int /\ p \in Int
  <2> HIDE DEF f, g
  <2>1. SumOver(f, n) \in Int /\ SumOver(g, n) \in Int
    BY <1>1, SumType
  <2> QED BY <2>1 DEF g
<1>4. c * c \in Int /\ d \in Int /\ p * p \in Int /\ 1 \in Int
  <2>1. c * p \in Int
    BY <1>3
  <2> QED BY <1>3, <2>1
<1>5. \A i \in 0 .. n - 1 : Term(m, i) = ((c * c) * Term(f, i)) + (d * Term(g, i))
  <2> SUFFICES ASSUME NEW i \in 0 .. n - 1 PROVE Term(m, i) = ((c * c) * Term(f, i)) + (d * Term(g, i))
    OBVIOUS
  <2>1. CASE i \in K
    BY <2>1 DEF Term, Part
  <2>2. CASE i \notin K
    <3>1. Term(m, i) = 0 /\ Term(f, i) = 0 /\ Term(g, i) = 0
      BY <2>2 DEF Term, Part
    <3>2. (c * c) * 0 = 0 /\ d * 0 = 0
      BY <1>4
    <3> QED BY <3>1, <3>2
  <2> QED BY <2>1, <2>2
<1>6. \A i \in 0 .. n - 1 : Term(h, i) = (1 * Term(m, i)) + ((p * p) * Term(one, i))
  <2> SUFFICES ASSUME NEW i \in 0 .. n - 1 PROVE Term(h, i) = (1 * Term(m, i)) + ((p * p) * Term(one, i))
    OBVIOUS
  <2>1. CASE i \in K
    <3> DEFINE x == data[i]
    <3>1. x \in Int
      BY <1>0, <2>1
    <3>2. Term(h, i) = ((x * c) - p) * ((x * c) - p) /\ Term(m, i) = ((c * c) * (x * x)) + (d * x) /\ Term(one, i) = 1
      BY <1>0, <2>1 DEF Term, Part
    <3> HIDE DEF x, h, m, one
    <3>3. ((x * c) - p) * ((x * c) - p) = (((c * c) * (x * x)) + (d * x)) + ((p * p) * 1)
      BY <1>3, <3>1, SquareExpands
    <3>4. ((c * c) * (x * x)) + (d * x) \in Int
      <4>1. x * x \in Int
        BY <3>1
      <4>2. (c * c) * (x * x) \in Int /\ d * x \in Int
        <5> HIDE DEF d
        <5> QED BY <1>4, <3>1, <4>1, ProductType
      <4> HIDE DEF d
      <4> QED BY <4>2
    <3>5. 1 * Term(m, i) = Term(m, i)
      BY <3>2, <3>4
    <3> QED BY <3>2, <3>3, <3>5
  <2>2. CASE i \notin K
    <3>1. Term(m, i) = 0 /\ Term(h, i) = 0 /\ Term(one, i) = 0
      BY <2>2 DEF Term, Part
    <3>2. (p * p) * 0 = 0 /\ 1 * 0 = 0
      BY <1>4
    <3> QED BY <3>1, <3>2
  <2> QED BY <2>1, <2>2
<1> DEFINE cc == c * c
           pp == p * p
<1> HIDE DEF f, g, m, h, one, d, cc, pp
<1>7. Terms(m, n) /\ SumOver(m, n) = (cc * SumOver(f, n)) + (d * SumOver(g, n))
  <2>1. cc \in Int /\ \A i \in 0 .. n - 1 : Term(m, i) = (cc * Term(f, i)) + (d * Term(g, i))
    BY <1>4, <1>5 DEF cc
  <2> QED BY <1>1, <1>4, <2>1, SumsCombine
<1>8. SumOver(h, n) = (1 * SumOver(m, n)) + (pp * SumOver(one, n))
  <2>1. pp \in Int /\ \A i \in 0 .. n - 1 : Term(h, i) = (1 * Term(m, i)) + (pp * Term(one, i))
    BY <1>4, <1>6 DEF pp
  <2> QED BY <1>2, <1>4, <1>7, <2>1, SumsCombine
<1>9. SumOver(m, n) \in Int
  BY <1>7, SumType
<1>10. SumOver(g, n) = p
  BY DEF g
<1>11. SumOver(h, n) = ((cc * SumOver(f, n)) + (d * p)) + (pp * c)
  BY <1>2, <1>7, <1>8, <1>9, <1>10
<1>12. SumOfSquared(data, K, n) = SumOver(f, n)
  BY DEF SumOfSquared, f
<1>13. SumOver(h, n) = ((((c * c) * SumOver(f, n)) + ((0 - (2 * (c * p))) * p)) + ((p * p) * c))
  BY <1>11 DEF cc, pp, d
<1> QED BY <1>3, <1>12, <1>13 DEF SquaresSum, h

LEMMA MeanComputes ==
  ASSUME NEW a, NEW n \in Nat, NEW b, Bounded(a.data, Known(a, n), n, b), a.vp # NullPtr => FilledBy(a.vp, n),
         NEW k \in Nat \ {0}
  PROVE  mean_null(a, n, k) = IF Known(a, n) = {} THEN NoRatio
                              ELSE <<Total(Part(a.data, Known(a, n)), n), Cardinality(Known(a, n))>>
<1> DEFINE K == Known(a, n)
<1>1. IsFiniteSet(K) /\ count_null(a, n) = Cardinality(K)
  BY CountExact
<1>2. SumStriped(a, n, k) = Total(Part(a.data, K), n)
  BY StripedSum
<1>3. Cardinality(K) = 0 <=> K = {}
  <2> HIDE DEF K
  <2> QED BY <1>1, FS_EmptySet
<1> HIDE DEF K
<1>4. mean_null(a, n, k) = IF K = {} THEN NoRatio ELSE <<Total(Part(a.data, K), n), Cardinality(K)>>
  BY <1>1, <1>2, <1>3 DEF mean_null, Mean
<1> QED BY <1>4 DEF K

KeepsFinite(data, p, squares, K) == \A i \in K : Finite(data[i]) /\ Finite(p) => Finite(squares[i])

\* The squares of the second pass are floats with a finite sum.
LEMMA DeviationsBounded ==
  ASSUME NEW data, NEW K, NEW n \in Nat, NEW b, Bounded(data, K, n, b),
         n * Squared(2 * (n * b)) < PosInf, NEW c \in 0 .. n, NEW p \in Int,
         Finite(p) => -(n * b) <= p /\ p <= n * b,
         NEW squares, \A i \in K : squares[i] = SquaredDeviation(data[i], p, c)
  PROVE  /\ Bounded(squares, K, n, Squared(2 * (n * b)))
         /\ KeepsFinite(data, p, squares, K)
<1> DEFINE m == 2 * (n * b)
<1>1. b \in Nat /\ n * b \in Nat /\ m \in Nat /\ K \subseteq 0 .. n - 1
  BY DEF Bounded
<1>2. Squared(m) \in Nat
  BY <1>1, SquareBound DEF Squared
<1>3. n * Squared(m) < PosInf
  OBVIOUS
<1> HIDE DEF m
<1>4. ASSUME NEW i \in K
      PROVE  /\ squares[i] \in NegInf .. NaN
             /\ Finite(squares[i]) => -Squared(m) <= squares[i] /\ squares[i] <= Squared(m)
             /\ Finite(data[i]) /\ Finite(p) => Finite(squares[i])
  <2> DEFINE x == data[i]
  <2>1. /\ x \in NegInf .. NaN /\ x \in Int /\ (Finite(x) => -b <= x /\ x <= b)
        /\ squares[i] = SquaredDeviation(x, p, c)
    BY FloatBounds DEF Bounded
  <2> HIDE DEF x
  <2>2. CASE Finite(x) /\ Finite(p)
    <3>1. x * c \in Int /\ -(n * b) <= x * c /\ x * c <= n * b
      BY <1>1, <2>1, <2>2, ProductBound
    <3> DEFINE y == (x * c) - p
    <3>2. y \in Int /\ -m <= y /\ y <= m
      <4> DEFINE nb == n * b
                 xc == x * c
      <4>1. xc \in Int /\ -nb <= xc /\ xc <= nb /\ -nb <= p /\ p <= nb /\ nb \in Nat /\ m = 2 * nb
        BY <1>1, <2>2, <3>1 DEF m
      <4>2. y = xc - p
        OBVIOUS
      <4> HIDE DEF y, xc, nb
      <4> QED BY ONLY <4>1, <4>2, p \in Int
    <3>3. squares[i] = y * y
      <4>1. x # NaN /\ p # NaN
        BY <2>2, FloatBounds
      <4> QED BY <2>1, <2>2, <4>1 DEF SquaredDeviation
    <3> HIDE DEF y
    <3>4. squares[i] \in Nat /\ squares[i] <= Squared(m)
      BY <1>1, <3>2, <3>3, SquareBound DEF Squared
    <3>5. squares[i] <= NaN /\ Finite(squares[i])
      <4>1. n \in Nat \ {0}
        BY <1>1
      <4>2. Squared(m) <= n * Squared(m)
        <5> DEFINE q == Squared(m)
                   d == n - 1
        <5>1. q \in Nat /\ d \in Nat /\ n = 1 + d
          BY <1>2, <4>1
        <5> HIDE DEF q, d
        <5>2. q * n = (q * 1) + (q * d) /\ q * 1 = q /\ q * d \in Nat /\ q * n = n * q
          BY <5>1, Distributes
        <5>3. q <= n * q
          BY <5>1, <5>2
        <5> QED BY <5>3 DEF q
      <4> DEFINE q == Squared(m)
                 nq == n * Squared(m)
      <4>3. q \in Nat /\ nq \in Int /\ q <= nq /\ nq < PosInf /\ squares[i] <= q
        BY <1>2, <1>3, <3>4, <4>2
      <4> HIDE DEF q, nq
      <4>4. squares[i] < PosInf
        BY ONLY <3>4, <4>3, FloatBounds
      <4> QED BY ONLY <3>4, <4>4, FloatBounds DEF Finite
    <3> QED BY ONLY <1>2, <3>4, <3>5, FloatBounds
  <2>3. CASE ~(Finite(x) /\ Finite(p))
    <3>1. squares[i] = NaN \/ squares[i] = PosInf
      BY <2>1, <2>3 DEF SquaredDeviation
    <3> QED BY <2>3, <3>1, FloatBounds DEF x
  <2> QED BY <2>2, <2>3
<1> QED BY <1>1, <1>2, <1>3, <1>4 DEF Bounded, KeepsFinite, m

\* Both passes give the variance, with NaN for fewer than two values or one that is not finite.
LEMMA VarianceComputes ==
  ASSUME NEW a, NEW n \in Nat, NEW b, Bounded(a.data, Known(a, n), n, b), n * Squared(2 * (n * b)) < PosInf,
         a.vp # NullPtr => FilledBy(a.vp, n), NEW k1 \in Nat \ {0}, NEW k2 \in Nat \ {0}
  PROVE  IsVariance(var_null(a, n, k1, k2), Part(a.data, Known(a, n)), n)
<1> DEFINE K == Known(a, n)
           data == a.data
           c == Cardinality(K)
           p == Total(Part(data, K), n)
           values == Part(data, K)
           deviations == [i \in 0 .. n - 1 |-> SquaredDeviation(data[i], p, c)]
           squares == Column(deviations, a.vp)
           w == SumOfSquared(data, K, n)
<1>0. K \subseteq 0 .. n - 1 /\ Bounded(data, K, n, b)
  BY DEF Known
<1>1. IsFiniteSet(K) /\ count_null(a, n) = c /\ c \in 0 .. n
  BY CountExact
<1>2. K = {} <=> c = 0
  <2> HIDE DEF K
  <2> QED BY <1>1, FS_EmptySet
<1>3. mean_null(a, n, k1) = IF K = {} THEN NoRatio ELSE <<p, c>>
  BY MeanComputes
<1>4. NoRatio[1] = NaN
  BY DEF NoRatio
<1>5. DOMAIN values = K /\ (\E v \in ValuesIn(values) : ~Finite(v)) = ~AllFinite(data, K)
  BY DEF Part, ValuesIn, AllFinite
<1>6. IsVariance(var_null(a, n, k1, k2), values, n)
        <=> IF c < 2 \/ ~AllFinite(data, K) THEN var_null(a, n, k1, k2)[1] = NaN
            ELSE var_null(a, n, k1, k2)[1] * c * (c - 1)
                   = var_null(a, n, k1, k2)[2] * (c * w - SumOver(values, n) * SumOver(values, n))
  <2>1. [i \in DOMAIN values |-> values[i] * values[i]] = [i \in K |-> data[i] * data[i]]
    BY <1>5 DEF Part
  <2> HIDE DEF K, values, data
  <2> QED BY <1>5, <2>1 DEF IsVariance, SumOfSquared
<1>7. p \in Int
  BY TotalTypes
<1>8. CASE c < 2 \/ p = NaN
  <2>1. mean_null(a, n, k1)[1] = NaN \/ c < 2
    BY <1>3, <1>4, <1>8
  <2>2. var_null(a, n, k1, k2) = NoRatio
    <3> HIDE DEF c, p, K
    <3> QED BY <1>1, <2>1 DEF var_null
  <2>3. c < 2 \/ ~AllFinite(data, K)
    <3>1. ASSUME AllFinite(data, K) PROVE Finite(p)
      <4>1. K \subseteq K
        OBVIOUS
      <4> HIDE DEF K, data
      <4> QED BY <1>0, <3>1, <4>1, FiniteTotal DEF p
    <3> QED BY <1>8, <3>1, FloatBounds
  <2> QED BY <1>4, <1>6, <2>2, <2>3
<1>9. CASE c >= 2 /\ p # NaN
  <2>1. mean_null(a, n, k1) = <<p, c>> /\ mean_null(a, n, k1)[1] = p /\ mean_null(a, n, k1)[2] = c
    BY <1>2, <1>3, <1>9
  <2>2. var_null(a, n, k1, k2) = <<SumStriped(squares, n, k2), c * c * (c - 1)>>
    <3>1. ~(c < 2)
      BY <1>1, <1>9
    <3> HIDE DEF c, p, K
    <3> QED BY <1>1, <1>9, <2>1, <3>1 DEF var_null
  <2>3. Known(squares, n) = K /\ squares.data = deviations /\ squares.vp = a.vp
    BY DEF Known, Column
  <2>4. \A i \in K : deviations[i] = SquaredDeviation(data[i], p, c)
    BY <1>0
  <2>5. Finite(p) => -(n * b) <= p /\ p <= n * b
    <3> SUFFICES ASSUME Finite(p) PROVE -(n * b) <= p /\ p <= n * b
      OBVIOUS
    <3>1. K \subseteq K
      OBVIOUS
    <3>2. AllFinite(data, K)
      BY <3>1, FiniteRows, TotalCases, FloatBounds
    <3>3. p = SumOver(Part(data, K), n)
      BY <3>1, <3>2, FiniteTotal
    <3> QED BY <3>1, <3>2, <3>3, FiniteSum
  <2>6a. Bounded(deviations, K, n, Squared(2 * (n * b)))
    <3> HIDE DEF deviations, K, data, c, p
    <3> QED BY <1>0, <1>1, <1>7, <2>4, <2>5, DeviationsBounded
  <2>6b. \A i \in K : Finite(data[i]) /\ Finite(p) => Finite(deviations[i])
    <3> HIDE DEF deviations, K, data, c, p
    <3>1. KeepsFinite(data, p, deviations, K)
      BY <1>0, <1>1, <1>7, <2>4, <2>5, DeviationsBounded
    <3> QED BY ONLY <3>1 DEF KeepsFinite
  <2>6. /\ Bounded(deviations, K, n, Squared(2 * (n * b)))
        /\ \A i \in K : Finite(data[i]) /\ Finite(p) => Finite(deviations[i])
    BY ONLY <2>6a, <2>6b
  <2>7. SumStriped(squares, n, k2) = Total(Part(deviations, K), n)
    <3>1. Bounded(squares.data, Known(squares, n), n, Squared(2 * (n * b)))
      BY <2>3, <2>6
    <3> HIDE DEF squares, deviations, K
    <3>2. SumStriped(squares, n, k2) = Total(Part(squares.data, Known(squares, n)), n)
      BY <3>1, StripedSum
    <3> QED BY <2>3, <3>2
  <2>8. var_null(a, n, k1, k2)[1] = Total(Part(deviations, K), n) /\ var_null(a, n, k1, k2)[2] = c * c * (c - 1)
    BY <2>2, <2>7
  <2>9. CASE AllFinite(data, K)
    <3>0. K \subseteq K
      OBVIOUS
    <3>1. p = SumOver(Part(data, K), n) /\ Finite(p)
      <4> HIDE DEF K, data
      <4> QED BY <1>0, <2>9, <3>0, FiniteTotal DEF p
    <3>2. \A i \in K : data[i] \in Int /\ deviations[i] = ((data[i] * c) - p) * ((data[i] * c) - p)
      <4> SUFFICES ASSUME NEW i \in K PROVE data[i] \in Int /\ deviations[i] = ((data[i] * c) - p) * ((data[i] * c) - p)
        OBVIOUS
      <4>1. Finite(data[i]) /\ data[i] \in Int /\ data[i] # NaN
        BY <2>9, FloatBounds DEF AllFinite, Bounded
      <4> HIDE DEF deviations, p, c, data, K
      <4> QED BY <1>9, <2>4, <3>1, <4>1 DEF SquaredDeviation
    <3>3. /\ w \in Int /\ p \in Int
          /\ SumOver(Part(deviations, K), n) = ((((c * c) * w) + ((0 - (2 * (c * p))) * p)) + ((p * p) * c))
      <4>1. c \in Nat
        BY <1>1
      <4>2. Deviates(deviations, data, c, p, K)
        BY <3>2 DEF Deviates
      <4>3. K \subseteq 0 .. n - 1 /\ p = SumOver(Part(data, K), n) /\ c = Cardinality(K)
        BY <1>0, <3>1
      <4> HIDE DEF deviations, p, data, K, c
      <4>4. SquaresSum(deviations, data, c, p, K, n)
        BY ONLY n \in Nat, <4>1, <4>2, <4>3, SumOfSquares
      <4> QED BY <4>4 DEF SquaresSum
    <3>4. Total(Part(deviations, K), n) = SumOver(Part(deviations, K), n)
      <4>1. AllFinite(deviations, K)
        BY <2>6, <2>9, <3>1 DEF AllFinite
      <4> QED BY <2>6, <3>0, <4>1, FiniteTotal
    <3> DEFINE u == SumOver(Part(deviations, K), n)
    <3>5. u \in Int
      <4>1. c \in Int /\ c * c \in Int /\ c * p \in Int /\ p * p \in Int
        BY <1>1, <1>7
      <4> HIDE DEF c, p, w, u, deviations, K
      <4> QED BY <3>3, <4>1 DEF u
    <3>6. u * c * (c - 1) = (c * c * (c - 1)) * (c * w - p * p)
      <4>1. c \in Int
        BY <1>1
      <4> HIDE DEF c, p, w, deviations, K, data
      <4> QED BY <3>3, <3>5, <4>1, VarianceIdentity
    <3>7. ~(c < 2)
      BY <1>1, <1>9
    <3>8. SumOver(values, n) = p
      BY <3>1
    <3> QED BY ONLY <1>6, <2>8, <2>9, <3>4, <3>6, <3>7, <3>8
  <2>10. CASE ~AllFinite(data, K)
    <3>0. K \subseteq K
      OBVIOUS
    <3>1. (p = PosInf \/ p = NegInf) /\ Occurs(data, K, p)
      BY <1>9, <2>10, <3>0, FiniteRows, TotalCases
    <3>2. PICK i \in K : data[i] = p
      BY <3>1 DEF Occurs
    <3>3. deviations[i] = NaN
      <4>1. ~Finite(data[i])
        BY <3>1, <3>2, FloatBounds
      <4> HIDE DEF deviations, p, c, data, K
      <4> QED BY <2>4, <3>2, <4>1 DEF SquaredDeviation
    <3>4. Total(Part(deviations, K), n) = NaN
      <4>1. Occurs(deviations, K, NaN)
        BY <3>3 DEF Occurs
      <4> HIDE DEF deviations, K
      <4> QED BY <4>1, TotalCases
    <3> QED BY ONLY <1>6, <2>8, <2>10, <3>4
  <2> QED BY <2>9, <2>10
<1>10. c >= 2 \/ c < 2
  BY <1>1
<1> QED BY <1>8, <1>9, <1>10

-----------------------------------------------------------------------------
(* Extremes.                                                               *)

LEMMA MinIs ==
  ASSUME NEW S, S \subseteq Int, NEW x \in S, \A y \in S : x <= y
  PROVE  Min(S) = x
<1> DEFINE IsMin(v) == v \in S /\ \A y \in S : v <= y
<1>1. Min(S) = CHOOSE v \in S : \A y \in S : v <= y
  BY DEF Min
<1>2. \A v : IsMin(v) => v = x
  OBVIOUS
<1>3. IsMin(x)
  OBVIOUS
<1>4. IsMin(Min(S))
  BY <1>1, <1>3
<1> HIDE DEF IsMin
<1> QED BY <1>2, <1>4

LEMMA MaxIs ==
  ASSUME NEW S, S \subseteq Int, NEW x \in S, \A y \in S : y <= x
  PROVE  Max(S) = x
<1> DEFINE IsMax(v) == v \in S /\ \A y \in S : v >= y
<1>1. Max(S) = CHOOSE v \in S : \A y \in S : v >= y
  BY DEF Max
<1>2. \A v : IsMax(v) => v = x
  OBVIOUS
<1>3. IsMax(x)
  OBVIOUS
<1>4. IsMax(Max(S))
  BY <1>1, <1>3
<1> HIDE DEF IsMax
<1> QED BY <1>2, <1>4

LEMMA GreatestElement ==
  ASSUME NEW n \in Nat, NEW T, T \subseteq 0 .. n, T # {}
  PROVE  \E x \in T : \A y \in T : y <= x
<1> DEFINE R == {z \in Nat : \E x \in T : z = n - x}
<1>1. R \subseteq Nat /\ R # {}
  <2>1. PICK x \in T : TRUE
    OBVIOUS
  <2>2. n - x \in R
    BY <2>1
  <2> QED BY <2>2
<1>2. PICK z \in R : \A y \in R : z <= y
  <2> HIDE DEF R
  <2> QED BY <1>1, LeastElement
<1>3. PICK x \in T : z = n - x
  OBVIOUS
<1>4. ASSUME NEW y \in T PROVE y <= x
  <2>1. n - y \in R
    OBVIOUS
  <2>2. z <= n - y
    BY <1>2, <2>1
  <2> QED BY <1>3, <2>2
<1> QED BY <1>4

\* No value is better.
IsBest(v, V, least) == v \in V /\ \A x \in V : ~Improves(least, x, v)

LEMMA ImprovesIs ==
  ASSUME NEW least \in BOOLEAN, NEW x \in NegInf .. PosInf, NEW y \in NegInf .. PosInf
  PROVE  Improves(least, x, y) <=> IF least THEN x < y ELSE y < x
BY FloatBounds DEF Improves, Below

\* The best of a value and n others.
BestOf(v, start, values, n, least) ==
  /\ v \in NegInf .. PosInf
  /\ v = start \/ \E i \in 1 .. n : v = values[i]
  /\ ~Improves(least, start, v)
  /\ \A i \in 1 .. n : ~Improves(least, values[i], v)

LEMMA PickUpBest ==
  ASSUME NEW n \in Nat, NEW start \in NegInf .. PosInf, NEW values \in [1 .. n -> NegInf .. PosInf], NEW least \in BOOLEAN
  PROVE  BestOf(PickUp(start, values, n, least), start, values, n, least)
<1> DEFINE N == NegInf .. PosInf
<1>1. PICK best : PicksUp(best, start, values, n, least) /\ PickUp(start, values, n, least) = best[n]
  <2>1. start \in Int /\ values \in [1 .. n -> Int]
    BY FloatBounds
  <2> QED BY <2>1, PickUpIs
<1>2. /\ best[0] = start
      /\ \A i \in 1 .. n : best[i] = IF Improves(least, values[i], best[i - 1]) THEN values[i] ELSE best[i - 1]
  BY <1>1 DEF PicksUp
<1> DEFINE Settled(i) == /\ best[i] \in N
                         /\ best[i] = start \/ \E j \in 1 .. i : best[i] = values[j]
                         /\ ~Improves(least, start, best[i])
                         /\ \A j \in 1 .. i : ~Improves(least, values[j], best[i])
           G == {i \in 0 .. n : Settled(i)}
<1>3. 0 \in G
  <2>1. ~Improves(least, start, start)
    BY ImprovesIs
  <2> QED BY <1>2, <2>1
<1>4. ASSUME NEW i \in 1 .. n, i - 1 \in G PROVE i \in G
  <2> DEFINE x == best[i - 1]
             y == best[i]
             v == values[i]
  <2>1. /\ x \in N /\ (x = start \/ \E j \in 1 .. i - 1 : x = values[j])
        /\ ~Improves(least, start, x) /\ \A j \in 1 .. i - 1 : ~Improves(least, values[j], x)
    BY <1>4
  <2>2. y = (IF Improves(least, v, x) THEN v ELSE x) /\ v \in N /\ start \in N
    BY <1>2
  <2>3. \A j \in 1 .. i : values[j] \in N
    OBVIOUS
  <2>4. \A j \in 1 .. i : j = i \/ j \in 1 .. i - 1
    OBVIOUS
  <2> HIDE DEF x, y, N
  <2>5. y \in N /\ ~Improves(least, v, y)
    BY <2>1, <2>2, ImprovesIs DEF N
  <2>6. \A z \in N : ~Improves(least, z, x) => ~Improves(least, z, y)
    BY <2>1, <2>2, ImprovesIs DEF N
  <2>7. ~Improves(least, start, y) /\ \A j \in 1 .. i : ~Improves(least, values[j], y)
    <3>1. ~Improves(least, start, y)
      BY <2>1, <2>2, <2>6
    <3>2. ASSUME NEW j \in 1 .. i PROVE ~Improves(least, values[j], y)
      BY <2>1, <2>3, <2>4, <2>5, <2>6
    <3> QED BY <3>1, <3>2
  <2>8. y = start \/ \E j \in 1 .. i : y = values[j]
    <3>1. i \in 1 .. i /\ \A j \in 1 .. i - 1 : j \in 1 .. i
      OBVIOUS
    <3> QED BY <2>1, <2>2, <3>1
  <2>9. Settled(i)
    BY <2>5, <2>7, <2>8 DEF y, N
  <2> QED BY <2>9
<1> HIDE DEF G, Settled
<1>5. \A i \in 0 .. n : i \in G
  BY <1>3, <1>4, StepByStep
<1>6. Settled(n)
  <2>1. n \in 0 .. n
    OBVIOUS
  <2> QED BY <1>5, <2>1 DEF G
<1> QED BY <1>1, <1>6 DEF Settled, BestOf

\* What the extremes of some rows are.
LEMMA ExtremeIs ==
  ASSUME NEW data, NEW T, \A i \in T : data[i] \in Int, NEW least \in BOOLEAN
  PROVE  LET side == IF least THEN 1 ELSE 2 IN
         /\ (\A i \in T : data[i] = NaN) => Extremes(Part(data, T))[side] = NaN
         /\ \A i \in T :
              /\ data[i] # NaN
              /\ \A j \in T : data[j] # NaN => IF least THEN data[i] <= data[j] ELSE data[j] <= data[i]
              => Extremes(Part(data, T))[side] = data[i]
<1> DEFINE values == Part(data, T)
           V == ValuesIn(values) \ {NaN}
           side == IF least THEN 1 ELSE 2
<1>1. \A v : v \in V <=> v # NaN /\ \E i \in T : data[i] = v
  BY DEF ValuesIn, Part
<1>2. V \subseteq Int
  BY <1>1
<1>3. Extremes(values) = IF V = {} THEN <<NaN, NaN>> ELSE <<Min(V), Max(V)>>
  BY DEF Extremes
<1> HIDE DEF V, values
<1>4. (\A i \in T : data[i] = NaN) => Extremes(values)[side] = NaN
  <2> SUFFICES ASSUME \A i \in T : data[i] = NaN PROVE Extremes(values)[side] = NaN
    OBVIOUS
  <2>1. V = {}
    BY <1>1
  <2>2. Extremes(values) = <<NaN, NaN>>
    BY <1>3, <2>1
  <2> QED BY <2>2
<1>5. ASSUME NEW i \in T, data[i] # NaN,
             \A j \in T : data[j] # NaN => IF least THEN data[i] <= data[j] ELSE data[j] <= data[i]
      PROVE  Extremes(values)[side] = data[i]
  <2>1. data[i] \in V /\ V # {}
    BY <1>1, <1>5
  <2>2. \A v \in V : IF least THEN data[i] <= v ELSE v <= data[i]
    BY <1>1, <1>5
  <2>3. Extremes(values)[1] = Min(V) /\ Extremes(values)[2] = Max(V)
    BY <1>3, <2>1
  <2>4. CASE least
    <3>1. Min(V) = data[i]
      BY <1>2, <2>1, <2>2, <2>4, MinIs
    <3> QED BY <2>3, <2>4, <3>1
  <2>5. CASE ~least
    <3>1. Max(V) = data[i]
      BY <1>2, <2>1, <2>2, <2>5, MaxIs
    <3> QED BY <2>3, <2>5, <3>1
  <2> QED BY <2>4, <2>5
<1> QED BY <1>4, <1>5 DEF values

\* Lanes, the best of them and the rows behind the last group.
LEMMA FloatExtremeComputes ==
  ASSUME NEW a, NEW n \in Nat, NEW k \in Nat \ {0}, NEW least \in BOOLEAN,
         \A i \in Known(a, n) : a.data[i] \in NegInf .. NaN
  PROVE  FloatExtreme(a, n, k, least) = Extremes(Part(a.data, Known(a, n)))[IF least THEN 1 ELSE 2]
<1> DEFINE K == Known(a, n)
           N == NegInf .. PosInf
           seed == IF least THEN PosInf ELSE NegInf
           q == n \div k
           e == n % k
           Lane(s) == PickUp(seed, [g \in 1 .. q |-> Shown(a, k * (g - 1) + s, seed)], q, least)
           lanes == PickUp(seed, [s \in 1 .. k |-> Lane(s - 1)], k, least)
           best == PickUp(lanes, [t \in 1 .. e |-> Shown(a, n - e + t - 1, seed)], e, least)
           Show(r) == Shown(a, r, seed)
<1>1. FloatExtreme(a, n, k, least) = IF Improves(least, best, seed) THEN best ELSE Verified(a, n, seed)
  BY DEF FloatExtreme
<1>2. /\ q \in Nat /\ e \in 0 .. k - 1 /\ n = (k * q) + e
      /\ \A r \in 0 .. n - 1 :
           /\ r \div k \in Nat /\ r % k \in 0 .. k - 1 /\ r = (k * (r \div k)) + (r % k)
           /\ r \div k < q \/ (r \div k = q /\ r % k < e)
      /\ \A g \in 0 .. q - 1, s \in 0 .. k - 1 : (k * g) + s \in 0 .. n - 1
      /\ \A s \in 0 .. e - 1 : (k * q) + s \in 0 .. n - 1
  BY Stripes
<1>3. seed \in N
  BY FloatBounds
<1>4. \A r \in 0 .. n - 1 : Show(r) \in N /\ (r \in K /\ a.data[r] # NaN => Show(r) = a.data[r])
                            /\ (~(r \in K /\ a.data[r] # NaN) => Show(r) = seed)
  <2> SUFFICES ASSUME NEW r \in 0 .. n - 1
               PROVE  Show(r) \in N /\ (r \in K /\ a.data[r] # NaN => Show(r) = a.data[r])
                      /\ (~(r \in K /\ a.data[r] # NaN) => Show(r) = seed)
    OBVIOUS
  <2>1. r \in K <=> Valid(a, r)
    BY DEF Known, Valid
  <2>2. r \in K /\ a.data[r] # NaN => a.data[r] \in N
    BY FloatBounds
  <2> HIDE DEF seed, N, K
  <2> QED BY <1>3, <2>1, <2>2 DEF Shown
<1> HIDE DEF q, e, seed
<1>5. ASSUME NEW s \in 0 .. k - 1
      PROVE  /\ Lane(s) \in N /\ (Lane(s) = seed \/ \E r \in 0 .. n - 1 : Lane(s) = Show(r))
             /\ ~Improves(least, seed, Lane(s))
             /\ \A r \in 0 .. n - 1 : r % k = s /\ r \div k < q => ~Improves(least, Show(r), Lane(s))
  <2> DEFINE values == [g \in 1 .. q |-> Shown(a, k * (g - 1) + s, seed)]
             v == PickUp(seed, values, q, least)
  <2>1. \A g \in 1 .. q : values[g] = Show((k * (g - 1)) + s) /\ (k * (g - 1)) + s \in 0 .. n - 1
    <3> SUFFICES ASSUME NEW g \in 1 .. q PROVE values[g] = Show((k * (g - 1)) + s) /\ (k * (g - 1)) + s \in 0 .. n - 1
      OBVIOUS
    <3>1. g - 1 \in 0 .. q - 1
      BY <1>2
    <3> QED BY <1>2, <3>1
  <2>2. values \in [1 .. q -> N]
    BY <1>4, <2>1
  <2> HIDE DEF values
  <2>3. /\ v \in N /\ (v = seed \/ \E g \in 1 .. q : v = values[g])
        /\ ~Improves(least, seed, v) /\ \A g \in 1 .. q : ~Improves(least, values[g], v)
    <3>1. q \in Nat /\ seed \in NegInf .. PosInf /\ values \in [1 .. q -> NegInf .. PosInf]
      BY <1>2, <1>3, <2>2
    <3>2. BestOf(v, seed, values, q, least)
      BY ONLY <3>1, least \in BOOLEAN, PickUpBest
    <3> QED BY <3>2 DEF BestOf
  <2> HIDE DEF v
  <2>4. ASSUME NEW r \in 0 .. n - 1, r % k = s, r \div k < q PROVE ~Improves(least, Show(r), v)
    <3>1. (r \div k) + 1 \in 1 .. q /\ ((r \div k) + 1) - 1 = r \div k /\ (k * (r \div k)) + s = r
      BY <1>2, <2>4
    <3>2. values[(r \div k) + 1] = Show(r)
      BY <2>1, <3>1
    <3> QED BY <2>3, <3>1, <3>2
  <2>5. v = seed \/ \E r \in 0 .. n - 1 : v = Show(r)
    BY <2>1, <2>3
  <2> QED BY <2>3, <2>4, <2>5 DEF v, values
<1> HIDE DEF Lane
<1>6. /\ lanes \in N /\ (lanes = seed \/ \E r \in 0 .. n - 1 : lanes = Show(r))
      /\ ~Improves(least, seed, lanes)
      /\ \A s \in 0 .. k - 1 : ~Improves(least, Lane(s), lanes)
  <2> DEFINE values == [s \in 1 .. k |-> Lane(s - 1)]
             v == PickUp(seed, values, k, least)
  <2>1. values \in [1 .. k -> N] /\ \A s \in 1 .. k : values[s] = Lane(s - 1) /\ s - 1 \in 0 .. k - 1
    BY <1>5
  <2> HIDE DEF values
  <2>2. /\ v \in N /\ (v = seed \/ \E s \in 1 .. k : v = values[s])
        /\ ~Improves(least, seed, v) /\ \A s \in 1 .. k : ~Improves(least, values[s], v)
    <3>1. k \in Nat /\ seed \in NegInf .. PosInf /\ values \in [1 .. k -> NegInf .. PosInf]
      BY <1>3, <2>1
    <3>2. BestOf(v, seed, values, k, least)
      BY ONLY <3>1, least \in BOOLEAN, PickUpBest
    <3> QED BY <3>2 DEF BestOf
  <2> HIDE DEF v
  <2>3. ASSUME NEW s \in 0 .. k - 1 PROVE ~Improves(least, Lane(s), v)
    <3>1. s + 1 \in 1 .. k /\ (s + 1) - 1 = s
      OBVIOUS
    <3>2. values[s + 1] = Lane(s)
      BY <2>1, <3>1
    <3> QED BY <2>2, <3>1, <3>2
  <2>4. v = seed \/ \E r \in 0 .. n - 1 : v = Show(r)
    BY <1>5, <2>1, <2>2
  <2> QED BY <2>2, <2>3, <2>4 DEF v, values
<1> HIDE DEF lanes
<1>7. /\ best \in N /\ (best = lanes \/ \E r \in 0 .. n - 1 : best = Show(r))
      /\ ~Improves(least, lanes, best)
      /\ \A r \in 0 .. n - 1 : r \div k = q => ~Improves(least, Show(r), best)
  <2> DEFINE values == [t \in 1 .. e |-> Shown(a, n - e + t - 1, seed)]
             v == PickUp(lanes, values, e, least)
  <2>1. \A t \in 1 .. e : values[t] = Show((k * q) + (t - 1)) /\ (k * q) + (t - 1) \in 0 .. n - 1
    <3> SUFFICES ASSUME NEW t \in 1 .. e PROVE values[t] = Show((k * q) + (t - 1)) /\ (k * q) + (t - 1) \in 0 .. n - 1
      OBVIOUS
    <3>1. t - 1 \in 0 .. e - 1
      BY <1>2
    <3>2. n - e + t - 1 = (k * q) + (t - 1)
      <4>1. k * q \in Int /\ e \in Int /\ t \in Int /\ n = (k * q) + e
        BY <1>2, ProductType
      <4> DEFINE kq == k * q
      <4> HIDE DEF kq
      <4>2. kq \in Int /\ n = kq + e
        BY <4>1 DEF kq
      <4>3. n - e + t - 1 = kq + (t - 1)
        BY ONLY <4>1, <4>2
      <4> QED BY <4>3 DEF kq
    <3> QED BY <1>2, <3>1, <3>2
  <2>2. values \in [1 .. e -> N]
    BY <1>4, <2>1
  <2> HIDE DEF values
  <2>3. /\ v \in N /\ (v = lanes \/ \E t \in 1 .. e : v = values[t])
        /\ ~Improves(least, lanes, v) /\ \A t \in 1 .. e : ~Improves(least, values[t], v)
    <3>1. e \in Nat /\ lanes \in NegInf .. PosInf /\ values \in [1 .. e -> NegInf .. PosInf]
      BY <1>2, <1>6, <2>2
    <3>2. BestOf(v, lanes, values, e, least)
      BY ONLY <3>1, least \in BOOLEAN, PickUpBest
    <3> QED BY <3>2 DEF BestOf
  <2> HIDE DEF v
  <2>4. ASSUME NEW r \in 0 .. n - 1, r \div k = q PROVE ~Improves(least, Show(r), v)
    <3>1. (r % k) + 1 \in 1 .. e /\ ((r % k) + 1) - 1 = r % k /\ (k * q) + (r % k) = r
      <4>1. /\ q \in Nat /\ e \in 0 .. k - 1 /\ r % k \in 0 .. k - 1 /\ r = (k * (r \div k)) + (r % k)
            /\ r \div k < q \/ (r \div k = q /\ r % k < e)
        BY <1>2
      <4>2. r % k < e
        BY ONLY <2>4, <4>1
      <4>3. (k * q) + (r % k) = r
        BY ONLY <2>4, <4>1
      <4> QED BY ONLY <4>1, <4>2, <4>3, k \in Nat \ {0}
    <3>2. values[(r % k) + 1] = Show(r)
      BY <2>1, <3>1
    <3> QED BY <2>3, <3>1, <3>2
  <2>5. v = lanes \/ \E r \in 0 .. n - 1 : v = Show(r)
    BY <2>1, <2>3
  <2> QED BY <2>3, <2>4, <2>5 DEF v, values
<1> HIDE DEF best, N
<1>8. \A x, y, z \in N : ~Improves(least, x, y) /\ ~Improves(least, y, z) => ~Improves(least, x, z)
  BY ImprovesIs, FloatBounds DEF N
<1>9. /\ best = seed \/ \E r \in 0 .. n - 1 : best = Show(r)
      /\ \A r \in 0 .. n - 1 : ~Improves(least, Show(r), best)
  <2>1. best = seed \/ \E r \in 0 .. n - 1 : best = Show(r)
    BY <1>6, <1>7
  <2>2. ASSUME NEW r \in 0 .. n - 1 PROVE ~Improves(least, Show(r), best)
    <3>1. CASE r \div k = q
      BY <1>7, <3>1
    <3>2. CASE r \div k < q
      <4> DEFINE s == r % k
      <4>1. s \in 0 .. k - 1
        BY <1>2
      <4>2. ~Improves(least, Show(r), Lane(s)) /\ Lane(s) \in N
        BY <1>5, <3>2, <4>1
      <4>3. ~Improves(least, Lane(s), lanes)
        BY <1>6, <4>1
      <4>4. ~Improves(least, Show(r), lanes) /\ Show(r) \in N
        BY <1>4, <1>6, <1>8, <4>2, <4>3
      <4> QED BY <1>6, <1>7, <1>8, <4>4
    <3> QED BY <1>2, <3>1, <3>2
  <2> QED BY <2>1, <2>2
<1>10. /\ \A i \in K : i \in 0 .. n - 1 /\ a.data[i] \in Int
       /\ \A i \in K : a.data[i] # NaN => Show(i) = a.data[i] /\ a.data[i] \in N
  BY <1>4, FloatBounds DEF Known
<1> DEFINE extreme == Extremes(Part(a.data, K))[IF least THEN 1 ELSE 2]
<1>11. /\ (\A i \in K : a.data[i] = NaN) => extreme = NaN
       /\ \A i \in K :
            /\ a.data[i] # NaN
            /\ \A j \in K : a.data[j] # NaN => IF least THEN a.data[i] <= a.data[j] ELSE a.data[j] <= a.data[i]
            => extreme = a.data[i]
  <2> HIDE DEF K
  <2> QED BY <1>10, ExtremeIs
<1> HIDE DEF extreme
<1>12. ASSUME NEW i \in K, a.data[i] # NaN, a.data[i] = best PROVE extreme = best
  <2>1. ASSUME NEW j \in K, a.data[j] # NaN
        PROVE  IF least THEN a.data[i] <= a.data[j] ELSE a.data[j] <= a.data[i]
    <3>1. ~Improves(least, a.data[j], best) /\ a.data[j] \in N /\ best \in N
      BY <1>7, <1>9, <1>10, <2>1
    <3> QED BY <1>10, <1>12, <3>1, ImprovesIs DEF N
  <2> QED BY <1>11, <1>12, <2>1
<1>13. CASE Improves(least, best, seed)
  <2>1. best # seed
    BY <1>3, <1>13, ImprovesIs DEF N
  <2>2. PICK r \in 0 .. n - 1 : best = Show(r)
    BY <1>9, <2>1
  <2>3. r \in K /\ a.data[r] # NaN /\ a.data[r] = best
    BY <1>4, <2>1, <2>2
  <2>4. extreme = best
    BY <1>12, <2>3
  <2> QED BY <1>1, <1>13, <2>4 DEF extreme
<1>14. CASE ~Improves(least, best, seed)
  <2>1. best = seed
    BY <1>3, <1>7, <1>14, FloatBounds, ImprovesIs DEF N, seed
  <2>2. CASE \E i \in K : a.data[i] # NaN
    <3>1. PICK i \in K : a.data[i] # NaN
      BY <2>2
    <3>2. a.data[i] = best
      <4>1. ~Improves(least, a.data[i], best) /\ a.data[i] \in N
        BY <1>9, <1>10, <3>1
      <4> QED BY <2>1, <4>1, FloatBounds, ImprovesIs DEF N, seed
    <3>3. Verified(a, n, seed) = seed
      BY <3>1 DEF Verified, Known, Valid
    <3> QED BY <1>1, <1>12, <1>14, <2>1, <3>1, <3>2, <3>3 DEF extreme
  <2>3. CASE \A i \in K : a.data[i] = NaN
    <3>1. Verified(a, n, seed) = NaN
      BY <2>3 DEF Verified, Known, Valid
    <3> QED BY <1>1, <1>11, <1>14, <2>3, <3>1 DEF extreme
  <2> QED BY <2>2, <2>3
<1> QED BY <1>13, <1>14

\* The best of the valid integers before row i, if there is one.
BestSoFar(best, a, i, least) ==
  \/ best = << >> /\ ~\E j \in 0 .. i - 1 : Valid(a, j)
  \/ /\ \E j \in 0 .. i - 1 : Valid(a, j) /\ best = <<a.data[j]>>
     /\ \A j \in 0 .. i - 1 : Valid(a, j) => IF least THEN best[1] <= a.data[j] ELSE a.data[j] <= best[1]

LEMMA IntExtremeComputes ==
  ASSUME NEW a, NEW n \in Nat, NEW least \in BOOLEAN,
         \A i \in Known(a, n) : a.data[i] \in Int /\ a.data[i] # NaN
  PROVE  IntExtreme(a, n, least)
           = IF Known(a, n) = {} THEN 0 ELSE Extremes(Part(a.data, Known(a, n)))[IF least THEN 1 ELSE 2]
<1> DEFINE K == Known(a, n)
           Better(x, y) == IF least THEN x < y ELSE x > y
           Body(x, i) == IF Valid(a, i - 1) /\ (x = << >> \/ Better(a.data[i - 1], x[1])) THEN <<a.data[i - 1]>> ELSE x
           V == {<< >>} \cup {<<a.data[j]>> : j \in K}
           step == [x \in (1 .. n) \X V |-> Body(x[2], x[1])]
           IsLoop(f) == f = [i \in 0 .. n |->
                              IF i = 0 THEN << >>
                              ELSE IF Valid(a, i - 1) /\ (f[i - 1] = << >> \/ Better(a.data[i - 1], f[i - 1][1]))
                                   THEN <<a.data[i - 1]>>
                              ELSE f[i - 1]]
           best == CHOOSE f : IsLoop(f)
<1>1. \A i \in 0 .. n - 1 : i \in K <=> Valid(a, i)
  BY DEF Known, Valid
<1>2. \A i \in 1 .. n, x \in V : Body(x, i) \in V
  BY <1>1
<1>3. step \in [(1 .. n) \X V -> V] /\ \A i \in 1 .. n, x \in V : step[<<i, x>>] = Body(x, i)
  BY <1>2
<1> HIDE DEF step
<1>4. PICK f : Follows(f, n, V, << >>, step)
  <2>1. << >> \in V
    OBVIOUS
  <2> HIDE DEF V
  <2> QED BY ONLY <1>3, <2>1, n \in Nat, LoopExists
<1>4a. /\ f = [k \in 0 .. n |-> IF k = 0 THEN << >> ELSE step[<<k, f[k - 1]>>]]
       /\ \A k \in 0 .. n : f[k] \in V
  BY <1>4 DEF Follows
<1>5. \A i \in 0 .. n : (IF i = 0 THEN << >> ELSE step[<<i, f[i - 1]>>]) = IF i = 0 THEN << >> ELSE Body(f[i - 1], i)
  <2> SUFFICES ASSUME NEW i \in 0 .. n, i # 0 PROVE step[<<i, f[i - 1]>>] = Body(f[i - 1], i)
    OBVIOUS
  <2>1. i \in 1 .. n /\ i - 1 \in 0 .. n
    OBVIOUS
  <2>2. f[i - 1] \in V
    BY <1>4a, <2>1
  <2> HIDE DEF V, Body
  <2> QED BY <1>3, <2>1, <2>2
<1>6. IsLoop(f)
  <2>1. f = [i \in 0 .. n |-> IF i = 0 THEN << >> ELSE Body(f[i - 1], i)]
    <3> HIDE DEF Body, V
    <3> QED BY <1>4a, <1>5
  <2> QED BY <2>1
<1>7. IsLoop(best)
  <2>1. \E g : IsLoop(g)
    BY <1>6
  <2> HIDE DEF IsLoop
  <2> QED BY <2>1
<1>8. IntExtreme(a, n, least) = IF best[n] = << >> THEN 0 ELSE best[n][1]
  BY DEF IntExtreme
<1> HIDE DEF best
<1>9. best[0] = << >> /\ \A i \in 1 .. n : best[i] = Body(best[i - 1], i)
  <2>1. best = [i \in 0 .. n |-> IF i = 0 THEN << >> ELSE Body(best[i - 1], i)]
    BY <1>7
  <2> HIDE DEF Body
  <2> QED BY <2>1
<1> DEFINE G == {i \in 0 .. n : BestSoFar(best[i], a, i, least)}
<1>10. 0 \in G
  BY <1>9 DEF BestSoFar
<1>11. ASSUME NEW i \in 1 .. n, i - 1 \in G PROVE i \in G
  <2> DEFINE x == best[i - 1]
             y == best[i]
             v == a.data[i - 1]
  <2>1. BestSoFar(x, a, i - 1, least) /\ y = Body(x, i) /\ i - 1 \in 0 .. n - 1
    BY <1>9, <1>11
  <2>2. \A j \in 0 .. i - 1 : j = i - 1 \/ j \in 0 .. (i - 1) - 1
    OBVIOUS
  <2>2a. i - 1 \in 0 .. i - 1 /\ \A j \in 0 .. (i - 1) - 1 : j \in 0 .. i - 1
    OBVIOUS
  <2>3. \A j \in 0 .. i - 1 : Valid(a, j) => a.data[j] \in Int
    BY <1>1
  <2> HIDE DEF x, y, G
  <2>4. CASE ~Valid(a, i - 1)
    <3>1. y = x
      BY <2>1, <2>4
    <3>2. BestSoFar(y, a, i, least)
      BY ONLY <2>1, <2>2, <2>2a, <2>4, <3>1 DEF BestSoFar
    <3> QED BY <3>2 DEF y, G
  <2>5. CASE Valid(a, i - 1) /\ x = << >>
    <3>1. y = <<v>> /\ v \in Int /\ y[1] = v
      BY <2>1, <2>2a, <2>3, <2>5
    <3>2. \A j \in 0 .. (i - 1) - 1 : ~Valid(a, j)
      <4>1. \A u : <<u>> # << >>
        OBVIOUS
      <4> QED BY ONLY <2>1, <2>5, <4>1 DEF BestSoFar
    <3>3. \A j \in 0 .. i - 1 : Valid(a, j) => j = i - 1
      BY <2>2, <3>2
    <3>4. BestSoFar(y, a, i, least)
      BY <2>2a, <2>5, <3>1, <3>3 DEF BestSoFar
    <3> QED BY <3>4 DEF y, G
  <2>6. CASE Valid(a, i - 1) /\ x # << >>
    <3>1. PICK l \in 0 .. (i - 1) - 1 : Valid(a, l) /\ x = <<a.data[l]>>
      BY <2>1, <2>6 DEF BestSoFar
    <3>2. /\ x[1] = a.data[l] /\ x[1] \in Int /\ v \in Int
          /\ \A j \in 0 .. (i - 1) - 1 : Valid(a, j) => IF least THEN x[1] <= a.data[j] ELSE a.data[j] <= x[1]
      BY <2>1, <2>2a, <2>3, <2>6, <3>1 DEF BestSoFar
    <3>3. y = IF Better(v, x[1]) THEN <<v>> ELSE x
      BY <2>1, <2>6
    <3>4. CASE Better(v, x[1])
      <4>1. y = <<v>> /\ y[1] = v
        BY <3>3, <3>4
      <4>2. \A j \in 0 .. i - 1 : Valid(a, j) => IF least THEN y[1] <= a.data[j] ELSE a.data[j] <= y[1]
        BY <2>2, <2>3, <3>2, <3>4, <4>1
      <4>3. BestSoFar(y, a, i, least)
        BY <2>2a, <2>6, <4>1, <4>2 DEF BestSoFar
      <4> QED BY <4>3 DEF y, G
    <3>5. CASE ~Better(v, x[1])
      <4>1. y = x
        BY <3>3, <3>5
      <4>2. \A j \in 0 .. i - 1 : Valid(a, j) => IF least THEN y[1] <= a.data[j] ELSE a.data[j] <= y[1]
        BY <2>2, <2>3, <3>2, <3>5, <4>1
      <4>3. BestSoFar(y, a, i, least)
        BY <2>2a, <3>1, <4>1, <4>2 DEF BestSoFar
      <4> QED BY <4>3 DEF y, G
    <3> QED BY <3>4, <3>5
  <2> QED BY <2>4, <2>5, <2>6
<1> HIDE DEF G
<1>12. \A i \in 0 .. n : i \in G
  BY <1>10, <1>11, StepByStep
<1>13. BestSoFar(best[n], a, n, least)
  <2>1. n \in 0 .. n
    OBVIOUS
  <2> QED BY <1>12, <2>1 DEF G
<1>14. CASE best[n] = << >>
  <2>1. \A j \in 0 .. n - 1 : ~Valid(a, j)
    <3>1. \A u : <<u>> # << >>
      OBVIOUS
    <3> QED BY ONLY <1>13, <1>14, <3>1 DEF BestSoFar
  <2>2. K = {}
    BY <2>1 DEF Known, Valid
  <2> QED BY <1>8, <1>14, <2>2
<1>15. CASE best[n] # << >>
  <2>1. PICK i \in 0 .. n - 1 : Valid(a, i) /\ best[n] = <<a.data[i]>>
    BY <1>13, <1>15 DEF BestSoFar
  <2>2. i \in K /\ best[n][1] = a.data[i]
    BY <1>1, <2>1
  <2>3. \A j \in K : IF least THEN a.data[i] <= a.data[j] ELSE a.data[j] <= a.data[i]
    <3> SUFFICES ASSUME NEW j \in K PROVE IF least THEN a.data[i] <= a.data[j] ELSE a.data[j] <= a.data[i]
      OBVIOUS
    <3>1. j \in 0 .. n - 1 /\ Valid(a, j)
      BY DEF Known, Valid
    <3> QED BY <1>13, <1>15, <2>2, <3>1 DEF BestSoFar
  <2>4. Extremes(Part(a.data, K))[IF least THEN 1 ELSE 2] = a.data[i]
    <3>1. \A j \in K : a.data[j] \in Int
      OBVIOUS
    <3>2. a.data[i] # NaN
      BY <2>2
    <3> HIDE DEF K
    <3> QED BY <2>2, <2>3, <3>1, <3>2, ExtremeIs
  <2> QED BY <1>8, <1>15, <2>2, <2>4
<1> QED BY <1>14, <1>15

-----------------------------------------------------------------------------
(* Distinct values.                                                        *)

\* The numbers among the values before row i.
SeenBefore(a, i) == {a.data[j] : j \in {l \in 0 .. i - 1 : Valid(a, l) /\ a.data[l] # NaN}}

LEMMA SeenNext ==
  ASSUME NEW a, NEW i \in Nat \ {0}
  PROVE  /\ Valid(a, i - 1) /\ a.data[i - 1] # NaN => SeenBefore(a, i) = SeenBefore(a, i - 1) \cup {a.data[i - 1]}
         /\ ~(Valid(a, i - 1) /\ a.data[i - 1] # NaN) => SeenBefore(a, i) = SeenBefore(a, i - 1)
         /\ SeenBefore(a, 0) = {}
<1>1. \A j \in 0 .. i - 1 : j = i - 1 \/ j \in 0 .. (i - 1) - 1
  OBVIOUS
<1>2. i - 1 \in 0 .. i - 1 /\ (\A j \in 0 .. (i - 1) - 1 : j \in 0 .. i - 1) /\ 0 .. 0 - 1 = {}
  OBVIOUS
<1>3. \A v : v \in SeenBefore(a, i) <=> \E j \in 0 .. i - 1 : Valid(a, j) /\ a.data[j] # NaN /\ a.data[j] = v
  BY DEF SeenBefore
<1>4. \A v : v \in SeenBefore(a, i - 1) <=> \E j \in 0 .. (i - 1) - 1 : Valid(a, j) /\ a.data[j] # NaN /\ a.data[j] = v
  BY DEF SeenBefore
<1>5. SeenBefore(a, 0) = {}
  BY <1>2 DEF SeenBefore
<1>6. ASSUME Valid(a, i - 1), a.data[i - 1] # NaN PROVE SeenBefore(a, i) = SeenBefore(a, i - 1) \cup {a.data[i - 1]}
  <2>1. \A v : v \in SeenBefore(a, i) <=> v \in SeenBefore(a, i - 1) \/ v = a.data[i - 1]
    BY ONLY <1>1, <1>2, <1>3, <1>4, <1>6
  <2> QED BY <2>1
<1>7. ASSUME ~(Valid(a, i - 1) /\ a.data[i - 1] # NaN) PROVE SeenBefore(a, i) = SeenBefore(a, i - 1)
  <2>1. \A v : v \in SeenBefore(a, i) <=> v \in SeenBefore(a, i - 1)
    BY ONLY <1>1, <1>2, <1>3, <1>4, <1>7
  <2> QED BY <2>1
<1> QED BY <1>5, <1>6, <1>7

\* The values of some rows are finitely many.
LEMMA ValuesFinite ==
  ASSUME NEW data, NEW T, IsFiniteSet(T)
  PROVE  IsFiniteSet(ValuesIn(Part(data, T)))
<1> DEFINE f == Part(data, T)
           V == ValuesIn(f)
<1>1. f \in Surjection(T, V)
  <2>1. f \in [T -> V] /\ \A v \in V : \E i \in T : f[i] = v
    BY DEF Part, ValuesIn
  <2> HIDE DEF f, V
  <2> QED BY <2>1 DEF Surjection
<1> HIDE DEF f
<1>2. IsFiniteSet(V)
  <2> HIDE DEF V
  <2> QED BY <1>1, FS_Surjection
<1> QED BY <1>2 DEF f

\* Of the values of all rows, those that are no NaN and NaN.
LEMMA DistinctSplit ==
  ASSUME NEW a, NEW n \in Nat, IsFiniteSet(Known(a, n))
  PROVE  LET V == ValuesIn(Part(a.data, Known(a, n))) IN
         /\ IsFiniteSet(SeenBefore(a, n)) /\ Cardinality(SeenBefore(a, n)) \in Nat
         /\ NaN \in V => Cardinality(V) = Cardinality(SeenBefore(a, n)) + 1
         /\ NaN \notin V => V = SeenBefore(a, n)
<1> DEFINE K == Known(a, n)
           V == ValuesIn(Part(a.data, K))
           S == SeenBefore(a, n)
<1>1. \A v : v \in V <=> \E j \in K : a.data[j] = v
  BY DEF ValuesIn, Part
<1>2. \A v : v \in S <=> v # NaN /\ \E j \in K : a.data[j] = v
  BY DEF SeenBefore, Known, Valid
<1>3. IsFiniteSet(V)
  <2> HIDE DEF K
  <2> QED BY ValuesFinite DEF K
<1> HIDE DEF K, V, S
<1>4. S \in SUBSET V
  BY <1>1, <1>2
<1>5. IsFiniteSet(S) /\ Cardinality(S) \in Nat
  BY <1>3, <1>4, FS_Subset, FS_CardinalityType
<1>6. NaN \in V => Cardinality(V) = Cardinality(S) + 1
  <2> SUFFICES ASSUME NaN \in V PROVE Cardinality(V) = Cardinality(S) + 1
    OBVIOUS
  <2>1. V = S \cup {NaN} /\ NaN \notin S
    BY <1>1, <1>2
  <2>2. Cardinality(S \cup {NaN}) = Cardinality(S) + 1
    BY <1>5, <2>1, FS_AddElement
  <2> QED BY <2>1, <2>2
<1>7. NaN \notin V => V = S
  BY <1>1, <1>2
<1> QED BY <1>5, <1>6, <1>7 DEF K, V, S

\* Counting the first sighting of each value counts the values.
LEMMA RescanCounts ==
  ASSUME NEW a, NEW n \in Nat, NEW counted
  PROVE  Rescan(a, n, counted) = Cardinality(SeenBefore(a, n))
<1> DEFINE F == FirstSightings(a, n)
           S == SeenBefore(a, n)
           f == [i \in F |-> a.data[i]]
           Of(v) == {j \in 0 .. n - 1 : Valid(a, j) /\ a.data[j] = v}
<1>1. \A i : i \in F <=> /\ i \in 0 .. n - 1 /\ Valid(a, i) /\ a.data[i] # NaN
                         /\ ~\E j \in 0 .. i - 1 : Valid(a, j) /\ a.data[j] = a.data[i]
  BY DEF FirstSightings
<1>2. \A v : v \in S <=> \E j \in 0 .. n - 1 : Valid(a, j) /\ a.data[j] # NaN /\ a.data[j] = v
  BY DEF SeenBefore
<1>3. F \in SUBSET (0 .. n - 1)
  BY <1>1
<1> HIDE DEF F, S
<1>4. IsFiniteSet(F)
  <2>1. IsFiniteSet(0 .. n - 1)
    <3>1. 0 \in Int /\ n - 1 \in Int
      OBVIOUS
    <3> QED BY ONLY <3>1, FS_Interval
  <2> QED BY <1>3, <2>1, FS_Subset
<1>5. f \in [F -> S]
  BY <1>1, <1>2
<1>6. \A i, j \in F : f[i] = f[j] => i = j
  <2> SUFFICES ASSUME NEW i \in F, NEW j \in F, a.data[i] = a.data[j] PROVE i = j
    OBVIOUS
  <2>1. ASSUME NEW x \in F, NEW y \in F, a.data[x] = a.data[y], x < y PROVE FALSE
    <3>1. x \in 0 .. y - 1 /\ Valid(a, x)
      BY <1>1, <1>3, <2>1
    <3> QED BY <1>1, <2>1, <3>1
  <2>2. i \in Int /\ j \in Int
    BY <1>3
  <2> QED BY <2>1, <2>2
<1>7. \A v \in S : \E i \in F : f[i] = v
  <2> SUFFICES ASSUME NEW v \in S PROVE \E i \in F : a.data[i] = v
    OBVIOUS
  <2>1. v # NaN /\ Of(v) # {} /\ Of(v) \subseteq Nat
    BY <1>2
  <2> DEFINE T == Of(v)
  <2> HIDE DEF T
  <2>2. PICK i \in T : \A j \in T : i <= j
    BY <2>1, LeastElement DEF T
  <2>3. i \in 0 .. n - 1 /\ Valid(a, i) /\ a.data[i] = v
    BY <2>2 DEF T
  <2>4. ~\E j \in 0 .. i - 1 : Valid(a, j) /\ a.data[j] = a.data[i]
    <3> SUFFICES ASSUME NEW j \in 0 .. i - 1, Valid(a, j), a.data[j] = a.data[i] PROVE FALSE
      OBVIOUS
    <3>1. j \in T
      BY <2>3 DEF T
    <3> QED BY <2>2, <2>3, <3>1
  <2> QED BY <1>1, <2>1, <2>3, <2>4
<1>8. f \in Bijection(F, S)
  <2> HIDE DEF f
  <2>1. IsInjective(f)
    BY <1>5, <1>6 DEF IsInjective
  <2> QED BY <1>5, <1>7, <2>1 DEF Bijection, Injection, Surjection
<1>9. ExistsBijection(F, S)
  BY <1>8 DEF ExistsBijection
<1>10. Cardinality(S) = Cardinality(F)
  BY <1>4, <1>9, FS_Bijection
<1> QED BY <1>10 DEF Rescan, F, S

\* The pass over the rows, before row i.
Noted(x, a, i) ==
  /\ x.seen \subseteq SeenBefore(a, i)
  /\ x.nan <=> \E j \in 0 .. i - 1 : Valid(a, j) /\ a.data[j] = NaN
  /\ ~x.overflow => x.seen = SeenBefore(a, i)

Passing(V) == [seen : SUBSET V, nan : BOOLEAN, overflow : BOOLEAN]

LEMMA NotedNext ==
  ASSUME NEW a, NEW i \in Nat \ {0}, NEW V, NEW x \in Passing(V), Noted(x, a, i - 1), NEW y \in Passing(V),
         y = IF ~Valid(a, i - 1) \/ a.data[i - 1] \in x.seen THEN x
             ELSE IF a.data[i - 1] = NaN THEN [x EXCEPT !.nan = TRUE]
             ELSE IF Cardinality(x.seen) < NuniqueCap THEN [x EXCEPT !.seen = @ \cup {a.data[i - 1]}]
             ELSE [x EXCEPT !.overflow = TRUE]
  PROVE  Noted(y, a, i)
<1> DEFINE v == a.data[i - 1]
           was == SeenBefore(a, i - 1)
           now == SeenBefore(a, i)
           Nan(l) == \E j \in 0 .. l - 1 : Valid(a, j) /\ a.data[j] = NaN
<1>1. /\ Valid(a, i - 1) /\ v # NaN => now = was \cup {v}
      /\ ~(Valid(a, i - 1) /\ v # NaN) => now = was
  BY SeenNext
<1>2. Nan(i) <=> Nan(i - 1) \/ (Valid(a, i - 1) /\ v = NaN)
  <2>1. \A j \in 0 .. i - 1 : j = i - 1 \/ j \in 0 .. (i - 1) - 1
    OBVIOUS
  <2>2. i - 1 \in 0 .. i - 1 /\ \A j \in 0 .. (i - 1) - 1 : j \in 0 .. i - 1
    OBVIOUS
  <2> QED BY ONLY <2>1, <2>2
<1>3. NaN \notin was
  BY DEF SeenBefore
<1>4. x.seen \subseteq was /\ (x.nan <=> Nan(i - 1)) /\ (~x.overflow => x.seen = was)
  BY DEF Noted
<1>5. /\ x = [seen |-> x.seen, nan |-> x.nan, overflow |-> x.overflow]
      /\ x.nan \in BOOLEAN /\ x.overflow \in BOOLEAN /\ y.nan \in BOOLEAN /\ y.overflow \in BOOLEAN
  BY DEF Passing
<1> SUFFICES y.seen \subseteq now /\ (y.nan <=> Nan(i)) /\ (~y.overflow => y.seen = now)
  BY DEF Noted
<1> HIDE DEF was, now, Nan
<1>6. CASE ~Valid(a, i - 1) \/ v \in x.seen
  <2>1. y = x
    BY <1>6
  <2>2. v # NaN \/ ~Valid(a, i - 1)
    BY <1>3, <1>4, <1>6
  <2> QED BY <1>1, <1>2, <1>4, <1>6, <2>1, <2>2
<1>7. CASE Valid(a, i - 1) /\ v \notin x.seen /\ v = NaN
  <2>1. y = [x EXCEPT !.nan = TRUE]
    BY <1>7
  <2>2. y.seen = x.seen /\ y.nan = TRUE /\ y.overflow = x.overflow
    BY <1>5, <2>1
  <2> QED BY <1>1, <1>2, <1>4, <1>7, <2>2
<1>8. CASE Valid(a, i - 1) /\ v \notin x.seen /\ v # NaN /\ Cardinality(x.seen) < NuniqueCap
  <2>1. y = [x EXCEPT !.seen = @ \cup {v}]
    BY <1>8
  <2>2. y.seen = x.seen \cup {v} /\ y.nan = x.nan /\ y.overflow = x.overflow
    BY <1>5, <2>1
  <2> QED BY <1>1, <1>2, <1>4, <1>8, <2>2
<1>9. CASE Valid(a, i - 1) /\ v \notin x.seen /\ v # NaN /\ ~(Cardinality(x.seen) < NuniqueCap)
  <2>1. y = [x EXCEPT !.overflow = TRUE]
    BY <1>9
  <2>2. y.seen = x.seen /\ y.nan = x.nan /\ y.overflow = TRUE
    BY <1>5, <2>1
  <2> QED BY <1>1, <1>2, <1>4, <1>9, <2>2
<1> QED BY <1>6, <1>7, <1>8, <1>9

\* All NaNs are one value, and a buffer that is full changes no count.
LEMMA NuniqueComputes ==
  ASSUME NEW a, NEW n \in Nat, IsFiniteSet(Known(a, n))
  PROVE  nunique_null(a, n) = Cardinality(ValuesIn(Part(a.data, Known(a, n))))
<1> DEFINE D == {a.data[j] : j \in 0 .. n - 1}
           V == Passing(D)
           start == [seen |-> {}, nan |-> FALSE, overflow |-> FALSE]
           Body(x, i) == IF ~Valid(a, i - 1) \/ a.data[i - 1] \in x.seen THEN x
                         ELSE IF a.data[i - 1] = NaN THEN [x EXCEPT !.nan = TRUE]
                         ELSE IF Cardinality(x.seen) < NuniqueCap THEN [x EXCEPT !.seen = @ \cup {a.data[i - 1]}]
                         ELSE [x EXCEPT !.overflow = TRUE]
           step == [x \in (1 .. n) \X V |-> Body(x[2], x[1])]
           IsLoop(f) == f = [i \in 0 .. n |->
                              IF i = 0 THEN [seen |-> {}, nan |-> FALSE, overflow |-> FALSE]
                              ELSE IF ~Valid(a, i - 1) \/ a.data[i - 1] \in f[i - 1].seen THEN f[i - 1]
                              ELSE IF a.data[i - 1] = NaN THEN [f[i - 1] EXCEPT !.nan = TRUE]
                              ELSE IF Cardinality(f[i - 1].seen) < NuniqueCap
                                   THEN [f[i - 1] EXCEPT !.seen = @ \cup {a.data[i - 1]}]
                              ELSE [f[i - 1] EXCEPT !.overflow = TRUE]]
           pass == CHOOSE f : IsLoop(f)
<1>1. \A i \in 1 .. n, x \in V : Body(x, i) \in V
  <2> SUFFICES ASSUME NEW i \in 1 .. n, NEW x \in V PROVE Body(x, i) \in V
    OBVIOUS
  <2>1. a.data[i - 1] \in D
    <3>1. i - 1 \in 0 .. n - 1
      OBVIOUS
    <3> QED BY <3>1
  <2> HIDE DEF D
  <2> QED BY <2>1 DEF Passing
<1>2. start \in V
  BY DEF Passing
<1>3. step \in [(1 .. n) \X V -> V] /\ \A i \in 1 .. n, x \in V : step[<<i, x>>] = Body(x, i)
  <2> HIDE DEF Body, V
  <2> QED BY <1>1
<1> HIDE DEF step
<1>4. PICK f : Follows(f, n, V, start, step)
  <2> HIDE DEF V, start
  <2> QED BY ONLY <1>2, <1>3, n \in Nat, LoopExists
<1>5. /\ f = [k \in 0 .. n |-> IF k = 0 THEN start ELSE step[<<k, f[k - 1]>>]]
      /\ \A k \in 0 .. n : f[k] \in V
  BY <1>4 DEF Follows
<1>6. \A i \in 0 .. n : (IF i = 0 THEN start ELSE step[<<i, f[i - 1]>>]) = IF i = 0 THEN start ELSE Body(f[i - 1], i)
  <2> SUFFICES ASSUME NEW i \in 0 .. n, i # 0 PROVE step[<<i, f[i - 1]>>] = Body(f[i - 1], i)
    OBVIOUS
  <2>1. i \in 1 .. n /\ i - 1 \in 0 .. n
    OBVIOUS
  <2>2. f[i - 1] \in V
    BY <1>5, <2>1
  <2> HIDE DEF V, Body
  <2> QED BY <1>3, <2>1, <2>2
<1>7. IsLoop(f)
  <2>1. f = [i \in 0 .. n |-> IF i = 0 THEN start ELSE Body(f[i - 1], i)]
    <3> HIDE DEF Body, V, start
    <3> QED BY <1>5, <1>6
  <2> QED BY <2>1
<1>8. IsLoop(pass)
  <2>1. \E g : IsLoop(g)
    BY <1>7
  <2> HIDE DEF IsLoop
  <2> QED BY <2>1
<1>9. nunique_null(a, n)
        = (IF pass[n].overflow THEN Rescan(a, n, Cardinality(pass[n].seen)) ELSE Cardinality(pass[n].seen))
          + IF pass[n].nan THEN 1 ELSE 0
  BY DEF nunique_null
<1> HIDE DEF pass
<1>10. pass[0] = start /\ \A i \in 1 .. n : pass[i] = Body(pass[i - 1], i)
  <2>1. pass = [i \in 0 .. n |-> IF i = 0 THEN start ELSE Body(pass[i - 1], i)]
    BY <1>8
  <2> HIDE DEF Body, start
  <2> QED BY <2>1
<1> DEFINE G == {i \in 0 .. n : pass[i] \in V /\ Noted(pass[i], a, i)}
<1>11. 0 \in G
  <2>1. SeenBefore(a, 0) = {}
    <3>1. 1 \in Nat \ {0}
      OBVIOUS
    <3> QED BY ONLY <3>1, SeenNext
  <2>2. start.seen = {} /\ start.nan = FALSE /\ start.overflow = FALSE
    OBVIOUS
  <2>3. Noted(start, a, 0)
    BY <2>1, <2>2 DEF Noted
  <2> QED BY <1>2, <1>10, <2>3
<1>12. ASSUME NEW i \in 1 .. n, i - 1 \in G PROVE i \in G
  <2> DEFINE x == pass[i - 1]
             y == pass[i]
  <2>1. y = Body(x, i) /\ x \in V /\ Noted(x, a, i - 1)
    BY <1>10, <1>12
  <2>2. y \in V
    <3> HIDE DEF Body, V, x, y
    <3> QED BY <1>1, <2>1
  <2>3. Noted(y, a, i)
    <3>1. i \in Nat \ {0}
      OBVIOUS
    <3>2. y = Body(x, i)
      BY <2>1
    <3> HIDE DEF x, y, D
    <3> QED BY ONLY <2>1, <2>2, <3>1, <3>2, NotedNext
  <2> QED BY <2>2, <2>3
<1> HIDE DEF G
<1>13. \A i \in 0 .. n : i \in G
  BY <1>11, <1>12, StepByStep
<1>14. pass[n] \in V /\ Noted(pass[n], a, n)
  <2>1. n \in 0 .. n
    OBVIOUS
  <2> QED BY <1>13, <2>1 DEF G
<1> DEFINE W == ValuesIn(Part(a.data, Known(a, n)))
           S == SeenBefore(a, n)
<1>15. /\ Cardinality(S) \in Nat /\ (NaN \in W => Cardinality(W) = Cardinality(S) + 1)
       /\ (NaN \notin W => W = S)
  BY DistinctSplit
<1>16. pass[n].nan <=> NaN \in W
  <2>1. NaN \in W <=> \E j \in 0 .. n - 1 : Valid(a, j) /\ a.data[j] = NaN
    BY DEF ValuesIn, Part, Known, Valid
  <2> QED BY <1>14, <2>1 DEF Noted
<1>17. (IF pass[n].overflow THEN Rescan(a, n, Cardinality(pass[n].seen)) ELSE Cardinality(pass[n].seen)) = Cardinality(S)
  <2>1. pass[n].overflow => Rescan(a, n, Cardinality(pass[n].seen)) = Cardinality(S)
    BY RescanCounts
  <2>2. ~pass[n].overflow => pass[n].seen = S
    BY <1>14 DEF Noted
  <2> QED BY <2>1, <2>2
<1>18. pass[n].nan \in BOOLEAN
  BY <1>14 DEF Passing
<1> HIDE DEF W, S, V
<1>19. nunique_null(a, n) = Cardinality(S) + IF pass[n].nan THEN 1 ELSE 0
  BY <1>9, <1>17
<1>20. nunique_null(a, n) = Cardinality(W)
  BY <1>15, <1>16, <1>18, <1>19
<1> QED BY <1>20 DEF W

\* Within the buffer, nunique of i64 counts the values.
LEMMA NuniqueI64Computes ==
  ASSUME NEW a, NEW n \in Nat, IsFiniteSet(Known(a, n)), \A i \in Known(a, n) : a.data[i] # NaN,
         Cardinality(SeenBefore(a, n)) <= NuniqueCap
  PROVE  nunique_i64_null(a, n) = Cardinality(SeenBefore(a, n))
<1> DEFINE D == {a.data[j] : j \in 0 .. n - 1}
           V == [seen : SUBSET D, cnt : Int]
           start == [seen |-> {}, cnt |-> 0]
           Body(x, i) == IF x.cnt = Trap \/ ~Valid(a, i - 1) THEN x
                         ELSE IF x.cnt > NuniqueCap THEN [x EXCEPT !.cnt = Trap]
                         ELSE IF a.data[i - 1] \in x.seen THEN x
                         ELSE [seen |-> IF x.cnt < NuniqueCap THEN x.seen \cup {a.data[i - 1]} ELSE x.seen,
                               cnt |-> x.cnt + 1]
           step == [x \in (1 .. n) \X V |-> Body(x[2], x[1])]
           IsLoop(f) == f = [i \in 0 .. n |->
                              IF i = 0 THEN [seen |-> {}, cnt |-> 0]
                              ELSE IF f[i - 1].cnt = Trap \/ ~Valid(a, i - 1) THEN f[i - 1]
                              ELSE IF f[i - 1].cnt > NuniqueCap THEN [f[i - 1] EXCEPT !.cnt = Trap]
                              ELSE IF a.data[i - 1] \in f[i - 1].seen THEN f[i - 1]
                              ELSE [seen |-> IF f[i - 1].cnt < NuniqueCap THEN f[i - 1].seen \cup {a.data[i - 1]}
                                             ELSE f[i - 1].seen,
                                    cnt |-> f[i - 1].cnt + 1]]
           pass == CHOOSE f : IsLoop(f)
           S(i) == SeenBefore(a, i)
<1>1. \A i \in 1 .. n, x \in V : Body(x, i) \in V
  <2> SUFFICES ASSUME NEW i \in 1 .. n, NEW x \in V PROVE Body(x, i) \in V
    OBVIOUS
  <2>1. a.data[i - 1] \in D
    <3>1. i - 1 \in 0 .. n - 1
      OBVIOUS
    <3> QED BY <3>1
  <2>2. Trap \in Int
    BY DEF Trap
  <2> HIDE DEF D
  <2> QED BY <2>1, <2>2
<1>2. start \in V
  OBVIOUS
<1>3. step \in [(1 .. n) \X V -> V] /\ \A i \in 1 .. n, x \in V : step[<<i, x>>] = Body(x, i)
  <2> HIDE DEF Body, V
  <2> QED BY <1>1
<1> HIDE DEF step
<1>4. PICK f : Follows(f, n, V, start, step)
  <2> HIDE DEF V, start
  <2> QED BY ONLY <1>2, <1>3, n \in Nat, LoopExists
<1>5. /\ f = [k \in 0 .. n |-> IF k = 0 THEN start ELSE step[<<k, f[k - 1]>>]]
      /\ \A k \in 0 .. n : f[k] \in V
  BY <1>4 DEF Follows
<1>6. \A i \in 0 .. n : (IF i = 0 THEN start ELSE step[<<i, f[i - 1]>>]) = IF i = 0 THEN start ELSE Body(f[i - 1], i)
  <2> SUFFICES ASSUME NEW i \in 0 .. n, i # 0 PROVE step[<<i, f[i - 1]>>] = Body(f[i - 1], i)
    OBVIOUS
  <2>1. i \in 1 .. n /\ i - 1 \in 0 .. n
    OBVIOUS
  <2>2. f[i - 1] \in V
    BY <1>5, <2>1
  <2> HIDE DEF V, Body
  <2> QED BY <1>3, <2>1, <2>2
<1>7. IsLoop(f)
  <2>1. f = [i \in 0 .. n |-> IF i = 0 THEN start ELSE Body(f[i - 1], i)]
    <3> HIDE DEF Body, V, start
    <3> QED BY <1>5, <1>6
  <2> QED BY <2>1, Zenon
<1>8. IsLoop(pass)
  <2>1. \E g : IsLoop(g)
    BY <1>7
  <2> HIDE DEF IsLoop
  <2> QED BY <2>1
<1>9. nunique_i64_null(a, n) = pass[n].cnt
  BY DEF nunique_i64_null
<1> HIDE DEF pass
<1>10. pass[0] = start /\ \A i \in 1 .. n : pass[i] = Body(pass[i - 1], i)
  <2>1. pass = [i \in 0 .. n |-> IF i = 0 THEN start ELSE Body(pass[i - 1], i)]
    BY <1>8, Zenon
  <2> HIDE DEF Body, start
  <2> QED BY <2>1
<1>11. IsFiniteSet(S(n)) /\ Cardinality(S(n)) \in Nat
  BY DistinctSplit
<1>12. ASSUME NEW i \in 0 .. n
       PROVE  S(i) \subseteq S(n) /\ IsFiniteSet(S(i)) /\ Cardinality(S(i)) \in 0 .. NuniqueCap
  <2>1. S(i) \in SUBSET S(n)
    <3>1. \A j \in 0 .. i - 1 : j \in 0 .. n - 1
      OBVIOUS
    <3> QED BY <3>1 DEF SeenBefore
  <2> HIDE DEF S
  <2>2. IsFiniteSet(S(i)) /\ Cardinality(S(i)) <= Cardinality(S(n)) /\ Cardinality(S(i)) \in Nat
    BY <1>11, <2>1, FS_Subset, FS_CardinalityType
  <2>3. Cardinality(S(n)) <= NuniqueCap
    BY DEF S
  <2> QED BY <1>11, <2>1, <2>2, <2>3, NuniqueCapAssumption
<1> DEFINE G == {i \in 0 .. n : pass[i].seen = S(i) /\ pass[i].cnt = Cardinality(S(i))}
<1>13. 0 \in G
  <2>1. SeenBefore(a, 0) = {}
    <3>1. 1 \in Nat \ {0}
      OBVIOUS
    <3> QED BY ONLY <3>1, SeenNext
  <2>2. Cardinality({}) = 0
    BY FS_EmptySet
  <2>3. start.seen = {} /\ start.cnt = 0 /\ pass[0] = start
    BY <1>10
  <2>4. pass[0].seen = S(0) /\ pass[0].cnt = Cardinality(S(0))
    <3> HIDE DEF start
    <3> QED BY <2>1, <2>2, <2>3
  <2> HIDE DEF S
  <2> QED BY <2>4
<1>14. ASSUME NEW i \in 1 .. n, i - 1 \in G PROVE i \in G
  <2> DEFINE x == pass[i - 1]
             y == pass[i]
             v == a.data[i - 1]
  <2>1. y = Body(x, i) /\ x.seen = S(i - 1) /\ x.cnt = Cardinality(S(i - 1))
    BY <1>10, <1>14
  <2>2. /\ x.cnt \in 0 .. NuniqueCap /\ IsFiniteSet(S(i - 1)) /\ Cardinality(S(i)) \in 0 .. NuniqueCap
    <3>1. i - 1 \in 0 .. n
      OBVIOUS
    <3> QED BY <1>12, <2>1, <3>1
  <2>3. Trap # x.cnt /\ ~(x.cnt > NuniqueCap)
    BY <2>2, NuniqueCapAssumption DEF Trap
  <2>4. /\ Valid(a, i - 1) /\ v # NaN => S(i) = S(i - 1) \cup {v}
        /\ ~(Valid(a, i - 1) /\ v # NaN) => S(i) = S(i - 1)
    BY SeenNext
  <2>5. Valid(a, i - 1) => v # NaN
    <3>1. i - 1 \in 0 .. n - 1
      OBVIOUS
    <3> QED BY <3>1 DEF Known, Valid
  <2> HIDE DEF x, y, S
  <2>6. CASE ~Valid(a, i - 1)
    <3>1. y = x
      BY <2>1, <2>6
    <3>2. S(i) = S(i - 1)
      BY <2>4, <2>6
    <3> QED BY <2>1, <3>1, <3>2 DEF y
  <2>7. CASE Valid(a, i - 1) /\ v \in x.seen
    <3>1. y = x
      BY <2>1, <2>3, <2>7
    <3>2. S(i) = S(i - 1)
      BY <2>1, <2>4, <2>5, <2>7
    <3> QED BY <2>1, <3>1, <3>2 DEF y
  <2>8. CASE Valid(a, i - 1) /\ v \notin x.seen
    <3>1. S(i) = S(i - 1) \cup {v} /\ v \notin S(i - 1)
      BY <2>1, <2>4, <2>5, <2>8
    <3>2. Cardinality(S(i)) = x.cnt + 1
      <4>1. Cardinality(S(i - 1) \cup {v}) = Cardinality(S(i - 1)) + 1
        BY <2>2, <3>1, FS_AddElement
      <4> QED BY <2>1, <3>1, <4>1
    <3>3. x.cnt < NuniqueCap
      BY <2>2, <3>2, NuniqueCapAssumption
    <3>4. y = [seen |-> x.seen \cup {v}, cnt |-> x.cnt + 1]
      BY <2>1, <2>3, <2>8, <3>3
    <3>5. y.seen = x.seen \cup {v} /\ y.cnt = x.cnt + 1
      BY <3>4
    <3>6. y.seen = S(i) /\ y.cnt = Cardinality(S(i))
      BY <2>1, <3>1, <3>2, <3>5
    <3> QED BY <3>6 DEF y
  <2> QED BY <2>6, <2>7, <2>8
<1> HIDE DEF G
<1>15. \A i \in 0 .. n : i \in G
  BY <1>13, <1>14, StepByStep
<1>16. n \in G
  <2>1. n \in 0 .. n
    OBVIOUS
  <2> QED BY <1>15, <2>1
<1> QED BY <1>9, <1>16 DEF G, S
-----------------------------------------------------------------------------
(* The first and the last valid row.                                       *)

LEMMA EndsCompute ==
  ASSUME NEW a, NEW n \in Nat
  PROVE  /\ Known(a, n) = {} => first_null(a, n) = <<0, 0>> /\ last_null(a, n) = <<0, 0>>
         /\ Known(a, n) # {} =>
              /\ \E i \in Known(a, n) : first_null(a, n) = <<1, a.data[i]>> /\ \A j \in Known(a, n) : i <= j
              /\ \E i \in Known(a, n) : last_null(a, n) = <<1, a.data[i]>> /\ \A j \in Known(a, n) : j <= i
<1> DEFINE K == Known(a, n)
<1>1. FirstRow(a, n) = Min({n} \cup K) /\ LastRow(a, n) = IF FirstRow(a, n) = n THEN n ELSE Max(K)
  BY DEF FirstRow, LastRow, Known, Valid
<1>2. K \subseteq 0 .. n - 1 /\ K \subseteq 0 .. n /\ K \subseteq Nat /\ K \subseteq Int
  BY DEF Known
<1> HIDE DEF K
<1>3. CASE K = {}
  <2>1. FirstRow(a, n) = n
    <3>1. {n} \cup K \subseteq Int /\ n \in {n} \cup K /\ \A y \in {n} \cup K : n <= y
      BY <1>3
    <3>2. Min({n} \cup K) = n
      BY ONLY <3>1, MinIs
    <3> QED BY <1>1, <3>2
  <2>2. LastRow(a, n) = n /\ ~(n < n)
    BY <1>1, <2>1
  <2>3. first_null(a, n) = <<0, 0>> /\ last_null(a, n) = <<0, 0>>
    BY <2>1, <2>2 DEF first_null, last_null, Located
  <2> QED BY <1>3, <2>3 DEF K
<1>4. CASE K # {}
  <2>1. PICK i \in K : \A j \in K : i <= j
    BY <1>2, <1>4, LeastElement
  <2>2. PICK l \in K : \A j \in K : j <= l
    BY <1>2, <1>4, GreatestElement
  <2>3. FirstRow(a, n) = i
    <3>1. {n} \cup K \subseteq Int /\ i \in {n} \cup K /\ \A y \in {n} \cup K : i <= y
      BY <1>2, <2>1
    <3>2. Min({n} \cup K) = i
      BY ONLY <3>1, MinIs
    <3> QED BY <1>1, <3>2
  <2>4. i < n /\ l < n
    BY <1>2
  <2>5. LastRow(a, n) = l
    <3>1. Max(K) = l
      BY <1>2, <2>2, MaxIs
    <3> QED BY <1>1, <1>2, <2>3, <2>4, <3>1
  <2>6. first_null(a, n) = <<1, a.data[i]>>
    BY <2>3, <2>4 DEF first_null, Located
  <2>7. last_null(a, n) = <<1, a.data[l]>>
    BY <2>4, <2>5 DEF last_null, Located
  <2> QED BY <1>4, <2>1, <2>2, <2>6, <2>7 DEF K
<1> QED BY <1>3, <1>4

-----------------------------------------------------------------------------
(* Sums that wrap.                                                         *)

LEMMA WrapsOn ==
  ASSUME NEW T \in Nat \ {0}, NEW x \in Int, NEW y \in Int, NEW z \in Int, NEW v \in Int,
         (x - y) % T = 0, (z - (x + v)) % T = 0
  PROVE  (z - (y + v)) % T = 0
<1> DEFINE q == (x - y) \div T
           r == (z - (x + v)) \div T
<1>1. x - y \in Int /\ z - (x + v) \in Int /\ z - (y + v) \in Int
  OBVIOUS
<1>2. q \in Int /\ x - y = (T * q) + 0
  BY <1>1, Division
<1>3. r \in Int /\ z - (x + v) = (T * r) + 0
  BY <1>1, Division
<1> HIDE DEF q, r
<1>4. T * (q + r) = (T * q) + (T * r) /\ q + r \in Int /\ T * q \in Int /\ T * r \in Int
  BY <1>2, <1>3, Distributes, ProductType
<1>5. z - (y + v) = (T * (q + r)) + 0
  BY ONLY <1>1, <1>2, <1>3, <1>4, x \in Int, y \in Int, z \in Int, v \in Int
<1>6. 0 \in 0 .. T - 1
  OBVIOUS
<1> QED BY ONLY <1>1, <1>4, <1>5, <1>6, T \in Nat \ {0}, DivisionUnique

LEMMA WrappedSum ==
  ASSUME NEW a, NEW n \in Nat, \A i \in Known(a, n) : a.data[i] \in Int
  PROVE  /\ sum_i64_null(a, n) \in Signed(2 * Width)
         /\ (sum_i64_null(a, n) - SumOver(Part(a.data, Known(a, n)), n)) % Two(2 * Width) = 0
<1> DEFINE values == Part(a.data, Known(a, n))
           N == Signed(2 * Width)
           T == Two(2 * Width)
           Body(x, i) == WrapSigned(2 * Width, x + LaneValue(a, i - 1))
           step == [x \in (1 .. n) \X Int |-> Body(x[2], x[1])]
           IsLoop(f) == f = [i \in 0 .. n |->
                              IF i = 0 THEN 0 ELSE WrapSigned(2 * Width, f[i - 1] + LaneValue(a, i - 1))]
           acc == CHOOSE f : IsLoop(f)
<1>1. /\ 2 * Width \in Nat \ {0} /\ T \in Nat \ {0} /\ 0 \in N /\ N \subseteq Int
      /\ Two(2 * Width - 1) \in Nat \ {0}
  <2>1. 2 * Width \in Nat \ {0}
    BY WidthAssumption
  <2>2. T \in Nat \ {0} /\ Two(2 * Width - 1) \in Nat \ {0}
    BY Ranges
  <2>3. N = -Two(2 * Width - 1) .. Two(2 * Width - 1) - 1
    BY DEF Signed
  <2> HIDE DEF N, T
  <2> QED BY ONLY <2>1, <2>2, <2>3
<1>2. \A i \in 0 .. n - 1 : Term(values, i) = LaneValue(a, i) /\ Term(values, i) \in Int
  <2> SUFFICES ASSUME NEW i \in 0 .. n - 1 PROVE Term(values, i) = LaneValue(a, i) /\ Term(values, i) \in Int
    OBVIOUS
  <2>1. i \in Known(a, n) <=> Valid(a, i)
    BY DEF Known, Valid
  <2>2. DOMAIN values = Known(a, n) /\ \A j \in Known(a, n) : values[j] = a.data[j]
    BY DEF Part
  <2> HIDE DEF values
  <2> QED BY <2>1, <2>2 DEF Term, LaneValue
<1> HIDE DEF values
<1>3. \A i \in 1 .. n : LaneValue(a, i - 1) \in Int
  <2> SUFFICES ASSUME NEW i \in 1 .. n PROVE LaneValue(a, i - 1) \in Int
    OBVIOUS
  <2>1. i - 1 \in 0 .. n - 1
    OBVIOUS
  <2> QED BY <1>2, <2>1
<1>4. \A i \in 1 .. n, x \in Int :
        /\ Body(x, i) \in N /\ Body(x, i) \in Int
        /\ (Body(x, i) - (x + LaneValue(a, i - 1))) % T = 0
  <2> SUFFICES ASSUME NEW i \in 1 .. n, NEW x \in Int
               PROVE  /\ Body(x, i) \in N /\ Body(x, i) \in Int
                      /\ (Body(x, i) - (x + LaneValue(a, i - 1))) % T = 0
    OBVIOUS
  <2>1. x + LaneValue(a, i - 1) \in Int
    BY <1>3
  <2>2. Body(x, i) \in N /\ (Body(x, i) - (x + LaneValue(a, i - 1))) % T = 0
    BY ONLY <1>1, <2>1, Wrapped
  <2> QED BY <1>1, <2>2
<1>5. step \in [(1 .. n) \X Int -> Int] /\ \A i \in 1 .. n, x \in Int : step[<<i, x>>] = Body(x, i)
  <2> HIDE DEF Body
  <2> QED BY <1>4
<1> HIDE DEF step
<1>6. PICK f : Follows(f, n, Int, 0, step)
  <2>1. 0 \in Int
    OBVIOUS
  <2> QED BY ONLY <1>5, <2>1, n \in Nat, LoopExists
<1>7. /\ f = [k \in 0 .. n |-> IF k = 0 THEN 0 ELSE step[<<k, f[k - 1]>>]]
      /\ \A k \in 0 .. n : f[k] \in Int
  BY <1>6 DEF Follows
<1>8. \A i \in 0 .. n : (IF i = 0 THEN 0 ELSE step[<<i, f[i - 1]>>]) = IF i = 0 THEN 0 ELSE Body(f[i - 1], i)
  <2> SUFFICES ASSUME NEW i \in 0 .. n, i # 0 PROVE step[<<i, f[i - 1]>>] = Body(f[i - 1], i)
    OBVIOUS
  <2>1. i \in 1 .. n /\ i - 1 \in 0 .. n
    OBVIOUS
  <2> HIDE DEF Body
  <2> QED BY <1>5, <1>7, <2>1
<1>9. IsLoop(f)
  <2>1. f = [i \in 0 .. n |-> IF i = 0 THEN 0 ELSE Body(f[i - 1], i)]
    <3> HIDE DEF Body
    <3> QED BY <1>7, <1>8
  <2> QED BY <2>1
<1>10. IsLoop(acc)
  <2>1. \E g : IsLoop(g)
    BY <1>9
  <2> HIDE DEF IsLoop
  <2> QED BY <2>1
<1>11. sum_i64_null(a, n) = acc[n]
  BY DEF sum_i64_null
<1> HIDE DEF acc
<1>12. acc[0] = 0 /\ \A i \in 1 .. n : acc[i] = Body(acc[i - 1], i)
  <2>1. acc = [i \in 0 .. n |-> IF i = 0 THEN 0 ELSE Body(acc[i - 1], i)]
    BY <1>10
  <2> HIDE DEF Body
  <2> QED BY <2>1
<1>13. PICK sum : Sums(sum, values, n) /\ SumOver(values, n) = sum[n]
  BY <1>2, SumOverIs
<1> DEFINE G == {i \in 0 .. n : acc[i] \in N /\ acc[i] \in Int /\ (acc[i] - sum[i]) % T = 0}
<1>14. 0 \in G
  <2>1. acc[0] = 0 /\ sum[0] = 0
    BY <1>12, <1>13 DEF Sums
  <2>2. (0 - 0) % T = 0
    <3> HIDE DEF T
    <3> QED BY ONLY <1>1
  <2>3. acc[0] \in N /\ acc[0] \in Int
    BY <1>1, <2>1
  <2>4. (acc[0] - sum[0]) % T = 0
    BY ONLY <2>1, <2>2
  <2> HIDE DEF N, T
  <2> QED BY <2>3, <2>4
<1>15. ASSUME NEW i \in 1 .. n, i - 1 \in G PROVE i \in G
  <2>1. acc[i - 1] \in Int /\ (acc[i - 1] - sum[i - 1]) % T = 0
    BY <1>15
  <2>2. acc[i] \in N /\ acc[i] \in Int /\ (acc[i] - (acc[i - 1] + LaneValue(a, i - 1))) % T = 0
    <3> HIDE DEF Body
    <3> QED BY <1>4, <1>12, <2>1
  <2>3. i - 1 \in 0 .. n /\ i - 1 \in 0 .. n - 1
    OBVIOUS
  <2>4. sum[i] = sum[i - 1] + LaneValue(a, i - 1) /\ sum[i - 1] \in Int /\ LaneValue(a, i - 1) \in Int
    BY <1>2, <1>3, <1>13, <2>3 DEF Sums
  <2>5. (acc[i] - (sum[i - 1] + LaneValue(a, i - 1))) % T = 0
    <3> HIDE DEF T
    <3> QED BY ONLY <1>1, <2>1, <2>2, <2>4, WrapsOn
  <2> QED BY <2>2, <2>4, <2>5
<1> HIDE DEF G
<1>16. \A i \in 0 .. n : i \in G
  BY <1>14, <1>15, StepByStep
<1>17. n \in G
  <2>1. n \in 0 .. n
    OBVIOUS
  <2> QED BY <1>16, <2>1
<1> QED BY <1>11, <1>13, <1>17 DEF G, values

-----------------------------------------------------------------------------
(* The reductions together.                                                *)

MeanOf(a, n) ==
  IF Known(a, n) = {} THEN NoRatio ELSE <<Total(Part(a.data, Known(a, n)), n), Cardinality(Known(a, n))>>

\* What any reduction of a column says.
Described(a, n, r) ==
  /\ r.mean = {MeanOf(a, n)}
  /\ \A v \in r.var : IsVariance(v, Part(a.data, Known(a, n)), n)
  /\ r.nunique = Cardinality(ValuesIn(Part(a.data, Known(a, n))))

FloatsDescribed(a, n, r) ==
  /\ r.sum = {Total(Part(a.data, Known(a, n)), n)}
  /\ r.min = {Extremes(Part(a.data, Known(a, n)))[1]} /\ r.max = {Extremes(Part(a.data, Known(a, n)))[2]}
  /\ r.count = Cardinality(Known(a, n))
  /\ r.first[1] = 1 =>
       \E i \in Known(a, n) : Part(a.data, Known(a, n))[i] = r.first[2] /\ \A j \in Known(a, n) : i <= j
  /\ r.last[1] = 1 =>
       \E i \in Known(a, n) : Part(a.data, Known(a, n))[i] = r.last[2] /\ \A j \in Known(a, n) : j <= i
  /\ (Known(a, n) = {}) = (r.first[1] = 0) /\ r.last[1] = r.first[1]

IntsDescribed(a, n, r) ==
  /\ r.sum = Total(Part(a.data, Known(a, n)), n)
  /\ r.wrapped \in Signed(2 * Width) /\ Congruent("i64", r.wrapped, Total(Part(a.data, Known(a, n)), n))
  /\ <<r.min, r.max>> = IF Known(a, n) = {} THEN <<0, 0>> ELSE Extremes(Part(a.data, Known(a, n)))
  /\ Cardinality(ValuesIn(Part(a.data, Known(a, n)))) <= NuniqueCap =>
       r.nunique_i64 = Cardinality(ValuesIn(Part(a.data, Known(a, n))))

\* A column whose sums stay finite.
Summable(a, n, b) ==
  /\ Bounded(a.data, Known(a, n), n, b) /\ n * Squared(2 * (n * b)) < PosInf
  /\ a.vp # NullPtr => FilledBy(a.vp, n)

\* Any number of stripes gives the same mean, and a variance.
LEMMA MeansAndVariances ==
  ASSUME NEW a, NEW n \in Nat, NEW b, Summable(a, n, b), NEW k1 \in Nat \ {0}, NEW k2 \in Nat \ {0}
  PROVE  /\ mean_null(a, n, k1) = MeanOf(a, n)
         /\ IsVariance(var_null(a, n, k1, k2), Part(a.data, Known(a, n)), n)
<1>1. /\ Bounded(a.data, Known(a, n), n, b) /\ n * Squared(2 * (n * b)) < PosInf
      /\ a.vp # NullPtr => FilledBy(a.vp, n)
  BY DEF Summable
<1>2. mean_null(a, n, k1) = MeanOf(a, n)
  <2>1. mean_null(a, n, k1) = IF Known(a, n) = {} THEN NoRatio
                              ELSE <<Total(Part(a.data, Known(a, n)), n), Cardinality(Known(a, n))>>
    BY <1>1, MeanComputes
  <2> QED BY <2>1 DEF MeanOf
<1>3. IsVariance(var_null(a, n, k1, k2), Part(a.data, Known(a, n)), n)
  BY <1>1, VarianceComputes
<1> QED BY <1>2, <1>3

LEMMA FloatsReduce ==
  ASSUME NEW a, NEW n \in Nat, NEW b, Summable(a, n, b)
  PROVE  Described(a, n, FloatsResult(a, n)) /\ FloatsDescribed(a, n, FloatsResult(a, n))
<1> DEFINE K == Known(a, n)
           values == Part(a.data, K)
           r == FloatsResult(a, n)
<1>1. /\ Bounded(a.data, K, n, b) /\ (a.vp # NullPtr => FilledBy(a.vp, n))
      /\ \A i \in K : a.data[i] \in NegInf .. NaN
  BY DEF Summable, Bounded
<1>2. 1 \in Nat \ {0} /\ 2 \in Nat \ {0} /\ 4 \in Nat \ {0}
  OBVIOUS
<1>3. sum_f64_null(a, n) = Total(values, n) /\ sum_f32_null(a, n) = Total(values, n)
  BY <1>1, <1>2, StripedSum DEF sum_f64_null, sum_f32_null
<1>4. mean_null(a, n, 2) = MeanOf(a, n) /\ mean_null(a, n, 4) = MeanOf(a, n)
  BY <1>2, MeansAndVariances
<1>5. IsVariance(var_null(a, n, 2, 2), values, n) /\ IsVariance(var_null(a, n, 4, 1), values, n)
  BY <1>2, MeansAndVariances
<1>6. \A k \in Nat \ {0}, least \in BOOLEAN : FloatExtreme(a, n, k, least) = Extremes(values)[IF least THEN 1 ELSE 2]
  <2> SUFFICES ASSUME NEW k \in Nat \ {0}, NEW least \in BOOLEAN
               PROVE  FloatExtreme(a, n, k, least) = Extremes(values)[IF least THEN 1 ELSE 2]
    OBVIOUS
  <2> QED BY <1>1, FloatExtremeComputes
<1>7. /\ min_f64_null(a, n) = Extremes(values)[1] /\ min_f32_null(a, n) = Extremes(values)[1]
      /\ max_f64_null(a, n) = Extremes(values)[2] /\ max_f32_null(a, n) = Extremes(values)[2]
  <2> HIDE DEF values
  <2> QED BY <1>2, <1>6 DEF min_f64_null, min_f32_null, max_f64_null, max_f32_null
<1>8. IsFiniteSet(K) /\ count_null(a, n) = Cardinality(K)
  BY <1>1, CountExact
<1>9. nunique_null(a, n) = Cardinality(ValuesIn(values))
  BY <1>8, NuniqueComputes
<1>10. /\ K = {} => first_null(a, n) = <<0, 0>> /\ last_null(a, n) = <<0, 0>>
       /\ K # {} =>
            /\ \E i \in K : first_null(a, n) = <<1, a.data[i]>> /\ \A j \in K : i <= j
            /\ \E i \in K : last_null(a, n) = <<1, a.data[i]>> /\ \A j \in K : j <= i
  BY EndsCompute
<1>11. /\ r.sum = {sum_f64_null(a, n), sum_f32_null(a, n)}
       /\ r.mean = {mean_null(a, n, 2), mean_null(a, n, 4)}
       /\ r.var = {var_null(a, n, 2, 2), var_null(a, n, 4, 1)}
       /\ r.min = {min_f64_null(a, n), min_f32_null(a, n)}
       /\ r.max = {max_f64_null(a, n), max_f32_null(a, n)}
       /\ r.first = first_null(a, n) /\ r.last = last_null(a, n)
       /\ r.nunique = nunique_null(a, n) /\ r.count = count_null(a, n)
  BY DEF FloatsResult
<1>12. \A i \in K : values[i] = a.data[i]
  BY DEF Part
<1> HIDE DEF K, values, r
<1>13. /\ r.first[1] = 1 => \E i \in K : values[i] = r.first[2] /\ \A j \in K : i <= j
       /\ r.last[1] = 1 => \E i \in K : values[i] = r.last[2] /\ \A j \in K : j <= i
       /\ (K = {}) = (r.first[1] = 0) /\ r.last[1] = r.first[1]
  <2>1. CASE K = {}
    <3>1. r.first[1] = 0 /\ r.last[1] = 0
      BY <1>10, <1>11, <2>1
    <3> QED BY <2>1, <3>1
  <2>2. CASE K # {}
    <3>1. PICK i \in K : first_null(a, n) = <<1, a.data[i]>> /\ \A j \in K : i <= j
      BY <1>10, <2>2
    <3>2. PICK l \in K : last_null(a, n) = <<1, a.data[l]>> /\ \A j \in K : j <= l
      BY <1>10, <2>2
    <3>3. r.first[1] = 1 /\ r.first[2] = values[i] /\ r.last[1] = 1 /\ r.last[2] = values[l]
      BY <1>11, <1>12, <3>1, <3>2
    <3> QED BY <2>2, <3>1, <3>2, <3>3
  <2> QED BY <2>1, <2>2
<1>14. r.mean = {MeanOf(a, n)} /\ r.nunique = Cardinality(ValuesIn(values)) /\ \A v \in r.var : IsVariance(v, values, n)
  BY <1>4, <1>5, <1>9, <1>11
<1>15. /\ r.sum = {Total(values, n)} /\ r.min = {Extremes(values)[1]} /\ r.max = {Extremes(values)[2]}
       /\ r.count = Cardinality(K)
  BY <1>3, <1>7, <1>8, <1>11
<1>16. Described(a, n, r)
  BY <1>14 DEF Described, K, values
<1>17. FloatsDescribed(a, n, r)
  BY <1>13, <1>15 DEF FloatsDescribed, K, values
<1> QED BY <1>16, <1>17 DEF r

LEMMA IntsReduce ==
  ASSUME NEW a, NEW n \in Nat, NEW b, Summable(a, n, b), \A i \in Known(a, n) : a.data[i] \in Int /\ Finite(a.data[i])
  PROVE  Described(a, n, IntsResult(a, n)) /\ IntsDescribed(a, n, IntsResult(a, n))
<1> DEFINE K == Known(a, n)
           values == Part(a.data, K)
           r == IntsResult(a, n)
<1>1. /\ Bounded(a.data, K, n, b) /\ (a.vp # NullPtr => FilledBy(a.vp, n))
      /\ \A i \in K : a.data[i] \in Int /\ a.data[i] # NaN
  BY FloatBounds DEF Summable
<1>2. 1 \in Nat \ {0} /\ 2 \in Nat \ {0}
  OBVIOUS
<1>3. sum_int_null(a, n) = Total(values, n)
  BY <1>1, <1>2, StripedSum DEF sum_int_null
<1>4. mean_null(a, n, 1) = MeanOf(a, n) /\ mean_null(a, n, 2) = MeanOf(a, n)
  BY <1>2, MeansAndVariances
<1>5. IsVariance(var_null(a, n, 1, 1), values, n) /\ IsVariance(var_null(a, n, 2, 2), values, n)
  BY <1>2, MeansAndVariances
<1>6. Total(values, n) = SumOver(values, n)
  <2>1. AllFinite(a.data, K) /\ K \subseteq K
    BY DEF AllFinite
  <2> HIDE DEF K
  <2> QED BY <1>1, <2>1, FiniteTotal
<1>7. /\ sum_i64_null(a, n) \in Signed(2 * Width)
      /\ (sum_i64_null(a, n) - SumOver(values, n)) % Two(2 * Width) = 0
  BY <1>1, WrappedSum
<1>8. Congruent("i64", sum_i64_null(a, n), Total(values, n))
  <2>1. Cardinality(Representable("i64")) = Two(2 * Width)
    BY Sizes
  <2> HIDE DEF values
  <2> QED BY <1>6, <1>7, <2>1 DEF Congruent
<1>9. /\ min_int_null(a, n) = IF K = {} THEN 0 ELSE Extremes(values)[1]
      /\ max_int_null(a, n) = IF K = {} THEN 0 ELSE Extremes(values)[2]
  <2>1. \A least \in BOOLEAN : IntExtreme(a, n, least) = IF K = {} THEN 0 ELSE Extremes(values)[IF least THEN 1 ELSE 2]
    <3> SUFFICES ASSUME NEW least \in BOOLEAN
                 PROVE  IntExtreme(a, n, least) = IF K = {} THEN 0 ELSE Extremes(values)[IF least THEN 1 ELSE 2]
      OBVIOUS
    <3> QED BY <1>1, IntExtremeComputes
  <2> HIDE DEF values, K
  <2> QED BY <2>1 DEF min_int_null, max_int_null
<1>10. <<Extremes(values)[1], Extremes(values)[2]>> = Extremes(values)
  <2> HIDE DEF values
  <2> QED BY DEF Extremes
<1>11. IsFiniteSet(K) /\ nunique_null(a, n) = Cardinality(ValuesIn(values))
  BY <1>1, CountExact, NuniqueComputes
<1>12. ValuesIn(values) = SeenBefore(a, n)
  <2>1. NaN \notin ValuesIn(values)
    BY <1>1 DEF ValuesIn, Part
  <2> QED BY <1>11, <2>1, DistinctSplit
<1>13. Cardinality(ValuesIn(values)) <= NuniqueCap => nunique_i64_null(a, n) = Cardinality(ValuesIn(values))
  <2> SUFFICES ASSUME Cardinality(SeenBefore(a, n)) <= NuniqueCap
               PROVE  nunique_i64_null(a, n) = Cardinality(SeenBefore(a, n))
    BY <1>12
  <2> QED BY <1>1, <1>11, NuniqueI64Computes
<1>14. /\ r.sum = sum_int_null(a, n) /\ r.wrapped = sum_i64_null(a, n)
       /\ r.mean = {mean_null(a, n, 1), mean_null(a, n, 2)}
       /\ r.var = {var_null(a, n, 1, 1), var_null(a, n, 2, 2)}
       /\ r.min = min_int_null(a, n) /\ r.max = max_int_null(a, n)
       /\ r.nunique = nunique_null(a, n) /\ r.nunique_i64 = nunique_i64_null(a, n)
  BY DEF IntsResult
<1> HIDE DEF K, values, r
<1>15. r.mean = {MeanOf(a, n)} /\ r.nunique = Cardinality(ValuesIn(values)) /\ \A v \in r.var : IsVariance(v, values, n)
  BY <1>4, <1>5, <1>11, <1>14
<1>16. /\ r.sum = Total(values, n)
       /\ r.wrapped \in Signed(2 * Width) /\ Congruent("i64", r.wrapped, Total(values, n))
       /\ <<r.min, r.max>> = IF K = {} THEN <<0, 0>> ELSE Extremes(values)
       /\ Cardinality(ValuesIn(values)) <= NuniqueCap => r.nunique_i64 = Cardinality(ValuesIn(values))
  BY <1>3, <1>7, <1>8, <1>9, <1>10, <1>13, <1>14
<1>17. Described(a, n, r)
  BY <1>15 DEF Described, K, values
<1>18. IntsDescribed(a, n, r)
  BY <1>16 DEF IntsDescribed, K, values
<1> QED BY <1>17, <1>18 DEF r

\* An integer is a finite float.
LEMMA IntegersFinite ==
  \A v \in Representable("i64") : v \in Int /\ v \in NegInf .. NaN /\ Finite(v)
<1>1. Representable("i64") = -Two(2 * Width - 1) .. Two(2 * Width - 1) - 1
  BY Ranges
<1> QED BY <1>1, Bounds DEF Finite

\* A reduction sees the valid rows and nothing else, whatever the stripes, the
\* seed that stands in for a null and the bytes of the nulls are, for any number of
\* rows whose sums stay finite (reduce.rs).
THEOREM ReductionsOfRows == Spec => []ReductionsExact
<1>1. Computed => ReductionsExact
  <2> SUFFICES ASSUME Computed, Ran({"floats", "ints"}) PROVE ReductionsExact
    BY DEF ReductionsExact
  <2> DEFINE a == call.col
             n == call.n
  <2>1. call \in Calls /\ call.kind \in {"floats", "ints"} /\ ran
    BY DEF Computed, Ran
  <2>2. /\ n \in Nat
        /\ a.vp # NullPtr => FilledBy(a.vp, n)
        /\ \A i \in Known(a, n) : a.data[i] \in IF call.kind = "floats" THEN NegInf .. NaN ELSE Representable("i64")
        /\ \E bound \in 0 .. PosInf - 1 :
             /\ \A i \in Known(a, n) : Finite(a.data[i]) => Magnitude(a.data[i]) <= bound
             /\ n * bound < PosInf /\ n * Squared(2 * (n * bound)) < PosInf
    BY <2>1, CallsAssumption DEF FilledBy
  <2>3. PICK b \in 0 .. PosInf - 1 :
          /\ \A i \in Known(a, n) : Finite(a.data[i]) => Magnitude(a.data[i]) <= b
          /\ n * b < PosInf /\ n * Squared(2 * (n * b)) < PosInf
    BY <2>2
  <2>4. \A i \in Known(a, n) : a.data[i] \in NegInf .. NaN /\ a.data[i] \in Int
    <3>1. \A i \in Known(a, n) : a.data[i] \in NegInf .. NaN \/ a.data[i] \in Representable("i64")
      BY <2>2
    <3> HIDE DEF a, n
    <3> QED BY <3>1, IntegersFinite, FloatBounds
  <2>5. Summable(a, n, b)
    <3>1. b \in Nat /\ Known(a, n) \subseteq 0 .. n - 1
      BY PosInfAssumption DEF Known
    <3>2. \A i \in Known(a, n) : Finite(a.data[i]) => -b <= a.data[i] /\ a.data[i] <= b
      BY <2>3, <2>4, <3>1 DEF Magnitude
    <3> HIDE DEF a, n
    <3>3. Bounded(a.data, Known(a, n), n, b)
      BY <2>3, <2>4, <3>1, <3>2 DEF Bounded
    <3> QED BY <2>2, <2>3, <3>3 DEF Summable
  <2>6. call.kind = "floats" => Described(a, n, result) /\ FloatsDescribed(a, n, result)
    <3> SUFFICES ASSUME call.kind = "floats" PROVE Described(a, n, result) /\ FloatsDescribed(a, n, result)
      OBVIOUS
    <3>1. result = FloatsResult(a, n)
      BY <2>1 DEF Computed, Ran
    <3> HIDE DEF a, n
    <3> QED BY <2>2, <2>5, <3>1, FloatsReduce
  <2>7. call.kind = "ints" => Described(a, n, result) /\ IntsDescribed(a, n, result)
    <3> SUFFICES ASSUME call.kind = "ints" PROVE Described(a, n, result) /\ IntsDescribed(a, n, result)
      OBVIOUS
    <3>1. result = IntsResult(a, n)
      BY <2>1 DEF Computed, Ran
    <3>2. \A i \in Known(a, n) : a.data[i] \in Int /\ Finite(a.data[i])
      BY <2>2, IntegersFinite
    <3> HIDE DEF a, n
    <3> QED BY <2>2, <2>5, <3>1, <3>2, IntsReduce
  <2>8. Described(call.col, call.n, result)
    BY <2>1, <2>6, <2>7
  <2>9. /\ call.kind = "floats" => FloatsDescribed(call.col, call.n, result)
        /\ call.kind = "ints" => IntsDescribed(call.col, call.n, result)
    BY <2>6, <2>7
  <2> QED BY <2>8, <2>9, Zenon DEF ReductionsExact, Described, FloatsDescribed, IntsDescribed, MeanOf, Part
<1> QED BY <1>1, AlwaysComputed, PTL
=============================================================================
