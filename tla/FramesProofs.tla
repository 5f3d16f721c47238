---------------------------- MODULE FramesProofs ----------------------------
(***************************************************************************)
(* Proofs about Frames, for any number of frames, columns, entries and     *)
(* throwing operations, and about Views, for any addresses, columns,       *)
(* contents and number of grows: who owns a column, and what is read       *)
(* through it.  The two specifications share no variable.                  *)
(***************************************************************************)
EXTENDS Frames, Views, FiniteSetTheorems, FunctionTheorems, SequenceTheorems, TLAPS

-----------------------------------------------------------------------------
(* Counting the places that show a column.                                 *)

Displays == [Showing -> Seq(Columns)]

LEMMA Bounds ==
  /\ MaxFrames \in Nat /\ MaxColumns \in Nat /\ MaxThrows \in Nat /\ MaxWidth \in Nat /\ MaxWidth >= 1
  /\ FrameIds \subseteq Nat \ {0} /\ Columns \subseteq Nat \ {0}
  /\ 0 \in Showing /\ -1 \in Showing /\ FrameIds \subseteq Showing
  /\ \A f \in FrameIds : f # 0 /\ f # -1
  /\ 0 # -1
BY FramesAssumption DEF FrameIds, Columns, Showing

LEMMA PlacesFinite ==
  ASSUME NEW s, NEW o
  PROVE  IsFiniteSet(Places(s, o)) /\ Cardinality(Places(s, o)) \in Nat
<1>1. IsFiniteSet(Showing)
  <2>1. IsFiniteSet(FrameIds)
    BY Bounds, FS_Interval DEF FrameIds
  <2>2. Showing = (FrameIds \cup {0}) \cup {-1}
    BY DEF Showing
  <2> QED BY <2>1, <2>2, FS_AddElement
<1>2. IsFiniteSet(1 .. MaxWidth)
  BY Bounds, FS_Interval
<1>3. IsFiniteSet(Showing \X (1 .. MaxWidth))
  BY <1>1, <1>2, FS_Product
<1>4. Places(s, o) \in SUBSET (Showing \X (1 .. MaxWidth))
  BY DEF Places
<1> QED BY <1>3, <1>4, FS_Subset, FS_CardinalityType

\* A place is a pair: where, and which entry.
LEMMA PlacesPairs ==
  ASSUME NEW s, NEW o
  PROVE  /\ \A h \in Places(s, o) : h = <<h[1], h[2]>> /\ h[1] \in Showing /\ h[2] \in 1 .. MaxWidth
         /\ \A a, i : <<a, i>> \in Places(s, o) <=>
              a \in Showing /\ i \in 1 .. MaxWidth /\ i <= Len(s[a]) /\ s[a][i] = o
BY DEF Places

\* Showing one more entry adds a place to its column and to no other.
LEMMA OneMore ==
  ASSUME NEW s \in Displays, NEW a \in Showing, NEW c \in Columns, Len(s[a]) < MaxWidth
  PROVE  LET t == [s EXCEPT ![a] = Append(@, c)] IN
         /\ t \in Displays
         /\ Places(t, c) = Places(s, c) \cup {<<a, Len(s[a]) + 1>>}
         /\ Cardinality(Places(t, c)) = Cardinality(Places(s, c)) + 1
         /\ \A o \in Columns \ {c} : Places(t, o) = Places(s, o)
<1> DEFINE t == [s EXCEPT ![a] = Append(@, c)]
           n == Len(s[a])
<1>1. s[a] \in Seq(Columns) /\ n \in Nat
  BY DEF Displays
<1>2. /\ t[a] = Append(s[a], c) /\ t[a] \in Seq(Columns) /\ Len(t[a]) = n + 1
      /\ \A i \in 1 .. n : t[a][i] = s[a][i]
      /\ t[a][n + 1] = c
      /\ \A b \in Showing : b # a => t[b] = s[b]
  BY <1>1, AppendProperties DEF Displays
<1>3. t \in Displays
  BY <1>2 DEF Displays
<1> HIDE DEF t
<1>4. \A b \in Showing, i \in 1 .. MaxWidth, o \in Columns :
        <<b, i>> \in Places(t, o) <=> <<b, i>> \in Places(s, o) \/ (o = c /\ b = a /\ i = n + 1)
  <2> SUFFICES ASSUME NEW b \in Showing, NEW i \in 1 .. MaxWidth, NEW o \in Columns
               PROVE  (i <= Len(t[b]) /\ t[b][i] = o) <=>
                        (i <= Len(s[b]) /\ s[b][i] = o) \/ (o = c /\ b = a /\ i = n + 1)
    BY PlacesPairs
  <2>1. CASE b # a
    BY <2>1, <1>2
  <2>2. CASE b = a
    <3>1. CASE i <= n
      BY <2>2, <3>1, <1>1, <1>2
    <3>2. CASE i = n + 1
      BY <2>2, <3>2, <1>1, <1>2
    <3>3. CASE i > n + 1
      BY <2>2, <3>3, <1>1, <1>2
    <3> QED BY <1>1, <3>1, <3>2, <3>3
  <2> QED BY <2>1, <2>2
<1>5. <<a, n + 1>> \in Showing \X (1 .. MaxWidth)
  BY <1>1, Bounds
<1>6. \A o \in Columns \ {c} : Places(t, o) = Places(s, o)
  <2> SUFFICES ASSUME NEW o \in Columns, o # c
               PROVE  Places(t, o) = Places(s, o)
    OBVIOUS
  <2>1. \A h \in Showing \X (1 .. MaxWidth) : h \in Places(t, o) <=> h \in Places(s, o)
    BY <1>4
  <2> QED BY <2>1 DEF Places
<1>7. Places(t, c) = Places(s, c) \cup {<<a, n + 1>>}
  <2>1. \A h \in Showing \X (1 .. MaxWidth) : h \in Places(t, c) <=> h \in Places(s, c) \/ h = <<a, n + 1>>
    BY <1>4
  <2>2. Places(t, c) \subseteq Showing \X (1 .. MaxWidth) /\ Places(s, c) \subseteq Showing \X (1 .. MaxWidth)
    BY DEF Places
  <2> QED BY <2>1, <2>2, <1>5
<1>8. <<a, n + 1>> \notin Places(s, c)
  BY <1>1, PlacesPairs
<1>9. Cardinality(Places(t, c)) = Cardinality(Places(s, c)) + 1
  BY <1>7, <1>8, PlacesFinite, FS_AddElement
<1> QED BY <1>3, <1>6, <1>7, <1>9 DEF t

\* Releasing the first entry takes a place from its column and from no other.
LEMMA OneLess ==
  ASSUME NEW s \in Displays, NEW a \in Showing, s[a] # << >>, Len(s[a]) <= MaxWidth
  PROVE  LET t == [s EXCEPT ![a] = Tail(@)]
             c == Head(s[a]) IN
         /\ t \in Displays /\ c \in Columns
         /\ <<a, 1>> \in Places(s, c)
         /\ Cardinality(Places(t, c)) = Cardinality(Places(s, c)) - 1
         /\ \A o \in Columns \ {c} : Cardinality(Places(t, o)) = Cardinality(Places(s, o))
<1> DEFINE t == [s EXCEPT ![a] = Tail(@)]
           c == Head(s[a])
           n == Len(s[a])
<1>1. s[a] \in Seq(Columns) /\ n \in Nat /\ n > 0 /\ c = s[a][1] /\ c \in Columns
  BY HeadTailProperties DEF Displays
<1>2. /\ t[a] = Tail(s[a]) /\ t[a] \in Seq(Columns) /\ Len(t[a]) = n - 1
      /\ \A i \in 1 .. n - 1 : t[a][i] = s[a][i + 1]
      /\ \A b \in Showing : b # a => t[b] = s[b]
  BY <1>1, HeadTailProperties DEF Displays
<1>3. t \in Displays
  BY <1>2 DEF Displays
<1> HIDE DEF t, c
<1>4. <<a, 1>> \in Places(s, c)
  BY <1>1, Bounds, PlacesPairs
<1>5. \A o \in Columns : Cardinality(Places(t, o)) = Cardinality(Places(s, o) \ {<<a, 1>>})
  <2> SUFFICES ASSUME NEW o \in Columns
               PROVE  Cardinality(Places(t, o)) = Cardinality(Places(s, o) \ {<<a, 1>>})
    OBVIOUS
  <2> DEFINE P == Places(s, o) \ {<<a, 1>>}
             Q == Places(t, o)
             g == [h \in P |-> IF h[1] = a THEN <<a, h[2] - 1>> ELSE h]
             k == [h \in Q |-> IF h[1] = a THEN <<a, h[2] + 1>> ELSE h]
  <2>1. \A h \in P : g[h] \in Q
    <3> TAKE h \in P
    <3>1. h = <<h[1], h[2]>> /\ h[1] \in Showing /\ h[2] \in 1 .. MaxWidth /\ h[2] <= Len(s[h[1]]) /\ s[h[1]][h[2]] = o
      BY PlacesPairs
    <3>2. CASE h[1] = a
      <4>1. PICK j \in 1 .. MaxWidth : h = <<a, j>> /\ j <= n /\ s[a][j] = o
        BY <3>1, <3>2
      <4>2. j # 1
        BY <4>1
      <4>3. j - 1 \in 1 .. MaxWidth /\ j - 1 \in 1 .. n - 1
        BY <4>1, <4>2, <1>1, Bounds
      <4>4. j - 1 <= Len(t[a]) /\ t[a][j - 1] = o
        BY <4>1, <4>3, <1>1, <1>2
      <4>5. <<a, j - 1>> \in Q
        BY <4>3, <4>4, PlacesPairs
      <4> QED BY <4>1, <4>5
    <3>3. CASE h[1] # a
      BY <3>1, <3>3, <1>2, PlacesPairs
    <3> QED BY <3>2, <3>3
  <2>2. \A h \in Q : k[h] \in P
    <3> TAKE h \in Q
    <3>1. h = <<h[1], h[2]>> /\ h[1] \in Showing /\ h[2] \in 1 .. MaxWidth /\ h[2] <= Len(t[h[1]]) /\ t[h[1]][h[2]] = o
      BY PlacesPairs
    <3>2. CASE h[1] = a
      <4>1. PICK j \in 1 .. MaxWidth : h = <<a, j>> /\ j <= Len(t[a]) /\ t[a][j] = o
        BY <3>1, <3>2
      <4>2. j + 1 \in 1 .. MaxWidth /\ j + 1 <= n /\ j \in 1 .. n - 1
        BY <4>1, <1>1, <1>2, Bounds
      <4>3. s[a][j + 1] = o
        BY <4>1, <4>2, <1>2
      <4>4. <<a, j + 1>> \in Places(s, o)
        BY <4>2, <4>3, PlacesPairs
      <4>5. <<a, j + 1>> # <<a, 1>>
        BY <4>1
      <4> QED BY <4>1, <4>4, <4>5
    <3>3. CASE h[1] # a
      <4>1. h # <<a, 1>>
        BY <3>3
      <4> QED BY <3>1, <3>3, <4>1, <1>2, PlacesPairs
    <3> QED BY <3>2, <3>3
  <2>3. \A h \in P : k[g[h]] = h
    <3> TAKE h \in P
    <3>1. h = <<h[1], h[2]>> /\ h[2] \in 1 .. MaxWidth
      BY PlacesPairs
    <3>2. g[h] \in Q
      BY <2>1
    <3> QED BY <3>1, <3>2, Bounds
  <2>4. \A h \in Q : g[k[h]] = h
    <3> TAKE h \in Q
    <3>1. h = <<h[1], h[2]>> /\ h[2] \in 1 .. MaxWidth
      BY PlacesPairs
    <3>2. k[h] \in P
      BY <2>2
    <3> QED BY <3>1, <3>2, Bounds
  <2>5. g \in [P -> Q] /\ k \in [Q -> P]
    BY <2>1, <2>2
  <2>6. \A x, y \in P : g[x] = g[y] => x = y
    <3> HIDE DEF g, k, P, Q
    <3> QED BY <2>3
  <2>7. \A y \in Q : \E x \in P : g[x] = y
    <3> HIDE DEF g, k, P, Q
    <3> QED BY <2>2, <2>4
  <2>8. g \in Bijection(P, Q)
    <3> HIDE DEF g, P, Q
    <3> QED BY <2>5, <2>6, <2>7, Fun_IsBij
  <2>9. ExistsBijection(P, Q)
    BY <2>8 DEF ExistsBijection
  <2>10. IsFiniteSet(P)
    BY PlacesFinite, FS_RemoveElement
  <2> HIDE DEF P, Q
  <2>11. Cardinality(Q) = Cardinality(P)
    BY <2>9, <2>10, FS_Bijection
  <2> QED BY <2>11 DEF P, Q
<1>6. Cardinality(Places(t, c)) = Cardinality(Places(s, c)) - 1
  BY <1>1, <1>4, <1>5, PlacesFinite, FS_RemoveElement
<1>7. \A o \in Columns \ {c} : Cardinality(Places(t, o)) = Cardinality(Places(s, o))
  <2> TAKE o \in Columns \ {c}
  <2>1. <<a, 1>> \notin Places(s, o)
    BY <1>1, PlacesPairs
  <2> QED BY <2>1, <1>5, PlacesFinite, FS_RemoveElement
<1> QED BY <1>1, <1>3, <1>4, <1>6, <1>7 DEF t, c

\* Handing all entries over to an empty place changes no count.
LEMMA HandedOver ==
  ASSUME NEW s \in Displays, NEW t \in Displays, NEW a \in Showing, NEW b \in Showing, a # b,
         s[b] = << >>, t[a] = << >>, t[b] = s[a],
         \A h \in Showing \ {a, b} : t[h] = s[h],
         NEW o
  PROVE  Cardinality(Places(t, o)) = Cardinality(Places(s, o))
<1> DEFINE P == Places(s, o)
           Q == Places(t, o)
           g == [h \in P |-> IF h[1] = a THEN <<b, h[2]>> ELSE h]
           k == [h \in Q |-> IF h[1] = b THEN <<a, h[2]>> ELSE h]
<1>1. \A h \in P : g[h] \in Q /\ h[1] # b
  <2> TAKE h \in P
  <2>1. h = <<h[1], h[2]>> /\ h[1] \in Showing /\ h[2] \in 1 .. MaxWidth /\ h[2] <= Len(s[h[1]]) /\ s[h[1]][h[2]] = o
    BY PlacesPairs
  <2>2. h[1] # b
    BY <2>1
  <2>3. CASE h[1] = a
    BY <2>1, <2>2, <2>3, PlacesPairs
  <2>4. CASE h[1] # a
    BY <2>1, <2>2, <2>4, PlacesPairs
  <2> QED BY <2>2, <2>3, <2>4
<1>2. \A h \in Q : k[h] \in P /\ h[1] # a
  <2> TAKE h \in Q
  <2>1. h = <<h[1], h[2]>> /\ h[1] \in Showing /\ h[2] \in 1 .. MaxWidth /\ h[2] <= Len(t[h[1]]) /\ t[h[1]][h[2]] = o
    BY PlacesPairs
  <2>2. h[1] # a
    BY <2>1
  <2>3. CASE h[1] = b
    BY <2>1, <2>2, <2>3, PlacesPairs
  <2>4. CASE h[1] # b
    BY <2>1, <2>2, <2>4, PlacesPairs
  <2> QED BY <2>2, <2>3, <2>4
<1>3. \A h \in P : k[g[h]] = h
  <2> TAKE h \in P
  <2>1. h = <<h[1], h[2]>>
    BY PlacesPairs
  <2> QED BY <2>1, <1>1
<1>4. \A h \in Q : g[k[h]] = h
  <2> TAKE h \in Q
  <2>1. h = <<h[1], h[2]>>
    BY PlacesPairs
  <2> QED BY <2>1, <1>2
<1>5. g \in [P -> Q]
  BY <1>1
<1>6. \A h \in Q : k[h] \in P
  BY <1>2
<1> HIDE DEF g, k, P, Q
<1>7. g \in Bijection(P, Q)
  <2>1. \A x, y \in P : g[x] = g[y] => x = y
    BY <1>3
  <2>2. \A y \in Q : \E x \in P : g[x] = y
    BY <1>4, <1>6
  <2> QED BY <1>5, <2>1, <2>2, Fun_IsBij
<1>8. ExistsBijection(P, Q)
  BY <1>7 DEF ExistsBijection
<1>9. IsFiniteSet(P)
  BY PlacesFinite DEF P
<1> QED BY <1>8, <1>9, FS_Bijection DEF P, Q

\* Forgetting entries adds no place.
LEMMA Forgotten ==
  ASSUME NEW s, NEW a \in Showing, NEW t,
         t[a] = << >>, \A h \in Showing \ {a} : t[h] = s[h], NEW o
  PROVE  /\ Places(t, o) \subseteq Places(s, o)
         /\ Cardinality(Places(t, o)) <= Cardinality(Places(s, o))
<1>1. \A h \in Places(t, o) : h[1] # a
  BY DEF Places
<1>2. Places(t, o) \subseteq Places(s, o)
  BY <1>1 DEF Places
<1> QED BY <1>2, PlacesFinite, FS_Subset

-----------------------------------------------------------------------------
(* What the invariant says of the running operation.                       *)

LEMMA ItemKinds ==
  /\ Create # Throw /\ Create.kind = "create" /\ Throw.kind = "throw"
  /\ \A o : Retain(o).kind = "retain" /\ Retain(o).col = o /\ Retain(o) # Create /\ Retain(o) # Throw
  /\ \A o \in Columns : Retain(o) \in Items
  /\ Create \in Items /\ Throw \in Items
  /\ \A item \in Items : item = Create \/ item = Throw \/ \E o \in Columns : item = Retain(o)
BY DEF Create, Throw, Retain, Items

\* The task by what runs.
LEMMA TaskKinds ==
  ASSUME task \in Tasks
  PROVE  /\ task.op \in {"idle", "make", "dispose"}
         /\ task.op = "idle" => task = Idle
         /\ task.op # "make" => task.done = << >>
         /\ task.op = "make" => task.todo \in Seq(Items) /\ task.frame \in FrameIds
         /\ task.op = "dispose" => task.todo \in Seq(Columns) /\ task.frame = 0
         /\ task.done \in Seq(Columns)
<1>1. CASE task \in [op : {"idle"}, todo : {<< >>}, done : {<< >>}, frame : {0}]
  <2>1. task = Idle
    BY <1>1 DEF Idle
  <2> QED BY <2>1 DEF Idle
<1>2. CASE task \in [op : {"make"}, todo : Seq(Items), done : Seq(Columns), frame : FrameIds]
  BY <1>2
<1>3. CASE task \in [op : {"dispose"}, todo : Seq(Columns), done : {<< >>}, frame : {0}]
  <2>1. task.op = "dispose" /\ task.todo \in Seq(Columns) /\ task.done = << >> /\ task.frame = 0
    BY <1>3
  <2> QED BY <2>1
<1> QED BY <1>1, <1>2, <1>3 DEF Tasks

LEMMA ShownTyped ==
  ASSUME TypeOK
  PROVE  /\ Shown \in Displays
         /\ Shown[0] = task.done
         /\ Shown[-1] = IF task.op = "dispose" THEN task.todo ELSE << >>
         /\ \A f \in FrameIds : Shown[f] = IF Open(f) THEN frames[f].entries ELSE << >>
<1>1. task.done \in Seq(Columns) /\ (task.op = "dispose" => task.todo \in Seq(Columns))
  BY TaskKinds DEF TypeOK
<1>2. \A f \in FrameIds : frames[f].entries \in Seq(Columns)
  BY DEF TypeOK
<1>3. \A h \in Showing : Shown[h] \in Seq(Columns)
  BY <1>1, <1>2 DEF Shown, Showing
<1>4. Shown \in Displays
  BY <1>3 DEF Shown, Displays
<1> QED BY <1>4, Bounds DEF Shown

LEMMA FirstDone ==
  ASSUME NEW todo \in Seq(Items), todo # << >>
  PROVE  /\ Tail(todo) \in Seq(Items)
         /\ Creates(todo) \in Nat /\ Creates(Tail(todo)) \in Nat
         /\ Creates(todo) = Creates(Tail(todo)) + (IF Head(todo) = Create THEN 1 ELSE 0)
<1> DEFINE tl == Tail(todo)
           n == Len(todo)
           P == {i \in DOMAIN tl : tl[i] = Create}
           Q == {i \in DOMAIN todo : todo[i] = Create}
           R == Q \ {1}
           g == [i \in P |-> i + 1]
<1>1. /\ tl \in Seq(Items) /\ Len(tl) = n - 1 /\ n \in Nat /\ n >= 1
      /\ \A i \in 1 .. n - 1 : tl[i] = todo[i + 1]
      /\ DOMAIN tl = 1 .. n - 1 /\ DOMAIN todo = 1 .. n
      /\ Head(todo) = todo[1]
  BY HeadTailProperties, LenProperties
<1> HIDE DEF tl
<1>2. g \in [P -> R]
  <2>1. \A i \in P : i + 1 \in R
    BY <1>1
  <2> QED BY <2>1
<1>3. \A x, y \in P : g[x] = g[y] => x = y
  BY <1>1
<1>4. \A y \in R : \E x \in P : g[x] = y
  <2> TAKE y \in R
  <2>1. y - 1 \in P /\ y \in Nat
    BY <1>1
  <2> QED BY <2>1
<1>5. IsFiniteSet(Q) /\ IsFiniteSet(P)
  <2>1. IsFiniteSet(1 .. n) /\ IsFiniteSet(1 .. n - 1)
    BY <1>1, FS_Interval
  <2>2. Q \in SUBSET (1 .. n) /\ P \in SUBSET (1 .. n - 1)
    BY <1>1
  <2> QED BY <2>1, <2>2, FS_Subset
<1>6. Creates(todo) = Cardinality(Q) /\ Creates(tl) = Cardinality(P)
  BY DEF Creates
<1>7. (1 \in Q) <=> (Head(todo) = Create)
  BY <1>1
<1> HIDE DEF g, P, Q
<1>8. g \in Bijection(P, R)
  BY <1>2, <1>3, <1>4, Fun_IsBij
<1>9. Cardinality(R) = Cardinality(P)
  BY <1>5, <1>8, FS_Bijection DEF ExistsBijection
<1>10. Cardinality(R) = IF 1 \in Q THEN Cardinality(Q) - 1 ELSE Cardinality(Q)
  BY <1>5, FS_RemoveElement
<1>11. Cardinality(P) \in Nat /\ Cardinality(Q) \in Nat
  BY <1>5, FS_CardinalityType
<1> QED BY <1>1, <1>6, <1>7, <1>9, <1>10, <1>11 DEF tl

\* What an open frame shows is counted and its buffers are there.
LEMMA ShownCounted ==
  ASSUME OwnersInv, NEW h \in Showing, h # 0, NEW i \in 1 .. Len(Shown[h])
  PROVE  /\ Shown[h][i] \in Columns /\ refs[Shown[h][i]] > 0 /\ buffers[Shown[h][i]] = "live"
<1> DEFINE o == Shown[h][i]
<1>1. TypeOK /\ RefsExact /\ TaskSound
  BY DEF OwnersInv
<1>2. Shown[h] \in Seq(Columns) /\ Len(Shown[h]) \in Nat /\ o \in Columns
  BY <1>1, ShownTyped, ElementOfSeq DEF Displays
<1>3. i \in 1 .. MaxWidth
  BY <1>1, <1>2, Bounds DEF TaskSound
<1> HIDE DEF o
<1>4. <<h, i>> \in Holders(o)
  BY <1>2, <1>3, PlacesPairs DEF Holders, o
<1>5. ~ JustMade(o)
  <2> SUFFICES ASSUME JustMade(o)
               PROVE  FALSE
    OBVIOUS
  <2>1. PICK j : Holders(o) = {<<0, j>>}
    BY <1>1, <1>2 DEF TaskSound
  <2>2. <<h, i>> = <<0, j>>
    BY <1>4, <2>1
  <2> QED BY <2>2
<1>6. Cardinality(Holders(o)) > 0 /\ Cardinality(Holders(o)) \in Nat
  <2>1. Holders(o) # {}
    BY <1>4
  <2> QED BY <2>1, PlacesFinite, FS_EmptySet DEF Holders
<1>7. refs[o] \in Nat
  BY <1>1, <1>2 DEF TypeOK
<1>8. refs[o] > 0
  BY <1>1, <1>2, <1>5, <1>6, <1>7 DEF RefsExact
<1> QED BY <1>1, <1>2, <1>8 DEF TypeOK, o

-----------------------------------------------------------------------------
(* Every step preserves the invariant.                                     *)

\* What an operation may have to do for the entries of its result.
Doable(todo) ==
  /\ todo \in Seq(Items)
  /\ \A i \in 1 .. Len(todo) :
       /\ todo[i].kind = "retain" => refs[todo[i].col] > 0
       /\ todo[i] = Throw => throws < MaxThrows
       /\ todo[i] # Throw => i <= MaxWidth

LEMMA Plans ==
  ASSUME OwnersInv, NEW todo, Doable(todo), Plan("make", todo)
  PROVE  OwnersInv'
<1>1. TypeOK /\ RefsExact /\ TaskSound /\ task.op = "idle"
  BY DEF OwnersInv, Plan, Ready
<1>2. task = Idle /\ task.done = << >>
  BY <1>1, TaskKinds DEF TypeOK, Idle
<1>3. NewFrame \in FrameIds /\ frames[NewFrame].state = "none"
  BY DEF Plan, NewFrame
<1>4. task' = [op |-> "make", todo |-> todo, done |-> << >>, frame |-> NewFrame]
  BY DEF Plan
<1>5. UNCHANGED <<frames, refs, buffers, made, scope, throws>> /\ made + Creates(todo) <= MaxColumns
  BY DEF Plan
<1>6. task' \in Tasks
  BY <1>3, <1>4 DEF Tasks, Doable
<1>7. TypeOK'
  BY <1>1, <1>5, <1>6 DEF TypeOK
<1>8. Shown' = Shown
  BY <1>2, <1>4, <1>5 DEF Shown, Open, Idle
<1>9. \A o \in Columns : JustMade(o)' = JustMade(o) /\ Holders(o)' = Holders(o)
  BY <1>2, <1>4, <1>5, <1>8 DEF JustMade, Holders
<1>10. RefsExact'
  BY <1>1, <1>5, <1>9 DEF RefsExact
<1>11. TaskSound'
  <2>1. \A i \in 1 .. Len(todo) : todo[i] # Throw => Len(task'.done) + i <= MaxWidth
    BY <1>4 DEF Doable
  <2> QED BY <1>1, <1>3, <1>4, <1>5, <1>8, <1>9, <2>1 DEF TaskSound, Doable
<1> QED BY <1>7, <1>10, <1>11 DEF OwnersInv

\* The entries of an open frame may be retained, in any order.
LEMMA RetainsOpen ==
  ASSUME OwnersInv, NEW f \in FrameIds, Open(f), NEW kept \in Seq(Columns), Len(kept) <= MaxWidth,
         \A i \in 1 .. Len(kept) : \E j \in 1 .. Len(frames[f].entries) : kept[i] = frames[f].entries[j]
  PROVE  /\ Doable(Retained(kept)) /\ Len(Retained(kept)) = Len(kept)
         /\ \A i \in 1 .. Len(kept) : Retained(kept)[i] # Throw
<1>1. TypeOK
  BY DEF OwnersInv
<1>2. Shown[f] = frames[f].entries /\ f \in Showing /\ f # 0
  BY <1>1, ShownTyped, Bounds
<1>3. \A i \in 1 .. Len(kept) : kept[i] \in Columns /\ refs[kept[i]] > 0
  BY <1>2, ShownCounted
<1>4. Len(kept) \in Nat
  OBVIOUS
<1>5. Retained(kept) \in Seq(Items) /\ Len(Retained(kept)) = Len(kept)
  BY <1>3, <1>4, ItemKinds DEF Retained
<1>6. \A i \in 1 .. Len(kept) : Retained(kept)[i] = Retain(kept[i])
  BY DEF Retained
<1> DEFINE todo == Retained(kept)
<1>7. \A i \in 1 .. Len(todo) : todo[i].kind = "retain" /\ todo[i].col = kept[i] /\ todo[i] # Throw
  BY <1>5, <1>6, ItemKinds
<1>8. \A i \in 1 .. Len(todo) : refs[todo[i].col] > 0 /\ i <= MaxWidth
  BY <1>3, <1>4, <1>5, <1>7, Bounds
<1> HIDE DEF todo
<1>9. Doable(todo)
  BY <1>5, <1>7, <1>8 DEF Doable, todo
<1> QED BY <1>5, <1>7, <1>9 DEF todo

\* An argument that is wrong comes after what is done before it is noticed.
LEMMA ThenThrow ==
  ASSUME NEW todo, Doable(todo), throws < MaxThrows
  PROVE  Doable(todo \o <<Throw>>)
<1>1. todo \in Seq(Items) /\ <<Throw>> \in Seq(Items) /\ Len(<<Throw>>) = 1 /\ <<Throw>>[1] = Throw
  BY ItemKinds DEF Doable
<1>2. /\ todo \o <<Throw>> \in Seq(Items) /\ Len(todo \o <<Throw>>) = Len(todo) + 1 /\ Len(todo) \in Nat
      /\ \A i \in 1 .. Len(todo) : (todo \o <<Throw>>)[i] = todo[i]
      /\ (todo \o <<Throw>>)[Len(todo) + 1] = Throw
  BY <1>1, ConcatProperties
<1>3. Throw.kind # "retain"
  BY DEF Throw
<1>4. \A i \in 1 .. Len(todo) + 1 : i \in 1 .. Len(todo) \/ i = Len(todo) + 1
  BY <1>2
<1> QED BY <1>2, <1>3, <1>4 DEF Doable

LEMMA StartsFromColumns ==
  ASSUME OwnersInv, NEW n \in 1 .. MaxWidth, FromColumns(n)
  PROVE  OwnersInv'
<1>1. n \in Nat /\ n <= MaxWidth
  BY Bounds
<1>2. Repeat(n, Create) \in Seq(Items) /\ Len(Repeat(n, Create)) = n
  BY <1>1, ItemKinds DEF Repeat
<1>3. \A i \in 1 .. n : Repeat(n, Create)[i] = Create
  BY DEF Repeat
<1>4. Doable(Repeat(n, Create))
  <2> DEFINE todo == Repeat(n, Create)
  <2>1. \A i \in 1 .. Len(todo) : todo[i].kind # "retain" /\ todo[i] # Throw /\ i <= MaxWidth
    BY <1>1, <1>2, <1>3, ItemKinds, Bounds
  <2> HIDE DEF todo
  <2>2. todo \in Seq(Items)
    BY <1>2 DEF todo
  <2> QED BY <2>1, <2>2 DEF Doable, todo
<1> QED BY <1>4, Plans, ThenThrow DEF FromColumns

LEMMA StartsSelect ==
  ASSUME OwnersInv, NEW f \in FrameIds, NEW names \in Names, Select(f, names)
  PROVE  OwnersInv'
<1> DEFINE kept == [i \in 1 .. Len(names) |-> frames[f].entries[names[i]]]
<1>1. PICK n \in 1 .. MaxWidth : names \in [1 .. n -> 1 .. MaxWidth]
  BY DEF Names
<1>2. Len(names) = n /\ n \in Nat /\ n <= MaxWidth
  BY <1>1, Bounds
<1>3. Open(f) /\ \A i \in 1 .. n : names[i] \in 1 .. Len(frames[f].entries)
  BY <1>2 DEF Select
<1>4. frames[f].entries \in Seq(Columns)
  BY DEF OwnersInv, TypeOK
<1>5. kept \in Seq(Columns) /\ Len(kept) = n
  BY <1>2, <1>3, <1>4
<1>6. \A i \in 1 .. Len(kept) : \E j \in 1 .. Len(frames[f].entries) : kept[i] = frames[f].entries[j]
  BY <1>2, <1>3, <1>5
<1>7. Doable(Retained(kept))
  <2> HIDE DEF kept
  <2> QED BY <1>2, <1>3, <1>5, <1>6, RetainsOpen
<1> QED BY <1>7, Plans, ThenThrow DEF Select

LEMMA StartsSlice ==
  ASSUME OwnersInv, NEW f \in FrameIds, Slice(f)
  PROVE  OwnersInv'
<1> DEFINE kept == frames[f].entries
<1>1. TypeOK /\ TaskSound /\ Open(f) /\ kept \in Seq(Columns)
  BY DEF OwnersInv, TypeOK, Slice
<1>2. Len(kept) <= MaxWidth
  BY <1>1, ShownTyped, Bounds DEF TaskSound
<1>3. \A i \in 1 .. Len(kept) : \E j \in 1 .. Len(frames[f].entries) : kept[i] = frames[f].entries[j]
  OBVIOUS
<1>4. Doable(Retained(kept))
  BY <1>1, <1>2, <1>3, RetainsOpen
<1> QED BY <1>4, Plans DEF Slice

LEMMA StartsWithColumn ==
  ASSUME OwnersInv, NEW f \in FrameIds, NEW at \in 1 .. Len(frames[f].entries) + 1, WithColumn(f, at)
  PROVE  OwnersInv'
<1> DEFINE old == frames[f].entries
           front == SubSeq(old, 1, at - 1)
           rear == SubSeq(old, at + 1, Len(old))
           kept == front \o rear
           todo == <<Create>> \o Retained(kept)
<1>1. old \in Seq(Columns) /\ Len(old) \in Nat /\ at \in Nat /\ at >= 1 /\ at - 1 <= Len(old)
  BY DEF OwnersInv, TypeOK
<1>2. /\ front \in Seq(Columns) /\ Len(front) = at - 1
      /\ \A i \in 1 .. at - 1 : front[i] = old[i]
  <2>1. \A i \in 1 .. at - 1 : old[i] \in Columns
    BY <1>1, ElementOfSeq
  <2>2. 1 \in Int /\ at - 1 \in Int
    BY <1>1
  <2> HIDE DEF old
  <2>3. /\ SubSeq(old, 1, at - 1) \in Seq(Columns)
        /\ Len(SubSeq(old, 1, at - 1)) = IF 1 <= at - 1 THEN (at - 1) - 1 + 1 ELSE 0
        /\ \A i \in 1 .. (at - 1) - 1 + 1 : SubSeq(old, 1, at - 1)[i] = old[1 + i - 1]
    BY <2>1, <2>2, SubSeqProperties
  <2> QED BY <1>1, <2>3
<1>3. /\ rear \in Seq(Columns) /\ Len(rear) \in Nat
      /\ \A i \in 1 .. Len(rear) : rear[i] = old[at + i] /\ at + i \in 1 .. Len(old)
  <2>1. \A i \in at + 1 .. Len(old) : old[i] \in Columns
    BY <1>1, ElementOfSeq
  <2>2. at + 1 \in Int /\ Len(old) \in Int
    BY <1>1
  <2> HIDE DEF old
  <2>3. /\ SubSeq(old, at + 1, Len(old)) \in Seq(Columns)
        /\ Len(SubSeq(old, at + 1, Len(old))) = IF at + 1 <= Len(old) THEN Len(old) - (at + 1) + 1 ELSE 0
        /\ \A i \in 1 .. Len(old) - (at + 1) + 1 : SubSeq(old, at + 1, Len(old))[i] = old[(at + 1) + i - 1]
    BY <2>1, <2>2, SubSeqProperties
  <2> QED BY <1>1, <2>3
<1>4. Open(f) /\ Len(kept) < MaxWidth /\ Plan("make", todo)
  BY DEF WithColumn
<1> HIDE DEF old, front, rear
<1>5. /\ kept \in Seq(Columns) /\ Len(kept) = Len(front) + Len(rear)
      /\ \A i \in 1 .. Len(front) + Len(rear) : kept[i] = IF i <= Len(front) THEN front[i] ELSE rear[i - Len(front)]
  BY <1>2, <1>3, ConcatProperties
<1>6. \A i \in 1 .. Len(kept) : \E j \in 1 .. Len(old) : kept[i] = old[j]
  <2> TAKE i \in 1 .. Len(kept)
  <2>1. CASE i <= at - 1
    BY <2>1, <1>1, <1>2, <1>3, <1>5
  <2>2. CASE i > at - 1
    <3>1. i - (at - 1) \in 1 .. Len(rear)
      BY <2>2, <1>1, <1>2, <1>3, <1>5
    <3>2. kept[i] = rear[i - (at - 1)]
      BY <2>2, <1>1, <1>2, <1>3, <1>5
    <3> QED BY <3>1, <3>2, <1>3
  <2> QED BY <2>1, <2>2, <1>1
<1> HIDE DEF kept
<1>7. /\ Doable(Retained(kept)) /\ Len(Retained(kept)) = Len(kept) /\ Len(kept) \in Nat
      /\ \A i \in 1 .. Len(kept) : Retained(kept)[i] # Throw
  <2>1. Len(kept) \in Nat /\ Len(kept) <= MaxWidth
    BY <1>4, <1>5, Bounds
  <2>2. \A i \in 1 .. Len(kept) : \E j \in 1 .. Len(frames[f].entries) : kept[i] = frames[f].entries[j]
    BY <1>6 DEF old
  <2> QED BY <1>4, <1>5, <2>1, <2>2, RetainsOpen
<1>8. Doable(todo)
  <2>1. <<Create>> \in Seq(Items) /\ Len(<<Create>>) = 1 /\ <<Create>>[1] = Create /\ Retained(kept) \in Seq(Items)
    BY <1>7, ItemKinds DEF Doable
  <2>2. /\ todo \in Seq(Items) /\ Len(todo) = Len(kept) + 1 /\ todo[1] = Create
        /\ \A i \in 2 .. Len(kept) + 1 : todo[i] = Retained(kept)[i - 1] /\ i - 1 \in 1 .. Len(kept)
    BY <2>1, <1>7, ConcatProperties
  <2> HIDE DEF todo
  <2>3. \A i \in 1 .. Len(todo) : i = 1 \/ i \in 2 .. Len(kept) + 1
    BY <2>2, <1>7
  <2>4. \A i \in 1 .. Len(todo) : i <= MaxWidth
    BY <2>2, <1>4, <1>7, Bounds
  <2> QED BY <2>2, <2>3, <2>4, <1>7, ItemKinds DEF Doable
<1> QED BY <1>4, <1>8, Plans

\* The first entry that is still to be done.
LEMMA FirstTodo ==
  ASSUME OwnersInv, task.op = "make", task.todo # << >>
  PROVE  LET todo == task.todo IN
         /\ Head(todo) = todo[1] /\ Head(todo) \in Items /\ Len(todo) \in Nat /\ 1 \in 1 .. Len(todo)
         /\ Tail(todo) \in Seq(Items) /\ Len(Tail(todo)) = Len(todo) - 1
         /\ \A i \in 1 .. Len(todo) - 1 : Tail(todo)[i] = todo[i + 1] /\ i + 1 \in 1 .. Len(todo)
         /\ Creates(todo) \in Nat /\ Creates(Tail(todo)) \in Nat
         /\ Creates(todo) = Creates(Tail(todo)) + (IF Head(todo) = Create THEN 1 ELSE 0)
<1>1. task.todo \in Seq(Items)
  BY TaskKinds DEF OwnersInv, TypeOK
<1>2. /\ Head(task.todo) \in Items /\ Tail(task.todo) \in Seq(Items)
      /\ Len(Tail(task.todo)) = Len(task.todo) - 1
      /\ \A i \in 1 .. Len(Tail(task.todo)) : Tail(task.todo)[i] = task.todo[i + 1]
  BY <1>1, HeadTailProperties
<1>3. Len(task.todo) \in Nat /\ Len(task.todo) >= 1 /\ Head(task.todo) = task.todo[1]
  BY <1>1
<1>4. /\ Creates(task.todo) \in Nat /\ Creates(Tail(task.todo)) \in Nat
      /\ Creates(task.todo) = Creates(Tail(task.todo)) + (IF Head(task.todo) = Create THEN 1 ELSE 0)
  BY <1>1, FirstDone
<1> QED BY <1>2, <1>3, <1>4

\* Retaining or creating column o for the next entry of the new frame.
LEMMA OneEntryMore ==
  ASSUME OwnersInv, task.op = "make", task.todo # << >>, Head(task.todo) # Throw,
         NEW o \in Columns, task' = [task EXCEPT !.todo = Tail(@), !.done = Append(@, o)],
         UNCHANGED <<frames, throws>>
  PROVE  /\ task' \in Tasks /\ task'.op = "make" /\ task'.frame = task.frame
         /\ task'.todo = Tail(task.todo)
         /\ task'.done \in Seq(Columns) /\ Len(task'.done) = Len(task.done) + 1
         /\ Len(task.done) \in Nat /\ Len(task.done) + 1 <= MaxWidth
         /\ \A i \in 1 .. Len(task.done) : task'.done[i] = task.done[i]
         /\ task'.done[Len(task.done) + 1] = o
         /\ Shown' \in Displays /\ \A h \in Showing \ {0} : Shown'[h] = Shown[h]
         /\ Shown'[0] = task'.done
         /\ Holders(o)' = Holders(o) \cup {<<0, Len(task.done) + 1>>}
         /\ Cardinality(Holders(o)') = Cardinality(Holders(o)) + 1
         /\ \A p \in Columns \ {o} : Holders(p)' = Holders(p)
         /\ \A i \in 1 .. Len(task.todo) - 1 : task'.todo[i] # Throw => Len(task'.done) + i <= MaxWidth
<1>1. TypeOK /\ TaskSound
  BY DEF OwnersInv
<1>2. /\ task \in [op : {"make"}, todo : Seq(Items), done : Seq(Columns), frame : FrameIds]
  <2>1. \/ task \in [op : {"idle"}, todo : {<< >>}, done : {<< >>}, frame : {0}]
        \/ task \in [op : {"make"}, todo : Seq(Items), done : Seq(Columns), frame : FrameIds]
        \/ task \in [op : {"dispose"}, todo : Seq(Columns), done : {<< >>}, frame : {0}]
    BY <1>1 DEF TypeOK, Tasks
  <2> QED BY <2>1
<1> DEFINE done == task.done
           d == Append(done, o)
           n == Len(done)
<1>3. done \in Seq(Columns) /\ n \in Nat
  BY <1>2
<1>4. /\ d \in Seq(Columns) /\ Len(d) = n + 1
      /\ \A i \in 1 .. n : d[i] = done[i]
      /\ d[n + 1] = o
  BY <1>3, AppendProperties
<1>5. /\ task'.op = "make" /\ task'.frame = task.frame /\ task'.todo = Tail(task.todo) /\ task'.done = d
      /\ task' = [op |-> "make", todo |-> Tail(task.todo), done |-> d, frame |-> task.frame]
  BY <1>2
<1>6. task' \in Tasks
  BY <1>2, <1>4, <1>5, FirstTodo DEF Tasks
<1>7. n + 1 <= MaxWidth
  BY <1>1, FirstTodo DEF TaskSound
<1> HIDE DEF d
<1>8. Shown' = [Shown EXCEPT ![0] = d]
  <2>1. Shown'[0] = d
    BY <1>5, Bounds DEF Shown
  <2>2. \A h \in Showing \ {0} : Shown'[h] = Shown[h]
    BY <1>5 DEF Shown, Open
  <2>3. Shown = [h \in Showing |-> Shown[h]] /\ Shown' = [h \in Showing |-> Shown'[h]]
    BY DEF Shown
  <2> QED BY <2>1, <2>2, <2>3
<1>9. Shown \in Displays /\ Shown[0] = done
  BY <1>1, ShownTyped
<1>10. Shown' = [Shown EXCEPT ![0] = Append(@, o)]
  BY <1>8, <1>9 DEF d
<1>11. /\ Shown' \in Displays
       /\ Holders(o)' = Holders(o) \cup {<<0, n + 1>>}
       /\ Cardinality(Holders(o)') = Cardinality(Holders(o)) + 1
       /\ \A p \in Columns \ {o} : Holders(p)' = Holders(p)
  <2>1. Len(Shown[0]) = n /\ n < MaxWidth
    BY <1>3, <1>7, <1>9, Bounds
  <2>2. /\ [Shown EXCEPT ![0] = Append(@, o)] \in Displays
        /\ Places([Shown EXCEPT ![0] = Append(@, o)], o) = Places(Shown, o) \cup {<<0, Len(Shown[0]) + 1>>}
        /\ Cardinality(Places([Shown EXCEPT ![0] = Append(@, o)], o)) = Cardinality(Places(Shown, o)) + 1
        /\ \A p \in Columns \ {o} : Places([Shown EXCEPT ![0] = Append(@, o)], p) = Places(Shown, p)
    BY <2>1, <1>9, Bounds, OneMore
  <2> QED BY <2>1, <2>2, <1>10 DEF Holders
<1>12. \A h \in Showing \ {0} : Shown'[h] = Shown[h]
  BY <1>8, <1>9 DEF Displays
<1>13. Shown'[0] = d
  BY <1>8, <1>9, Bounds DEF Displays
<1>14. \A i \in 1 .. Len(task.todo) - 1 : task'.todo[i] # Throw => n + 1 + i <= MaxWidth
  <2> TAKE i \in 1 .. Len(task.todo) - 1
  <2>1. task'.todo[i] = task.todo[i + 1] /\ i + 1 \in 1 .. Len(task.todo)
    BY <1>5, FirstTodo
  <2>2. task.todo[i + 1] # Throw => n + (i + 1) <= MaxWidth
    BY <2>1, <1>1 DEF TaskSound
  <2>3. n + (i + 1) = n + 1 + i
    BY <1>3
  <2> HIDE DEF n
  <2> QED BY ONLY <2>1, <2>2, <2>3
<1> QED BY <1>3, <1>4, <1>5, <1>6, <1>7, <1>11, <1>12, <1>13, <1>14

LEMMA Retains ==
  ASSUME OwnersInv, RetainEntry
  PROVE  OwnersInv'
<1>1. TypeOK /\ RefsExact /\ TaskSound /\ task.op = "make" /\ task.todo # << >> /\ Head(task.todo).kind = "retain"
  BY DEF OwnersInv, RetainEntry
<1>2. PICK o \in Columns : Head(task.todo) = Retain(o) /\ Head(task.todo).col = o
  BY <1>1, FirstTodo, ItemKinds
<1>3. /\ refs' = [refs EXCEPT ![o] = @ + 1] /\ task' = [task EXCEPT !.todo = Tail(@), !.done = Append(@, o)]
      /\ UNCHANGED <<frames, buffers, made, scope, throws>>
  BY <1>2 DEF RetainEntry
<1>4. refs \in [Columns -> Nat] /\ refs[o] > 0 /\ buffers[o] = "live" /\ o <= made
  <2>1. refs \in [Columns -> Nat] /\ (\A p \in Columns : refs[p] > 0 => buffers[p] = "live")
    BY <1>1 DEF TypeOK
  <2>2. refs[o] > 0
    BY <1>1, <1>2, FirstTodo DEF TaskSound
  <2>3. made \in Nat /\ o \in Nat /\ ~(o > made)
    BY <2>1, <2>2, <1>1, Bounds DEF TypeOK
  <2> QED BY <2>1, <2>2, <2>3
<1>5. refs' \in [Columns -> Nat] /\ refs'[o] = refs[o] + 1 /\ \A p \in Columns \ {o} : refs'[p] = refs[p]
  BY <1>3, <1>4
<1>6. Head(task.todo) # Throw /\ Head(task.todo) # Create
  BY <1>2, ItemKinds
<1> DEFINE n == Len(task.done)
<1>7. /\ task' \in Tasks /\ task'.op = "make" /\ task'.frame = task.frame
      /\ task'.todo = Tail(task.todo)
      /\ task'.done \in Seq(Columns) /\ Len(task'.done) = n + 1
      /\ n \in Nat /\ n + 1 <= MaxWidth
      /\ \A i \in 1 .. n : task'.done[i] = task.done[i]
      /\ task'.done[n + 1] = o
      /\ \A h \in Showing \ {0} : Shown'[h] = Shown[h]
      /\ Shown'[0] = task'.done
      /\ Cardinality(Holders(o)') = Cardinality(Holders(o)) + 1
      /\ \A p \in Columns \ {o} : Holders(p)' = Holders(p)
      /\ \A i \in 1 .. Len(task.todo) - 1 : task'.todo[i] # Throw => Len(task'.done) + i <= MaxWidth
  BY <1>1, <1>3, <1>6, OneEntryMore
<1>8. TypeOK'
  BY <1>1, <1>3, <1>4, <1>5, <1>7 DEF TypeOK
<1>9. \A p \in Columns : JustMade(p)' => p # o /\ JustMade(p)
  <2> SUFFICES ASSUME NEW p \in Columns, JustMade(p)'
               PROVE  p # o /\ JustMade(p)
    OBVIOUS
  <2>1. p # o
    BY <1>4, <1>5 DEF JustMade
  <2>2. PICK i \in 1 .. n + 1 : task'.done[i] = p
    BY <1>7 DEF JustMade
  <2>3. i \in 1 .. n
    BY <2>1, <2>2, <1>7
  <2> QED BY <2>1, <2>2, <2>3, <1>5, <1>7 DEF JustMade
<1>10. \A p \in Columns : JustMade(p) => JustMade(p)'
  <2> SUFFICES ASSUME NEW p \in Columns, JustMade(p)
               PROVE  JustMade(p)'
    OBVIOUS
  <2>1. p # o
    BY <1>4 DEF JustMade
  <2>2. PICK i \in 1 .. n : task.done[i] = p
    BY DEF JustMade
  <2>3. task'.done[i] = p /\ i \in 1 .. Len(task'.done)
    BY <2>2, <1>7
  <2> QED BY <2>1, <2>3, <1>5 DEF JustMade
<1>11. RefsExact'
  <2> SUFFICES ASSUME NEW p \in Columns
               PROVE  \/ JustMade(p)'
                      \/ refs'[p] = Cardinality(Holders(p)')
                      \/ throws' > 0 /\ refs'[p] > Cardinality(Holders(p)')
    BY DEF RefsExact
  <2>1. CASE p = o
    <3>1. Cardinality(Holders(o)) \in Nat
      BY PlacesFinite DEF Holders
    <3>2. ~ JustMade(o)
      BY <1>4 DEF JustMade
    <3> QED BY <2>1, <3>1, <3>2, <1>1, <1>3, <1>4, <1>5, <1>7 DEF RefsExact
  <2>2. CASE p # o
    BY <2>2, <1>1, <1>3, <1>5, <1>7, <1>10 DEF RefsExact
  <2> QED BY <2>1, <2>2
<1>12. TaskSound'
  <2>1. \A h \in Showing : Len(Shown'[h]) <= MaxWidth /\ \A i \in 1 .. Len(Shown'[h]) : Shown'[h][i] <= made'
    <3>1. \A i \in 1 .. n + 1 : task'.done[i] <= made
      <4>1. \A i \in 1 .. n : task.done[i] <= made
        BY <1>1, ShownTyped, Bounds DEF TaskSound
      <4> QED BY <4>1, <1>4, <1>7
    <3>2. \A h \in Showing \ {0} : Len(Shown[h]) <= MaxWidth /\ \A i \in 1 .. Len(Shown[h]) : Shown[h][i] <= made
      BY <1>1 DEF TaskSound
    <3> QED BY <3>1, <3>2, <1>3, <1>7
  <2>2. made + Creates(task'.todo) <= MaxColumns
    BY <1>1, <1>6, <1>7, FirstTodo, Bounds DEF TaskSound, TypeOK
  <2>3. \A i \in 1 .. Len(task'.todo) : /\ task'.todo[i].kind = "retain" => refs'[task'.todo[i].col] > 0
                                        /\ task'.todo[i] = Throw => throws' < MaxThrows
                                        /\ task'.todo[i] # Throw => Len(task'.done) + i <= MaxWidth
    <3> SUFFICES ASSUME NEW i \in 1 .. Len(task.todo) - 1
                 PROVE  /\ task'.todo[i].kind = "retain" => refs'[task'.todo[i].col] > 0
                        /\ task'.todo[i] = Throw => throws' < MaxThrows
                        /\ task'.todo[i] # Throw => Len(task'.done) + i <= MaxWidth
      BY <1>1, <1>7, FirstTodo
    <3>1. task'.todo[i] = task.todo[i + 1] /\ i + 1 \in 1 .. Len(task.todo) /\ task.todo[i + 1] \in Items
      <4>1. task'.todo[i] = task.todo[i + 1] /\ i + 1 \in 1 .. Len(task.todo)
        BY <1>1, <1>7, FirstTodo
      <4>2. task.todo \in Seq(Items)
        BY <1>1, TaskKinds DEF TypeOK
      <4> QED BY <4>1, <4>2, ElementOfSeq
    <3>2. task.todo[i + 1].kind = "retain" => refs[task.todo[i + 1].col] > 0 /\ task.todo[i + 1].col \in Columns
      BY <3>1, <1>1, ItemKinds DEF TaskSound
    <3>3. \A p \in Columns : refs[p] > 0 => refs'[p] > 0
      BY <1>4, <1>5
    <3>4. task.todo[i + 1] = Throw => throws < MaxThrows
      BY <3>1, <1>1 DEF TaskSound
    <3> QED BY <3>1, <3>2, <3>3, <3>4, <1>3, <1>7
  <2>4. \A i \in 1 .. Len(task'.done) : buffers'[task'.done[i]] = "live"
    <3>1. \A i \in 1 .. n : buffers[task.done[i]] = "live"
      BY <1>1 DEF TaskSound
    <3> QED BY <3>1, <1>3, <1>4, <1>7
  <2>5. \A p \in Columns : JustMade(p)' => \E i \in 1 .. MaxWidth : Holders(p)' = {<<0, i>>}
    BY <1>1, <1>7, <1>9 DEF TaskSound
  <2>6. \A p \in Columns : buffers'[p] = "live" /\ refs'[p] = 0 => JustMade(p)' \/ throws' > 0
    BY <1>1, <1>3, <1>4, <1>5, <1>10 DEF TaskSound
  <2>7. frames'[task'.frame].state = "none"
    BY <1>1, <1>3, <1>7 DEF TaskSound
  <2> QED BY <2>1, <2>2, <2>3, <2>4, <2>5, <2>6, <2>7, <1>3, <1>7 DEF TaskSound
<1> QED BY <1>8, <1>11, <1>12 DEF OwnersInv

LEMMA CreatesOne ==
  ASSUME OwnersInv, CreateEntry
  PROVE  OwnersInv'
<1> DEFINE n == Len(task.done)
<1>1. TypeOK /\ RefsExact /\ TaskSound /\ task.op = "make" /\ task.todo # << >> /\ Head(task.todo) = Create
  BY DEF OwnersInv, CreateEntry
<1>2. PICK o \in Columns : o = made + 1 /\ made \in Nat
  <2>1. Creates(task.todo) = Creates(Tail(task.todo)) + 1 /\ Creates(Tail(task.todo)) \in Nat
    BY <1>1, FirstTodo
  <2>2. made + Creates(task.todo) <= MaxColumns /\ made \in Nat
    BY <1>1, Bounds DEF TaskSound, TypeOK
  <2> QED BY <2>1, <2>2, Bounds DEF Columns
<1>3. /\ made' = o /\ buffers' = [buffers EXCEPT ![o] = "live"]
      /\ task' = [task EXCEPT !.todo = Tail(@), !.done = Append(@, o)]
      /\ UNCHANGED <<frames, refs, scope, throws>>
  BY <1>2 DEF CreateEntry
<1>4. Head(task.todo) # Throw
  BY <1>1, ItemKinds
<1>5. refs \in [Columns -> Nat] /\ refs[o] = 0
  <2>1. refs \in [Columns -> Nat] /\ (refs[o] > 0 => buffers[o] = "live") /\ buffers[o] = "none"
    BY <1>1, <1>2 DEF TypeOK
  <2> QED BY <2>1, <1>2
<1>6. /\ task' \in Tasks /\ task'.op = "make" /\ task'.frame = task.frame
      /\ task'.todo = Tail(task.todo)
      /\ task'.done \in Seq(Columns) /\ Len(task'.done) = n + 1
      /\ n \in Nat /\ n + 1 <= MaxWidth
      /\ \A i \in 1 .. n : task'.done[i] = task.done[i]
      /\ task'.done[n + 1] = o
      /\ \A h \in Showing \ {0} : Shown'[h] = Shown[h]
      /\ Shown'[0] = task'.done
      /\ Holders(o)' = Holders(o) \cup {<<0, n + 1>>}
      /\ \A p \in Columns \ {o} : Holders(p)' = Holders(p)
      /\ \A i \in 1 .. Len(task.todo) - 1 : task'.todo[i] # Throw => Len(task'.done) + i <= MaxWidth
  BY <1>1, <1>2, <1>3, <1>4, OneEntryMore
<1>7. buffers' \in [Columns -> {"none", "live", "freed"}] /\ buffers'[o] = "live" /\ \A p \in Columns \ {o} : buffers'[p] = buffers[p]
  BY <1>1, <1>2, <1>3 DEF TypeOK
<1>8. TypeOK'
  <2>1. \A p \in Columns : buffers'[p] = "none" <=> p > made'
    <3> TAKE p \in Columns
    <3>1. p \in Nat
      BY Bounds
    <3>2. buffers[p] = "none" <=> p > made
      BY <1>1 DEF TypeOK
    <3>3. CASE p = o
      BY <3>1, <3>3, <1>2, <1>3, <1>7
    <3>4. CASE p # o
      BY <3>1, <3>2, <3>4, <1>2, <1>3, <1>7
    <3> QED BY <3>3, <3>4
  <2>2. made' \in 0 .. MaxColumns
    BY <1>2, <1>3, Bounds DEF Columns
  <2>3. \A p \in Columns : refs'[p] > 0 => buffers'[p] = "live"
    BY <1>1, <1>3, <1>7 DEF TypeOK
  <2> QED BY <1>1, <1>3, <1>6, <1>7, <2>1, <2>2, <2>3 DEF TypeOK
<1>9. \A i \in 1 .. n : task.done[i] # o /\ task.done[i] <= made /\ task.done[i] \in Nat
  <2> TAKE i \in 1 .. n
  <2>1. Shown[0] = task.done /\ task.done \in Seq(Columns)
    BY <1>1, ShownTyped, TaskKinds DEF TypeOK
  <2>2. task.done[i] <= made /\ task.done[i] \in Columns
    BY <2>1, <1>1, Bounds, ElementOfSeq DEF TaskSound
  <2>3. task.done[i] \in Nat
    BY <2>2, Bounds
  <2> QED BY <2>2, <2>3, <1>2
<1>10. Holders(o) = {}
  <2> SUFFICES ASSUME NEW h \in Holders(o)
               PROVE  FALSE
    OBVIOUS
  <2>1. h[1] \in Showing /\ h[2] \in 1 .. Len(Shown[h[1]]) /\ Shown[h[1]][h[2]] = o
    <3>1. h[1] \in Showing /\ h[2] \in 1 .. MaxWidth /\ h[2] <= Len(Shown[h[1]]) /\ Shown[h[1]][h[2]] = o
      BY PlacesPairs DEF Holders, Places
    <3>2. Len(Shown[h[1]]) \in Nat
      BY <3>1, <1>1, ShownTyped DEF Displays
    <3> QED BY <3>1, <3>2
  <2>2. o <= made
    BY <2>1, <1>1 DEF TaskSound
  <2> QED BY <2>2, <1>2
<1>11. JustMade(o)' /\ \A p \in Columns \ {o} : JustMade(p)' <=> JustMade(p)
  <2>1. n + 1 \in 1 .. Len(task'.done) /\ task'.done[n + 1] = o
    BY <1>6
  <2>2. JustMade(o)'
    BY <2>1, <1>3, <1>5 DEF JustMade
  <2>3. \A p \in Columns \ {o} : JustMade(p)' => JustMade(p)
    <3> SUFFICES ASSUME NEW p \in Columns \ {o}, JustMade(p)'
                 PROVE  JustMade(p)
      OBVIOUS
    <3>1. PICK i \in 1 .. n + 1 : task'.done[i] = p
      BY <1>6 DEF JustMade
    <3>2. i \in 1 .. n
      BY <3>1, <1>6
    <3> QED BY <3>1, <3>2, <1>3, <1>6 DEF JustMade
  <2>4. \A p \in Columns : JustMade(p) => JustMade(p)'
    <3> SUFFICES ASSUME NEW p \in Columns, JustMade(p)
                 PROVE  JustMade(p)'
      OBVIOUS
    <3>1. PICK i \in 1 .. n : task.done[i] = p
      BY DEF JustMade
    <3>2. i \in 1 .. Len(task'.done) /\ task'.done[i] = p
      BY <3>1, <1>6
    <3> QED BY <3>2, <1>3 DEF JustMade
  <2> QED BY <2>2, <2>3, <2>4
<1>12. RefsExact'
  BY <1>1, <1>3, <1>6, <1>11 DEF RefsExact
<1>13. TaskSound'
  <2>1. \A h \in Showing : Len(Shown'[h]) <= MaxWidth /\ \A i \in 1 .. Len(Shown'[h]) : Shown'[h][i] <= made'
    <3>1. \A i \in 1 .. n + 1 : task'.done[i] <= made'
      BY <1>2, <1>3, <1>6, <1>9
    <3>2. \A h \in Showing \ {0} : Len(Shown[h]) <= MaxWidth /\ \A i \in 1 .. Len(Shown[h]) : Shown[h][i] <= made'
      <4> TAKE h \in Showing \ {0}
      <4>1. Len(Shown[h]) <= MaxWidth /\ \A i \in 1 .. Len(Shown[h]) : Shown[h][i] <= made /\ Shown[h][i] \in Nat
        BY <1>1, ShownTyped, ElementOfSeq, Bounds DEF TaskSound, Displays
      <4> QED BY <4>1, <1>2, <1>3
    <3> QED BY <3>1, <3>2, <1>6
  <2>2. made' + Creates(task'.todo) <= MaxColumns
    <3>1. Creates(task.todo) = Creates(Tail(task.todo)) + 1 /\ Creates(Tail(task.todo)) \in Nat
      BY <1>1, FirstTodo
    <3> QED BY <3>1, <1>1, <1>2, <1>3, <1>6, Bounds DEF TaskSound
  <2>3. \A i \in 1 .. Len(task'.todo) : /\ task'.todo[i].kind = "retain" => refs'[task'.todo[i].col] > 0
                                        /\ task'.todo[i] = Throw => throws' < MaxThrows
                                        /\ task'.todo[i] # Throw => Len(task'.done) + i <= MaxWidth
    <3> SUFFICES ASSUME NEW i \in 1 .. Len(task.todo) - 1
                 PROVE  /\ task'.todo[i].kind = "retain" => refs[task'.todo[i].col] > 0
                        /\ task'.todo[i] = Throw => throws < MaxThrows
                        /\ task'.todo[i] # Throw => Len(task'.done) + i <= MaxWidth
      BY <1>1, <1>3, <1>6, FirstTodo
    <3>1. task'.todo[i] = task.todo[i + 1] /\ i + 1 \in 1 .. Len(task.todo)
      BY <1>1, <1>6, FirstTodo
    <3> QED BY <3>1, <1>1, <1>6 DEF TaskSound
  <2>4. \A i \in 1 .. Len(task'.done) : buffers'[task'.done[i]] = "live"
    <3>1. \A i \in 1 .. n : buffers'[task.done[i]] = "live"
      BY <1>1, <1>3 DEF TaskSound, TypeOK
    <3> QED BY <3>1, <1>6, <1>7
  <2>5. \A p \in Columns : JustMade(p)' => \E i \in 1 .. MaxWidth : Holders(p)' = {<<0, i>>}
    <3>1. n + 1 \in 1 .. MaxWidth /\ Holders(o)' = {<<0, n + 1>>}
      BY <1>6, <1>10, Bounds
    <3> QED BY <3>1, <1>1, <1>6, <1>11 DEF TaskSound
  <2>6. \A p \in Columns : buffers'[p] = "live" /\ refs'[p] = 0 => JustMade(p)' \/ throws' > 0
    BY <1>1, <1>3, <1>7, <1>11 DEF TaskSound
  <2>7. frames'[task'.frame].state = "none"
    BY <1>1, <1>3, <1>6 DEF TaskSound
  <2> QED BY <2>1, <2>2, <2>3, <2>4, <2>5, <2>6, <2>7, <1>6 DEF TaskSound
<1> QED BY <1>8, <1>12, <1>13 DEF OwnersInv

\* An operation that throws keeps the references it took.
LEMMA Throws ==
  ASSUME OwnersInv, ThrowOut
  PROVE  OwnersInv'
<1>1. TypeOK /\ RefsExact /\ TaskSound /\ task.op = "make" /\ task.todo # << >> /\ Head(task.todo) = Throw
  BY DEF OwnersInv, ThrowOut
<1>2. task' = Idle /\ throws' = throws + 1 /\ UNCHANGED <<frames, refs, buffers, made, scope>>
  BY DEF ThrowOut
<1>3. throws \in Nat /\ throws < MaxThrows
  BY <1>1, FirstTodo, Bounds DEF TaskSound, TypeOK
<1>4. TypeOK'
  <2>1. task' \in Tasks
    BY <1>2 DEF Tasks, Idle
  <2>2. throws' \in 0 .. MaxThrows
    BY <1>2, <1>3, Bounds
  <2> QED BY <2>1, <2>2, <1>1, <1>2 DEF TypeOK
<1>5. Shown'[0] = << >> /\ \A h \in Showing \ {0} : Shown'[h] = Shown[h]
  <2>1. task'.done = << >> /\ task'.op = "idle"
    BY <1>2 DEF Idle
  <2>2. Shown'[0] = << >>
    BY <2>1, Bounds DEF Shown
  <2>3. \A h \in Showing \ {0} : Shown'[h] = Shown[h]
    BY <2>1, <1>1, <1>2 DEF Shown, Open
  <2> QED BY <2>2, <2>3
<1>6. \A o : ~ JustMade(o)'
  <2>1. task'.done = << >>
    BY <1>2 DEF Idle
  <2> QED BY <2>1 DEF JustMade
<1>7. \A o \in Columns : /\ Holders(o)' \subseteq Holders(o) /\ \A h \in Holders(o)' : h[1] # 0
                         /\ Cardinality(Holders(o)') <= Cardinality(Holders(o))
                         /\ Cardinality(Holders(o)) \in Nat /\ Cardinality(Holders(o)') \in Nat
  <2> TAKE o \in Columns
  <2>1. /\ Places(Shown', o) \subseteq Places(Shown, o)
        /\ Cardinality(Places(Shown', o)) <= Cardinality(Places(Shown, o))
    BY <1>5, Bounds, Forgotten
  <2>2. \A h \in Places(Shown', o) : h[1] # 0
    BY <1>5, Bounds DEF Places
  <2> QED BY <2>1, <2>2, PlacesFinite DEF Holders
<1>8. RefsExact'
  <2> SUFFICES ASSUME NEW o \in Columns
               PROVE  \/ refs[o] = Cardinality(Holders(o)')
                      \/ throws' > 0 /\ refs[o] > Cardinality(Holders(o)')
    BY <1>2 DEF RefsExact
  <2>1. refs[o] \in Nat
    BY <1>1 DEF TypeOK
  <2>2. CASE JustMade(o)
    <3>1. PICK i : Holders(o) = {<<0, i>>}
      BY <2>2, <1>1 DEF TaskSound
    <3>2. Holders(o)' = {}
      BY <3>1, <1>7
    <3>3. Cardinality(Holders(o)') = 0
      BY <3>2, FS_EmptySet
    <3> QED BY <3>3, <2>2 DEF JustMade
  <2>3. CASE ~ JustMade(o)
    <3>1. refs[o] >= Cardinality(Holders(o))
      BY <2>1, <2>3, <1>1, <1>7 DEF RefsExact
    <3> QED BY <3>1, <2>1, <1>2, <1>3, <1>7
  <2> QED BY <2>2, <2>3
<1>9. TaskSound'
  <2>1. \A h \in Showing : Len(Shown'[h]) <= MaxWidth /\ \A i \in 1 .. Len(Shown'[h]) : Shown'[h][i] <= made'
    BY <1>1, <1>2, <1>5, Bounds DEF TaskSound
  <2>2. task'.op # "make"
    BY <1>2 DEF Idle
  <2>3. throws' > 0
    BY <1>2, <1>3
  <2> QED BY <2>1, <2>2, <2>3, <1>6 DEF TaskSound
<1> QED BY <1>4, <1>8, <1>9 DEF OwnersInv

\* The new frame takes what was made for it.
LEMMA Constructs ==
  ASSUME OwnersInv, Construct
  PROVE  OwnersInv'
<1>1. TypeOK /\ RefsExact /\ TaskSound /\ task.op = "make" /\ task.todo = << >>
  BY DEF OwnersInv, Construct
<1>2. PICK f \in FrameIds : f = task.frame /\ task.done \in Seq(Columns) /\ frames[f].state = "none"
  BY <1>1, TaskKinds DEF TypeOK, TaskSound
<1>3. /\ frames' = [frames EXCEPT ![f] = [state |-> "open", entries |-> task.done]]
      /\ refs' = FirstRefs(task.done) /\ task' = Idle /\ UNCHANGED <<buffers, made, scope, throws>>
  BY <1>2 DEF Construct
<1>4. task' \in Tasks /\ task'.op = "idle" /\ task'.done = << >>
  BY <1>3 DEF Tasks, Idle
<1>5. \A o \in Columns : refs'[o] = IF JustMade(o) THEN 1 ELSE refs[o]
  BY <1>3 DEF FirstRefs, JustMade
<1>6. \A o \in Columns : JustMade(o) => buffers[o] = "live" /\ refs[o] = 0
  BY <1>1 DEF JustMade, TaskSound
<1>7. TypeOK'
  <2>1. frames' \in [FrameIds -> [state : {"none", "open", "disposed"}, entries : Seq(Columns)]]
    BY <1>1, <1>2, <1>3 DEF TypeOK
  <2>2. refs' \in [Columns -> Nat]
    BY <1>1, <1>3 DEF TypeOK, FirstRefs
  <2>3. \A o \in Columns : refs'[o] > 0 => buffers[o] = "live"
    BY <1>1, <1>5, <1>6 DEF TypeOK
  <2> QED BY <2>1, <2>2, <2>3, <1>1, <1>3, <1>4 DEF TypeOK
<1>8. /\ Shown'[0] = << >> /\ Shown'[f] = task.done /\ \A h \in Showing \ {0, f} : Shown'[h] = Shown[h]
      /\ Shown[0] = task.done /\ Shown[f] = << >>
      /\ Shown \in Displays /\ Shown' \in Displays
  <2>1. Shown'[0] = << >>
    BY <1>4, Bounds DEF Shown
  <2>2. Shown[0] = task.done /\ Shown[f] = << >> /\ Shown \in Displays
    BY <1>1, <1>2, ShownTyped DEF Open
  <2>3. frames'[f] = [state |-> "open", entries |-> task.done] /\ \A g \in FrameIds \ {f} : frames'[g] = frames[g]
    BY <1>1, <1>2, <1>3 DEF TypeOK
  <2>4. Shown'[f] = task.done
    BY <2>3, <1>2, Bounds DEF Shown, Open
  <2>5. \A h \in Showing \ {0, f} : Shown'[h] = Shown[h]
    BY <2>3, <1>1, <1>4 DEF Shown, Open, Showing
  <2>6. Shown' = [h \in Showing |-> Shown'[h]]
    BY DEF Shown
  <2>7. \A h \in Showing : Shown'[h] \in Seq(Columns)
    <3> TAKE h \in Showing
    <3>1. << >> \in Seq(Columns) /\ Shown[h] \in Seq(Columns)
      BY <2>2 DEF Displays
    <3> QED BY <3>1, <2>1, <2>4, <2>5, <1>2
  <2> QED BY <2>1, <2>2, <2>4, <2>5, <2>6, <2>7 DEF Displays
<1>9. \A o : Cardinality(Holders(o)') = Cardinality(Holders(o))
  BY <1>2, <1>8, Bounds, HandedOver DEF Holders
<1>10. \A o : ~ JustMade(o)'
  BY <1>4 DEF JustMade
<1>11. RefsExact'
  <2> SUFFICES ASSUME NEW o \in Columns
               PROVE  \/ refs'[o] = Cardinality(Holders(o))
                      \/ throws > 0 /\ refs'[o] > Cardinality(Holders(o))
    BY <1>3, <1>9 DEF RefsExact
  <2>1. CASE JustMade(o)
    <3>1. PICK i : Holders(o) = {<<0, i>>}
      BY <2>1, <1>1 DEF TaskSound
    <3> QED BY <3>1, <2>1, <1>5, FS_Singleton
  <2>2. CASE ~ JustMade(o)
    BY <2>2, <1>1, <1>5 DEF RefsExact
  <2> QED BY <2>1, <2>2
<1>12. TaskSound'
  <2>1. \A h \in Showing : Len(Shown'[h]) <= MaxWidth /\ \A i \in 1 .. Len(Shown'[h]) : Shown'[h][i] <= made'
    <3>1. \A h \in Showing : Len(Shown[h]) <= MaxWidth /\ \A i \in 1 .. Len(Shown[h]) : Shown[h][i] <= made
      BY <1>1 DEF TaskSound
    <3> QED BY <3>1, <1>2, <1>3, <1>8, Bounds
  <2>2. \A o \in Columns : buffers'[o] = "live" /\ refs'[o] = 0 => throws' > 0
    BY <1>1, <1>3, <1>5 DEF TaskSound
  <2> QED BY <2>1, <2>2, <1>4, <1>10 DEF TaskSound
<1> QED BY <1>7, <1>11, <1>12 DEF OwnersInv

\* A disposed frame hands what it shows to the releases.
LEMMA DisposeStarts ==
  ASSUME OwnersInv, task.op = "idle", NEW f \in FrameIds, Disposes(f), scope' \in [state : {"none", "open", "ending"}, tracked : Seq(FrameIds)]
  PROVE  OwnersInv'
<1>1. TypeOK /\ RefsExact /\ TaskSound /\ task = Idle /\ task.done = << >>
  BY TaskKinds DEF OwnersInv, TypeOK
<1>2. PICK todo : todo = ReleasedBy(f)
  OBVIOUS
<1>3. frames' = [frames EXCEPT ![f].state = "disposed"] /\ task' = Releasing(todo) /\ UNCHANGED <<refs, buffers, made, throws>>
  BY <1>2 DEF Disposes
<1>4. todo = Shown[f] /\ todo \in Seq(Columns)
  <2>1. Shown[f] = (IF Open(f) THEN frames[f].entries ELSE << >>) /\ Shown \in Displays
    BY <1>1, ShownTyped
  <2>2. Shown[f] \in Seq(Columns)
    BY <2>1, Bounds DEF Displays
  <2> QED BY <2>1, <2>2, <1>2 DEF ReleasedBy
<1>5. /\ task' \in Tasks /\ task'.op # "make" /\ task'.done = << >>
      /\ todo = << >> => task'.op = "idle"
      /\ todo # << >> => task'.op = "dispose" /\ task'.todo = todo
  <2>1. CASE todo = << >>
    BY <1>3, <2>1 DEF Releasing, Idle, Tasks
  <2>2. CASE todo # << >>
    <3>1. task' = [op |-> "dispose", todo |-> todo, done |-> << >>, frame |-> 0]
      BY <1>3, <2>2 DEF Releasing, Idle
    <3> QED BY <2>2, <3>1, <1>4 DEF Tasks
  <2> QED BY <2>1, <2>2
<1>6. /\ frames' \in [FrameIds -> [state : {"none", "open", "disposed"}, entries : Seq(Columns)]]
      /\ frames'[f].state = "disposed" /\ \A g \in FrameIds \ {f} : frames'[g] = frames[g]
  <2>1. frames[f] \in [state : {"none", "open", "disposed"}, entries : Seq(Columns)]
    BY <1>1 DEF TypeOK
  <2>2. [frames[f] EXCEPT !.state = "disposed"] \in [state : {"none", "open", "disposed"}, entries : Seq(Columns)]
    BY <2>1
  <2> QED BY <2>1, <2>2, <1>1, <1>3 DEF TypeOK
<1>7. TypeOK'
  BY <1>1, <1>3, <1>5, <1>6 DEF TypeOK
<1>8. /\ Shown'[f] = << >> /\ Shown'[-1] = Shown[f] /\ \A h \in Showing \ {f, -1} : Shown'[h] = Shown[h]
      /\ Shown[-1] = << >>
      /\ Shown \in Displays /\ Shown' \in Displays
  <2>1. Shown'[f] = << >>
    BY <1>6, Bounds DEF Shown, Open
  <2>2. Shown'[-1] = Shown[f]
    <3>1. Shown'[-1] = IF task'.op = "dispose" THEN task'.todo ELSE << >>
      BY Bounds DEF Shown
    <3> QED BY <3>1, <1>4, <1>5
  <2>3. Shown[-1] = << >> /\ Shown \in Displays
    BY <1>1, ShownTyped DEF Idle
  <2>4. \A h \in Showing \ {f, -1} : Shown'[h] = Shown[h]
    BY <1>1, <1>5, <1>6 DEF Shown, Open, Showing
  <2>5. Shown' = [h \in Showing |-> Shown'[h]]
    BY DEF Shown
  <2>6. \A h \in Showing : Shown'[h] \in Seq(Columns)
    <3> TAKE h \in Showing
    <3>1. << >> \in Seq(Columns) /\ Shown[h] \in Seq(Columns)
      BY <2>3 DEF Displays
    <3> QED BY <3>1, <2>1, <2>2, <2>4, <1>4
  <2> QED BY <2>1, <2>2, <2>3, <2>4, <2>5, <2>6 DEF Displays
<1>9. \A o : Cardinality(Holders(o)') = Cardinality(Holders(o))
  BY <1>8, Bounds, HandedOver DEF Holders
<1>10. \A o : ~ JustMade(o) /\ ~ JustMade(o)'
  BY <1>1, <1>5 DEF JustMade
<1>11. RefsExact'
  BY <1>1, <1>3, <1>9, <1>10 DEF RefsExact
<1>12. TaskSound'
  <2>1. \A h \in Showing : Len(Shown'[h]) <= MaxWidth /\ \A i \in 1 .. Len(Shown'[h]) : Shown'[h][i] <= made'
    <3>1. \A h \in Showing : Len(Shown[h]) <= MaxWidth /\ \A i \in 1 .. Len(Shown[h]) : Shown[h][i] <= made
      BY <1>1 DEF TaskSound
    <3> QED BY <3>1, <1>3, <1>8, Bounds
  <2> QED BY <2>1, <1>1, <1>3, <1>5, <1>10 DEF TaskSound
<1> QED BY <1>7, <1>11, <1>12 DEF OwnersInv

\* A release takes back the reference of the place it empties.
LEMMA Releases ==
  ASSUME OwnersInv, Release
  PROVE  OwnersInv'
<1>1. TypeOK /\ RefsExact /\ TaskSound /\ task.op = "dispose" /\ task.todo # << >>
  BY DEF OwnersInv, Release
<1>2. task.todo \in Seq(Columns) /\ task.done = << >> /\ Shown[-1] = task.todo /\ Shown \in Displays
  BY <1>1, TaskKinds, ShownTyped DEF TypeOK
<1>3. PICK o \in Columns : o = Head(task.todo) /\ o = Shown[-1][1] /\ 1 \in 1 .. Len(Shown[-1])
  BY <1>1, <1>2, HeadTailProperties
<1>4. refs[o] > 0 /\ refs \in [Columns -> Nat] /\ buffers[o] = "live"
  BY <1>1, <1>3, Bounds, ShownCounted DEF OwnersInv, TypeOK
<1>5. /\ refs' = [refs EXCEPT ![o] = @ - 1] /\ buffers' = Freed(o) /\ task' = Releasing(Tail(task.todo))
      /\ UNCHANGED <<frames, made, scope, throws>>
  BY <1>3, <1>4 DEF Release
<1>6. refs' \in [Columns -> Nat] /\ refs'[o] = refs[o] - 1 /\ \A p \in Columns \ {o} : refs'[p] = refs[p]
  BY <1>4, <1>5
<1>7. /\ buffers' \in [Columns -> {"none", "live", "freed"}]
      /\ buffers'[o] = IF refs[o] = 1 THEN "freed" ELSE "live"
      /\ \A p \in Columns \ {o} : buffers'[p] = buffers[p]
  BY <1>1, <1>4, <1>5 DEF TypeOK, Freed
<1>8. PICK todo \in Seq(Columns) : todo = Tail(task.todo)
  BY <1>1, <1>2, HeadTailProperties
<1>9. /\ task' \in Tasks /\ task'.op # "make" /\ task'.done = << >>
      /\ todo = << >> => task'.op = "idle"
      /\ todo # << >> => task'.op = "dispose" /\ task'.todo = todo
  <2>1. CASE todo = << >>
    BY <1>5, <1>8, <2>1 DEF Releasing, Idle, Tasks
  <2>2. CASE todo # << >>
    <3>1. task' = [op |-> "dispose", todo |-> todo, done |-> << >>, frame |-> 0]
      BY <1>5, <1>8, <2>2 DEF Releasing, Idle
    <3> QED BY <2>2, <3>1 DEF Tasks
  <2> QED BY <2>1, <2>2
<1>10. TypeOK'
  <2>1. \A p \in Columns : buffers'[p] = "none" <=> p > made
    BY <1>1, <1>4, <1>7 DEF TypeOK
  <2>2. \A p \in Columns : refs'[p] > 0 => buffers'[p] = "live"
    BY <1>1, <1>4, <1>6, <1>7 DEF TypeOK
  <2> QED BY <1>1, <1>5, <1>6, <1>7, <1>9, <2>1, <2>2 DEF TypeOK
<1>11. Shown' = [Shown EXCEPT ![-1] = Tail(@)]
  <2>1. Shown'[-1] = todo
    <3>1. Shown'[-1] = IF task'.op = "dispose" THEN task'.todo ELSE << >>
      BY Bounds DEF Shown
    <3> QED BY <3>1, <1>9
  <2>2. \A h \in Showing \ {-1} : Shown'[h] = Shown[h]
    <3>1. task'.done = task.done
      BY <1>2, <1>9
    <3> QED BY <3>1, <1>5 DEF Shown, Open
  <2>3. Shown = [h \in Showing |-> Shown[h]] /\ Shown' = [h \in Showing |-> Shown'[h]]
    BY DEF Shown
  <2> QED BY <2>1, <2>2, <2>3, <1>2, <1>8
<1>12. Shown[-1] # << >> /\ Len(Shown[-1]) <= MaxWidth
  BY <1>1, <1>2, Bounds DEF TaskSound
<1>13. /\ Shown' \in Displays
       /\ Cardinality(Holders(o)') = Cardinality(Holders(o)) - 1
       /\ \A p \in Columns \ {o} : Cardinality(Holders(p)') = Cardinality(Holders(p))
  <2>1. o = Head(Shown[-1]) /\ -1 \in Showing
    BY <1>2, <1>3, Bounds
  <2>2. /\ [Shown EXCEPT ![-1] = Tail(@)] \in Displays
        /\ Cardinality(Places([Shown EXCEPT ![-1] = Tail(@)], o)) = Cardinality(Places(Shown, o)) - 1
        /\ \A p \in Columns \ {o} : Cardinality(Places([Shown EXCEPT ![-1] = Tail(@)], p)) = Cardinality(Places(Shown, p))
    BY <2>1, <1>2, <1>12, OneLess
  <2> QED BY <2>2, <1>11 DEF Holders
<1>14. \A p : ~ JustMade(p) /\ ~ JustMade(p)'
  BY <1>2, <1>9 DEF JustMade
<1>15. RefsExact'
  <2> SUFFICES ASSUME NEW p \in Columns
               PROVE  \/ refs'[p] = Cardinality(Holders(p)')
                      \/ throws > 0 /\ refs'[p] > Cardinality(Holders(p)')
    BY <1>5 DEF RefsExact
  <2>1. refs[p] \in Nat /\ Cardinality(Holders(p)) \in Nat
    BY <1>1, PlacesFinite DEF TypeOK, Holders
  <2>2. refs[p] = Cardinality(Holders(p)) \/ (throws > 0 /\ refs[p] > Cardinality(Holders(p)))
    BY <1>1, <1>14 DEF RefsExact
  <2>3. CASE p = o
    BY <2>1, <2>2, <2>3, <1>6, <1>13
  <2>4. CASE p # o
    BY <2>2, <2>4, <1>6, <1>13
  <2> QED BY <2>3, <2>4
<1>16. TaskSound'
  <2>1. \A h \in Showing : Len(Shown'[h]) <= MaxWidth /\ \A i \in 1 .. Len(Shown'[h]) : Shown'[h][i] <= made'
    <3>1. \A h \in Showing : Len(Shown[h]) <= MaxWidth /\ \A i \in 1 .. Len(Shown[h]) : Shown[h][i] <= made
      BY <1>1 DEF TaskSound
    <3>2. \A h \in Showing \ {-1} : Shown'[h] = Shown[h]
      BY <1>2, <1>11 DEF Displays
    <3>3. Shown'[-1] = todo
      BY <1>2, <1>8, <1>11, Bounds DEF Displays
    <3>4. Len(todo) = Len(Shown[-1]) - 1 /\ \A i \in 1 .. Len(todo) : todo[i] = Shown[-1][i + 1] /\ i + 1 \in 1 .. Len(Shown[-1])
      BY <1>1, <1>2, <1>8, HeadTailProperties
    <3>5. Len(todo) <= MaxWidth /\ \A i \in 1 .. Len(todo) : todo[i] <= made
      <4>1. Len(Shown[-1]) \in Nat
        BY <1>2, Bounds DEF Displays
      <4>2. \A i \in 1 .. Len(todo) : todo[i] <= made
        BY <3>1, <3>4, Bounds
      <4> QED BY <3>4, <4>1, <4>2, <1>12, Bounds
    <3> QED BY <3>1, <3>2, <3>3, <3>5, <1>5
  <2>2. \A p \in Columns : buffers'[p] = "live" /\ refs'[p] = 0 => throws' > 0
    BY <1>1, <1>4, <1>5, <1>6, <1>7, <1>14 DEF TaskSound
  <2> QED BY <2>1, <2>2, <1>9, <1>14 DEF TaskSound
<1> QED BY <1>10, <1>15, <1>16 DEF OwnersInv

\* The steps of scope change no count, but for the disposal they start.
LEMMA ScopeSteps ==
  ASSUME OwnersInv, ScopeStart \/ ScopeFinally \/ DisposeTracked \/ \E f \in FrameIds : Track(f) \/ Dispose(f)
  PROVE  OwnersInv'
<1> DEFINE Scopes == [state : {"none", "open", "ending"}, tracked : Seq(FrameIds)]
<1>1. TypeOK /\ scope \in Scopes
  BY DEF OwnersInv, TypeOK
<1>2. scope' \in Scopes /\ UNCHANGED <<frames, refs, buffers, made, task, throws>> => OwnersInv'
  <2> SUFFICES ASSUME scope' \in Scopes, UNCHANGED <<frames, refs, buffers, made, task, throws>>
               PROVE  OwnersInv'
    OBVIOUS
  <2>1. TypeOK'
    BY <1>1 DEF TypeOK
  <2>2. Shown' = Shown
    BY DEF Shown, Open
  <2>3. \A o : Holders(o)' = Holders(o) /\ (JustMade(o)' <=> JustMade(o))
    BY <2>2 DEF Holders, JustMade
  <2>4. RefsExact'
    BY <2>3 DEF OwnersInv, RefsExact
  <2>5. TaskSound'
    BY <2>2, <2>3 DEF OwnersInv, TaskSound
  <2> QED BY <2>1, <2>4, <2>5 DEF OwnersInv
<1>3. ScopeStart => OwnersInv'
  BY <1>1, <1>2 DEF ScopeStart
<1>4. ScopeFinally => OwnersInv'
  BY <1>1, <1>2 DEF ScopeFinally
<1>5. \A f \in FrameIds : Track(f) => OwnersInv'
  <2> SUFFICES ASSUME NEW f \in FrameIds, Track(f)
               PROVE  OwnersInv'
    OBVIOUS
  <2>1. scope.tracked \in Seq(FrameIds) /\ Append(scope.tracked, f) \in Seq(FrameIds)
    BY <1>1, AppendProperties
  <2>2. scope' \in Scopes
    BY <1>1, <2>1 DEF Track
  <2> QED BY <2>2, <1>2 DEF Track
<1>6. \A f \in FrameIds : Dispose(f) => OwnersInv'
  BY <1>1, DisposeStarts DEF Dispose, Ready
<1>7. DisposeTracked => OwnersInv'
  <2> SUFFICES ASSUME DisposeTracked
               PROVE  OwnersInv'
    OBVIOUS
  <2>1. CASE scope.tracked = << >>
    <3>1. scope' = NoScope /\ UNCHANGED <<frames, refs, buffers, made, task, throws>>
      BY <2>1 DEF DisposeTracked
    <3>2. NoScope \in Scopes
      BY DEF NoScope
    <3> QED BY <3>1, <3>2, <1>2
  <2>2. CASE scope.tracked # << >>
    <3>1. task.op = "idle" /\ scope' = [scope EXCEPT !.tracked = Tail(@)] /\ Disposes(Head(scope.tracked))
      BY <2>2 DEF DisposeTracked
    <3>2. scope.tracked \in Seq(FrameIds)
      BY <1>1
    <3>3. Head(scope.tracked) \in FrameIds /\ Tail(scope.tracked) \in Seq(FrameIds)
      BY <2>2, <3>2, HeadTailProperties
    <3>4. scope' \in Scopes
      BY <1>1, <3>1, <3>3
    <3> QED BY <3>1, <3>3, <3>4, DisposeStarts
  <2> QED BY <2>1, <2>2
<1> QED BY <1>3, <1>4, <1>5, <1>6, <1>7

LEMMA StartsEmpty == Init => OwnersInv
<1> SUFFICES ASSUME Init
             PROVE  OwnersInv
  OBVIOUS
<1>1. task = Idle /\ task.done = << >> /\ task.op = "idle"
  BY DEF Init, Idle
<1>2. TypeOK
  <2>1. task \in Tasks
    BY <1>1 DEF Tasks, Idle
  <2>2. frames \in [FrameIds -> [state : {"none", "open", "disposed"}, entries : Seq(Columns)]]
    BY DEF Init
  <2>3. scope \in [state : {"none", "open", "ending"}, tracked : Seq(FrameIds)]
    BY DEF Init, NoScope
  <2>4. made \in 0 .. MaxColumns /\ throws \in 0 .. MaxThrows
    BY Bounds DEF Init
  <2>5. \A o \in Columns : o > made
    BY Bounds DEF Init
  <2> QED BY <2>1, <2>2, <2>3, <2>4, <2>5 DEF Init, TypeOK
<1>3. \A h \in Showing : Shown[h] = << >>
  BY <1>1 DEF Shown, Showing, Open, Init
<1>4. \A o : Holders(o) = {} /\ ~ JustMade(o)
  <2> TAKE o
  <2>1. \A h \in Showing \X (1 .. MaxWidth) : ~ (h[2] <= Len(Shown[h[1]]))
    <3> TAKE h \in Showing \X (1 .. MaxWidth)
    <3>1. h[1] \in Showing /\ h[2] \in 1 .. MaxWidth
      OBVIOUS
    <3>2. Len(Shown[h[1]]) = 0
      BY <3>1, <1>3
    <3> QED BY <3>1, <3>2
  <2> QED BY <2>1, <1>1 DEF Holders, Places, JustMade
<1>5. RefsExact
  BY <1>4, FS_EmptySet DEF RefsExact, Init
<1>6. TaskSound
  BY <1>1, <1>3, <1>4, Bounds DEF TaskSound, Init
<1> QED BY <1>2, <1>5, <1>6 DEF OwnersInv

LEMMA Preserved == OwnersInv /\ [Next]_vars => OwnersInv'
<1> SUFFICES ASSUME OwnersInv, [Next]_vars
             PROVE  OwnersInv'
  OBVIOUS
<1>1. CASE UNCHANGED vars
  <2>1. Shown' = Shown
    BY <1>1 DEF Shown, Open, vars
  <2>2. \A o : Holders(o)' = Holders(o) /\ (JustMade(o)' <=> JustMade(o))
    BY <1>1, <2>1 DEF Holders, JustMade, vars
  <2>3. TypeOK'
    BY <1>1 DEF OwnersInv, TypeOK, vars
  <2>4. RefsExact' /\ TaskSound'
    BY <1>1, <2>1, <2>2 DEF OwnersInv, RefsExact, TaskSound, vars
  <2> QED BY <2>3, <2>4 DEF OwnersInv
<1>2. CASE RetainEntry \/ CreateEntry \/ ThrowOut \/ Construct \/ Release
  BY <1>2, Retains, CreatesOne, Throws, Constructs, Releases
<1>3. CASE ScopeStart \/ ScopeFinally \/ DisposeTracked \/ \E f \in FrameIds : Track(f) \/ Dispose(f)
  BY <1>3, ScopeSteps
<1>4. CASE \E n \in 1 .. MaxWidth : FromColumns(n)
  BY <1>4, StartsFromColumns
<1>5. ASSUME NEW f \in FrameIds, Slice(f) \/ (\E names \in Names : Select(f, names))
                                  \/ \E at \in 1 .. Len(frames[f].entries) + 1 : WithColumn(f, at)
      PROVE  OwnersInv'
  BY <1>5, StartsSlice, StartsSelect, StartsWithColumn
<1> QED BY <1>1, <1>2, <1>3, <1>4, <1>5 DEF Next

-----------------------------------------------------------------------------
(* The theorems.                                                           *)

\* An owner counts one reference per place that shows its column, whatever
\* frames share it, and more only after an operation threw half-way
\* (OwnedColumn.retain and release, dispose).
THEOREM ReferencesCounted == Spec => []OwnersInv
<1> QED BY StartsEmpty, Preserved, PTL DEF Spec

\* No frame that is open loses its buffers, in whatever order the frames that
\* share them are disposed.
THEOREM OpenStaysReadable == Spec => []OpenFramesReadable
<1>1. OwnersInv => OpenFramesReadable
  <2> SUFFICES ASSUME OwnersInv, NEW f \in OpenFrames, NEW i \in 1 .. Len(frames[f].entries)
               PROVE  buffers[frames[f].entries[i]] = "live"
    BY DEF OpenFramesReadable
  <2>1. f \in FrameIds /\ Shown[f] = frames[f].entries
    BY ShownTyped DEF OpenFrames, OwnersInv
  <2> QED BY <2>1, Bounds, ShownCounted
<1> QED BY <1>1, ReferencesCounted, PTL

\* As long as no operation throws, dispose frees what no open frame shows.
THEOREM NothingIsLost == Spec => []NothingLost
<1>1. OwnersInv => NothingLost
  <2> SUFFICES ASSUME OwnersInv, Ready, throws = 0, NEW o \in Columns, buffers[o] = "live"
               PROVE  \E f \in OpenFrames : \E i \in 1 .. Len(frames[f].entries) : frames[f].entries[i] = o
    BY DEF NothingLost
  <2>1. TypeOK /\ RefsExact /\ TaskSound /\ task.op = "idle" /\ task.done = << >>
    BY TaskKinds DEF OwnersInv, TypeOK, Ready
  <2>2. ~ JustMade(o)
    BY <2>1 DEF JustMade
  <2>3. refs[o] # 0 /\ refs[o] = Cardinality(Holders(o))
    BY <2>1, <2>2 DEF TaskSound, RefsExact
  <2>4. PICK h \in Holders(o) : TRUE
    BY <2>3, FS_EmptySet
  <2>5. h[1] \in Showing /\ h[2] \in 1 .. MaxWidth /\ h[2] <= Len(Shown[h[1]]) /\ Shown[h[1]][h[2]] = o
    BY <2>4 DEF Holders, Places
  <2>6. Len(<< >>) = 0 /\ ~ (h[2] <= 0)
    BY <2>5
  <2>7. h[1] # 0 /\ h[1] # -1
    BY <2>1, <2>5, <2>6, ShownTyped
  <2>8. h[1] \in FrameIds /\ Shown[h[1]] # << >>
    BY <2>5, <2>6, <2>7 DEF Showing
  <2>9. Open(h[1]) /\ Shown[h[1]] = frames[h[1]].entries
    BY <2>1, <2>8, ShownTyped
  <2>10. h[2] \in 1 .. Len(frames[h[1]].entries)
    <3>1. Len(frames[h[1]].entries) \in Nat
      BY <2>1, <2>8 DEF TypeOK
    <3> QED BY <3>1, <2>5, <2>9
  <2> QED BY <2>5, <2>8, <2>9, <2>10 DEF OpenFrames
<1> QED BY <1>1, ReferencesCounted, PTL

\* Whatever is freed stays freed and is not counted again: no path of an
\* operation, of dispose or of scope releases it a second time.
THEOREM FreesOnce == Spec => FreedOnce
<1> DEFINE Kept == \A o \in Columns : buffers[o] = "freed" => refs'[o] = 0 /\ buffers'[o] = "freed"
<1>1. OwnersInv /\ [Next]_vars => [Kept]_vars
  <2> SUFFICES ASSUME OwnersInv, [Next]_vars, NEW o \in Columns, buffers[o] = "freed"
               PROVE  refs'[o] = 0 /\ buffers'[o] = "freed"
    OBVIOUS
  <2>1. /\ TypeOK /\ TaskSound /\ refs[o] = 0 /\ ~ (o > made)
        /\ refs \in [Columns -> Nat] /\ buffers \in [Columns -> {"none", "live", "freed"}]
    <3>1. TypeOK /\ TaskSound
      BY DEF OwnersInv
    <3>2. refs[o] \in Nat /\ (refs[o] > 0 => buffers[o] = "live") /\ (buffers[o] = "none" <=> o > made)
      BY <3>1 DEF TypeOK
    <3> QED BY <3>1, <3>2 DEF TypeOK
  <2>2. CASE UNCHANGED <<refs, buffers>>
    BY <2>1, <2>2
  <2>3. CASE RetainEntry
    <3>1. PICK p \in Columns : Head(task.todo) = Retain(p) /\ Head(task.todo).col = p
      BY <2>3, FirstTodo, ItemKinds DEF RetainEntry
    <3>2. refs[p] > 0
      BY <3>1, <2>1, <2>3, FirstTodo, ItemKinds DEF TaskSound, RetainEntry
    <3> QED BY <3>1, <3>2, <2>1, <2>3 DEF RetainEntry
  <2>4. CASE CreateEntry
    <3>1. o # made + 1
      BY <2>1, Bounds DEF TypeOK
    <3> QED BY <3>1, <2>1, <2>4 DEF CreateEntry
  <2>5. CASE Construct
    <3>1. \A i \in 1 .. Len(task.done) : task.done[i] # o
      BY <2>1, <2>5 DEF TaskSound, Construct
    <3> QED BY <3>1, <2>1, <2>5 DEF Construct, FirstRefs
  <2>6. CASE Release
    <3>1. Head(task.todo) = o => UNCHANGED <<refs, buffers>>
      BY <2>1, <2>6 DEF Release
    <3>2. Head(task.todo) # o => refs'[o] = refs[o] /\ buffers'[o] = buffers[o]
      BY <2>1, <2>6 DEF Release, Freed
    <3> QED BY <3>1, <3>2, <2>1
  <2>7. [Next]_vars => \/ UNCHANGED <<refs, buffers>>
                       \/ RetainEntry \/ CreateEntry \/ Construct \/ Release
    BY DEF Next, vars, ThrowOut, ScopeStart, ScopeFinally, DisposeTracked, FromColumns, Slice, Select,
           WithColumn, Plan, Dispose, Disposes, Track
  <2> QED BY <2>2, <2>3, <2>4, <2>5, <2>6, <2>7
<1> QED BY <1>1, ReferencesCounted, PTL DEF Spec, FreedOnce

-----------------------------------------------------------------------------
(* Views: the accessor.                                                    *)

\* A state of viewOf that is right in generation g: registered keys, all cached
\* views of the generation it is synced to, and that one no later than g.
Fresh(vs, g) ==
  /\ vs = [synced |-> vs.synced, registry |-> vs.registry, cache |-> vs.cache]
  /\ vs.synced \in {NoView} \cup 0 .. g
  /\ vs.registry \subseteq Keys
  /\ DOMAIN vs.cache \subseteq vs.registry
  /\ \A k \in DOMAIN vs.cache : vs.cache[k] = vs.synced

\* An operation that calls createColumn for each of its parts has one left.
PartsLeft ==
  pc \in {"validity", "view", "fill"} /\ back \in {"agg_parts", "rows"} => parts > 0

AccessorIInv == ViewsTypeOK /\ Fresh(views, generation) /\ PartsLeft

\* What viewOf(k) hands out is over the current buffer, and stays so for the
\* views handed out before it.
LEMMA ViewOfFresh ==
  ASSUME generation \in Nat, NEW vs, Fresh(vs, generation), NEW k \in Keys
  PROVE  /\ Fresh(ViewOf(vs, k), generation)
         /\ ViewOf(vs, k).synced = generation
         /\ DOMAIN vs.cache \cup {k} \subseteq DOMAIN ViewOf(vs, k).cache
         /\ ViewOf(vs, k).cache[k] = generation
<1> DEFINE r == [synced |-> vs.synced, registry |-> vs.registry \cup {k}, cache |-> vs.cache]
           s == Synced(r)
           v == ViewOf(vs, k)
<1>1. [vs EXCEPT !.registry = @ \cup {k}] = r
  BY DEF Fresh
<1>2. s = [synced |-> generation, registry |-> r.registry, cache |-> s.cache]
  BY DEF Synced
<1>3. /\ DOMAIN s.cache \subseteq r.registry /\ DOMAIN vs.cache \subseteq DOMAIN s.cache
      /\ \A j \in DOMAIN s.cache : s.cache[j] = generation
  <2>1. CASE vs.synced = generation
    BY <2>1 DEF Synced, Fresh
  <2>2. CASE vs.synced # generation
    <3>1. s.cache = [j \in r.registry |-> generation]
      BY <2>2 DEF Synced
    <3> QED BY <3>1 DEF Fresh
  <2> QED BY <2>1, <2>2
<1>4. r.registry \subseteq Keys /\ k \in r.registry
  BY DEF Fresh
<1> HIDE DEF s
<1>5. v = IF k \in DOMAIN s.cache THEN s
          ELSE [s EXCEPT !.cache = [j \in DOMAIN s.cache \cup {k} |-> IF j = k THEN generation ELSE s.cache[j]]]
  BY <1>1 DEF ViewOf, s
<1> HIDE DEF v, r
<1>6. CASE k \in DOMAIN s.cache
  BY <1>2, <1>3, <1>4, <1>5, <1>6 DEF Fresh, v
<1>7. CASE k \notin DOMAIN s.cache
  <2> DEFINE c == [j \in DOMAIN s.cache \cup {k} |-> IF j = k THEN generation ELSE s.cache[j]]
  <2>1. DOMAIN c = DOMAIN s.cache \cup {k} /\ \A j \in DOMAIN c : c[j] = generation
    BY <1>3
  <2> HIDE DEF c
  <2>2. v = [synced |-> generation, registry |-> r.registry, cache |-> c]
    BY <1>2, <1>5, <1>7 DEF c
  <2> QED BY <1>3, <1>4, <2>1, <2>2 DEF Fresh, v
<1> QED BY <1>6, <1>7

LEMMA KeysOf ==
  ASSUME NEW c \in ColumnType
  PROVE  /\ DataKey(c) \in Keys /\ BitsKey(c) \in Keys
         /\ DataKey(SliceOf(c)) \in Keys /\ BitsKey(SliceOf(c)) \in Keys
         /\ SliceOf(c).data = c.data /\ SliceOf(c).bits = c.bits
BY DEF ColumnType, DataKey, BitsKey, Key, Keys, SliceOf

\* Taking the views of a column, or of a slice of one.
LEMMA ViewColumnFresh ==
  ASSUME generation \in Nat, NEW vs, Fresh(vs, generation), NEW c, DataKey(c) \in Keys, BitsKey(c) \in Keys
  PROVE  /\ Fresh(ViewColumn(vs, c), generation)
         /\ ViewColumn(vs, c).cache[DataKey(c)] = generation
         /\ c.bits # Null => ViewColumn(vs, c).cache[BitsKey(c)] = generation
<1>1. CASE c.bits = Null
  BY <1>1, ViewOfFresh DEF ViewColumn
<1>2. CASE c.bits # Null
  <2> DEFINE b == ViewOf(vs, BitsKey(c))
  <2>1. Fresh(b, generation) /\ BitsKey(c) \in DOMAIN b.cache
    BY ViewOfFresh
  <2> HIDE DEF b
  <2>2. LET d == ViewOf(b, DataKey(c)) IN
        Fresh(d, generation) /\ d.synced = generation /\ BitsKey(c) \in DOMAIN d.cache /\ d.cache[DataKey(c)] = generation
    BY <2>1, ViewOfFresh
  <2>3. ViewOf(b, DataKey(c)).cache[BitsKey(c)] = generation
    BY <2>2 DEF Fresh
  <2> QED BY <1>2, <2>2, <2>3 DEF ViewColumn, b
<1> QED BY <1>1, <1>2

LEMMA ForgetFresh ==
  ASSUME NEW g, NEW vs, Fresh(vs, g), NEW ks
  PROVE  Fresh(Forget(vs, ks), g)
<1>1. Forget(vs, ks) = [synced |-> vs.synced, registry |-> vs.registry \ ks,
                        cache |-> [j \in DOMAIN vs.cache \ ks |-> vs.cache[j]]]
  <2> DEFINE c == [j \in DOMAIN vs.cache \ ks |-> vs.cache[j]]
             r == [vs EXCEPT !.registry = @ \ ks]
  <2>1. r = [synced |-> vs.synced, registry |-> vs.registry \ ks, cache |-> vs.cache]
    BY DEF Fresh
  <2>2. Forget(vs, ks) = [r EXCEPT !.cache = c]
    BY DEF Forget
  <2> HIDE DEF c, r
  <2>3. Forget(vs, ks) = [synced |-> vs.synced, registry |-> vs.registry \ ks, cache |-> c]
    BY <2>1, <2>2
  <2> QED BY <2>3 DEF c
<1> QED BY <1>1 DEF Fresh

LEMMA FreshLater ==
  ASSUME NEW g \in Nat, NEW h \in Nat, g <= h, NEW vs, Fresh(vs, g)
  PROVE  Fresh(vs, h)
BY DEF Fresh

\* What alloc does to the generation and to the buffers in use.
LEMMA AllocEffect ==
  ASSUME ViewsTypeOK, NEW p, Alloc(p)
  PROVE  /\ p \in Ptrs \cup {Null} /\ live' \subseteq Ptrs
         /\ generation \in Nat /\ generation' \in 0 .. MaxGrows /\ generation <= generation' /\ generation' \in Nat
BY ViewsAssumption DEF ViewsTypeOK, Alloc

-----------------------------------------------------------------------------
(* The accessor's invariant, action by action.                             *)

LEMMA InitAccessor == ViewsInit => AccessorIInv
<1> SUFFICES ASSUME ViewsInit PROVE AccessorIInv
  OBVIOUS
<1>1. NoColumn \in ColumnType
  BY DEF NoColumn, ColumnType
<1>2. DOMAIN views.cache = {} /\ Fresh(views, generation)
  BY DEF ViewsInit, Fresh
<1>3. ViewsTypeOK
  BY <1>1, <1>2, ViewsAssumption DEF ViewsInit, ViewsTypeOK
<1> QED BY <1>2, <1>3 DEF AccessorIInv, ViewsInit, PartsLeft

\* A step whose accessor is right in the new generation, and that types the rest.
LEMMA AccessorKept ==
  ASSUME AccessorIInv, Fresh(views', generation'), generation' \in 0 .. MaxGrows,
         mem' \in [Ptrs \cup {Null} -> Values \cup {Junk, GroupIds}], live' \subseteq Ptrs,
         columns' \subseteq ColumnType, owned' \subseteq ColumnType,
         new' \in ColumnType, src' \in ColumnType,
         data' \in {NoView} \cup 0 .. MaxGrows, bits' \in {NoView} \cup 0 .. MaxGrows,
         held' \in {NoView} \cup 0 .. MaxGrows,
         ids' \in Ptrs \cup {Null}, parts' \in 0 .. MaxParts,
         pc' \in {"idle", "validity", "view", "fill", "agg_groups", "agg_keys", "agg_view", "agg_parts", "rows"},
         back' \in {"idle", "agg_keys", "agg_parts", "rows"}, PartsLeft'
  PROVE  AccessorIInv'
<1>1. views'.synced \in {NoView} \cup 0 .. MaxGrows /\ views'.registry \subseteq Keys
      /\ DOMAIN views'.cache \subseteq views'.registry
  BY ViewsAssumption DEF Fresh
<1>2. ViewsTypeOK'
  BY <1>1 DEF ViewsTypeOK
<1> QED BY <1>2 DEF AccessorIInv

\* The same for a step that allocates: what was right stays so after a grow.
LEMMA AccessorTypes ==
  ASSUME AccessorIInv
  PROVE  /\ generation \in 0 .. MaxGrows /\ generation \in Nat /\ MaxGrows \in Nat /\ MaxParts \in Nat
         /\ mem \in [Ptrs \cup {Null} -> Values \cup {Junk, GroupIds}] /\ live \subseteq Ptrs
         /\ columns \subseteq ColumnType /\ owned \subseteq ColumnType /\ new \in ColumnType /\ src \in ColumnType /\ NoColumn \in ColumnType
         /\ data \in {NoView} \cup 0 .. MaxGrows /\ bits \in {NoView} \cup 0 .. MaxGrows
         /\ held \in {NoView} \cup 0 .. MaxGrows
         /\ ids \in Ptrs \cup {Null} /\ parts \in 0 .. MaxParts
         /\ pc \in {"idle", "validity", "view", "fill", "agg_groups", "agg_keys", "agg_view", "agg_parts", "rows"}
         /\ back \in {"idle", "agg_keys", "agg_parts", "rows"}
         /\ Fresh(views, generation) /\ PartsLeft
<1>1. NoColumn \in ColumnType
  BY DEF NoColumn, ColumnType
<1> QED BY <1>1, ViewsAssumption DEF AccessorIInv, ViewsTypeOK

LEMMA CreateColumnAccessor ==
  ASSUME AccessorIInv, NEW p, NEW k \in Kinds, NEW n \in BOOLEAN, NEW v \in Values, CreateColumn(p, k, n, v)
  PROVE  AccessorIInv'
<1>1. Alloc(p) /\ ViewsTypeOK
  BY DEF CreateColumn, AccessorIInv
<1>2. /\ p \in Ptrs \cup {Null} /\ live' \subseteq Ptrs /\ generation' \in 0 .. MaxGrows
      /\ generation \in Nat /\ generation' \in Nat /\ generation <= generation'
  BY <1>1, AllocEffect
<1>3. /\ new' = [data |-> p, bits |-> Null, kind |-> k, nulls |-> n, value |-> v]
      /\ views' = IF pc \in {"agg_keys", "agg_parts"} THEN ViewColumn(views, src) ELSE views
      /\ pc' = (IF n THEN "validity" ELSE "view") /\ back' = pc
      /\ pc \in {"idle", "agg_keys"} \/ (pc \in {"agg_parts", "rows"} /\ parts > 0)
      /\ UNCHANGED <<mem, columns, data, bits, scanning>>
  BY DEF CreateColumn
<1>4. new' \in ColumnType
  BY <1>2, <1>3 DEF ColumnType
<1>5. Fresh(views', generation)
  <2>1. Fresh(ViewColumn(views, src), generation)
    BY AccessorTypes, KeysOf, ViewColumnFresh
  <2> QED BY <1>3, <2>1, AccessorTypes
<1>6. Fresh(views', generation')
  BY <1>2, <1>5, FreshLater
<1>7. PartsLeft'
  BY <1>3 DEF PartsLeft, scanning
<1> QED BY <1>2, <1>3, <1>4, <1>6, <1>7, AccessorTypes, AccessorKept DEF scanning

LEMMA AllocValidityAccessor ==
  ASSUME AccessorIInv, NEW p, AllocValidity(p)
  PROVE  AccessorIInv'
<1>1. Alloc(p) /\ ViewsTypeOK
  BY DEF AllocValidity, AccessorIInv
<1>2. /\ p \in Ptrs \cup {Null} /\ live' \subseteq Ptrs /\ generation' \in 0 .. MaxGrows
      /\ generation \in Nat /\ generation' \in Nat /\ generation <= generation'
  BY <1>1, AllocEffect
<1>3. /\ new' = [new EXCEPT !.bits = p] /\ pc = "validity" /\ pc' = "view"
      /\ UNCHANGED <<mem, views, columns, data, bits, back, scanning>>
  BY DEF AllocValidity
<1>4. new' \in ColumnType
  BY <1>2, <1>3, AccessorTypes DEF ColumnType
<1>5. Fresh(views', generation')
  BY <1>2, <1>3, AccessorTypes, FreshLater
<1>6. PartsLeft'
  BY <1>3, AccessorTypes DEF PartsLeft, scanning
<1> QED BY <1>2, <1>3, <1>4, <1>5, <1>6, AccessorTypes, AccessorKept DEF scanning

LEMMA TakeViewsAccessor ==
  ASSUME AccessorIInv, TakeViews
  PROVE  /\ AccessorIInv' /\ data' = generation
         /\ bits' = IF new.bits = Null THEN NoView ELSE generation
<1> DEFINE withData == ViewOf(views, DataKey(new))
           withBits == ViewOf(withData, BitsKey(new))
<1>1. /\ views' = IF new.bits = Null THEN withData ELSE withBits
      /\ data' = withData.cache[DataKey(new)]
      /\ bits' = IF new.bits = Null THEN NoView ELSE views'.cache[BitsKey(new)]
      /\ pc = "view" /\ pc' = "fill"
      /\ UNCHANGED <<generation, mem, live, columns, new, back, scanning>>
  BY DEF TakeViews
<1>2. DataKey(new) \in Keys /\ BitsKey(new) \in Keys
  BY AccessorTypes, KeysOf
<1>3. Fresh(withData, generation) /\ withData.cache[DataKey(new)] = generation
  BY <1>2, AccessorTypes, ViewOfFresh
<1> HIDE DEF withData
<1>4. Fresh(withBits, generation) /\ withBits.cache[BitsKey(new)] = generation
  BY <1>2, <1>3, AccessorTypes, ViewOfFresh
<1> HIDE DEF withBits
<1>5. Fresh(views', generation') /\ data' = generation /\ bits' = IF new.bits = Null THEN NoView ELSE generation
  BY <1>1, <1>3, <1>4
<1>6. PartsLeft'
  BY <1>1, AccessorTypes DEF PartsLeft, scanning
<1> QED BY <1>1, <1>5, <1>6, AccessorTypes, AccessorKept DEF scanning

LEMMA WrittenTyped ==
  ASSUME NEW m \in [Ptrs \cup {Null} -> Values \cup {Junk, GroupIds}], NEW view, NEW p, NEW v \in Values \cup {Junk}
  PROVE  WriteThrough(m, view, p, v) \in [Ptrs \cup {Null} -> Values \cup {Junk, GroupIds}]
BY DEF WriteThrough

LEMMA FillAccessor == ASSUME AccessorIInv, Fill PROVE AccessorIInv'
<1> DEFINE withData == WriteThrough(mem, data, new.data, new.value)
<1>1. /\ mem' = IF new.bits = Null THEN withData ELSE WriteThrough(withData, bits, new.bits, new.value)
      /\ columns' = columns \cup {new} /\ new' = NoColumn /\ data' = NoView /\ bits' = NoView
      /\ pc = "fill" /\ pc' = (IF back = "agg_keys" THEN "agg_view" ELSE back) /\ back' = "idle"
      /\ parts' = IF back \in {"agg_parts", "rows"} THEN parts - 1 ELSE parts
      /\ owned' = IF back \in {"agg_keys", "agg_parts"} THEN owned \cup {new} ELSE owned
      /\ UNCHANGED <<generation, live, views, src, ids, held>>
  BY DEF Fill
<1>2. new.value \in Values \cup {Junk}
  BY AccessorTypes DEF ColumnType
<1>3. withData \in [Ptrs \cup {Null} -> Values \cup {Junk, GroupIds}]
  BY <1>2, AccessorTypes, WrittenTyped
<1> HIDE DEF withData
<1>4. mem' \in [Ptrs \cup {Null} -> Values \cup {Junk, GroupIds}]
  BY <1>1, <1>2, <1>3, WrittenTyped
<1>5. parts' \in 0 .. MaxParts
  BY <1>1, AccessorTypes DEF PartsLeft
<1>6. PartsLeft' /\ pc' \in {"idle", "agg_view", "agg_parts", "rows"}
  BY <1>1, AccessorTypes DEF PartsLeft
<1> QED BY <1>1, <1>4, <1>5, <1>6, AccessorTypes, AccessorKept

\* Reading a column or a slice of one.
LEMMA ReadAccessor ==
  ASSUME AccessorIInv, NEW c \in columns, ReadColumn(c) \/ ReadSlice(c)
  PROVE  AccessorIInv'
<1>1. c \in ColumnType
  BY AccessorTypes
<1>2. Fresh(ViewColumn(views, c), generation) /\ Fresh(ViewColumn(views, SliceOf(c)), generation)
  BY <1>1, AccessorTypes, KeysOf, ViewColumnFresh
<1>3. /\ Fresh(views', generation)
      /\ UNCHANGED <<generation, mem, live, columns, pc, building, back, scanning>>
  BY <1>2 DEF ReadColumn, ReadSlice
<1>4. PartsLeft'
  BY <1>3, AccessorTypes DEF PartsLeft, scanning
<1> QED BY <1>3, <1>4, AccessorTypes, AccessorKept DEF scanning, building

LEMMA FreeColumnAccessor ==
  ASSUME AccessorIInv, NEW c \in columns, FreeColumn(c)
  PROVE  AccessorIInv'
<1>1. /\ views' = Forget(views, {DataKey(c), BitsKey(c)}) /\ live' = live \ Buffers(c)
      /\ mem' = Cleared(Buffers(c)) /\ columns' = columns \ {c}
      /\ UNCHANGED <<generation, pc, building, back, scanning>>
  BY DEF FreeColumn
<1>2. Fresh(views', generation)
  BY <1>1, AccessorTypes, ForgetFresh
<1>3. mem' \in [Ptrs \cup {Null} -> Values \cup {Junk, GroupIds}]
  BY <1>1, AccessorTypes DEF Cleared
<1>4. PartsLeft'
  BY <1>1, AccessorTypes DEF PartsLeft, scanning
<1> QED BY <1>1, <1>2, <1>3, <1>4, AccessorTypes, AccessorKept DEF scanning, building

LEMMA AggCallAccessor ==
  ASSUME AccessorIInv, NEW c \in columns, NEW p, NEW n \in 1 .. MaxParts, AggCall(c, p, n)
  PROVE  AccessorIInv'
<1>1. Alloc(p) /\ ViewsTypeOK
  BY DEF AggCall, AccessorIInv
<1>2. /\ p \in Ptrs \cup {Null} /\ live' \subseteq Ptrs /\ generation' \in 0 .. MaxGrows
      /\ generation \in Nat /\ generation' \in Nat /\ generation <= generation'
  BY <1>1, AllocEffect
<1>3. /\ src' = c /\ ids' = p /\ parts' = n /\ pc' = "agg_groups"
      /\ UNCHANGED <<mem, views, columns, building, back, held, owned>>
  BY DEF AggCall
<1>4. Fresh(views', generation')
  BY <1>2, <1>3, AccessorTypes, FreshLater
<1>5. PartsLeft' /\ src' \in ColumnType /\ parts' \in 0 .. MaxParts
  BY <1>3, AccessorTypes DEF PartsLeft
<1> QED BY <1>2, <1>3, <1>4, <1>5, AccessorTypes, AccessorKept DEF building

LEMMA IdsKeyTyped == ASSUME AccessorIInv PROVE IdsKey \in Keys
BY AccessorTypes DEF IdsKey, Key, Keys

LEMMA ComputeGroupsAccessor == ASSUME AccessorIInv, ComputeGroups PROVE AccessorIInv'
<1>1. /\ mem' = [mem EXCEPT ![ids] = GroupIds] /\ views' = ViewOf(views, IdsKey)
      /\ pc = "agg_groups" /\ pc' = "agg_keys"
      /\ UNCHANGED <<generation, live, columns, building, back, scanning>>
  BY DEF ComputeGroups
<1>2. Fresh(views', generation)
  BY <1>1, AccessorTypes, IdsKeyTyped, ViewOfFresh
<1>3. mem' \in [Ptrs \cup {Null} -> Values \cup {Junk, GroupIds}]
  BY <1>1, AccessorTypes
<1>4. PartsLeft'
  BY <1>1 DEF PartsLeft
<1> QED BY <1>1, <1>2, <1>3, <1>4, AccessorTypes, AccessorKept DEF scanning, building

LEMMA TakeIdsAccessor == ASSUME AccessorIInv, TakeIds PROVE AccessorIInv'
<1>1. /\ views' = ViewOf(views, IdsKey) /\ held' = views'.cache[IdsKey]
      /\ pc = "agg_view" /\ pc' = "agg_parts"
      /\ UNCHANGED <<generation, mem, live, columns, building, back, src, ids, parts, owned>>
  BY DEF TakeIds
<1>2. Fresh(views', generation) /\ held' = generation
  BY <1>1, AccessorTypes, IdsKeyTyped, ViewOfFresh
<1>3. PartsLeft'
  BY <1>1 DEF PartsLeft
<1> QED BY <1>1, <1>2, <1>3, AccessorTypes, AccessorKept DEF building

\* The finally clause of agg, on its normal and on its throwing path.
LEMMA FinallyAccessor == ASSUME AccessorIInv, NEW dropped, Finally(dropped) PROVE AccessorIInv'
<1>1. /\ views' = Forget(views, KeysIn(dropped) \cup {IdsKey})
      /\ live' = live \ (BuffersIn(dropped) \cup {ids}) /\ mem' = Cleared(BuffersIn(dropped) \cup {ids})
      /\ columns' = columns \ dropped /\ owned' = {}
      /\ src' = NoColumn /\ ids' = Null /\ held' = NoView /\ pc' = "idle"
      /\ UNCHANGED <<generation, building, back, parts>>
  BY DEF Finally
<1>2. Fresh(views', generation)
  BY <1>1, AccessorTypes, ForgetFresh
<1>3. mem' \in [Ptrs \cup {Null} -> Values \cup {Junk, GroupIds}]
  BY <1>1, AccessorTypes DEF Cleared
<1>4. PartsLeft'
  BY <1>1 DEF PartsLeft
<1> QED BY <1>1, <1>2, <1>3, <1>4, AccessorTypes, AccessorKept DEF building

LEMMA MakeCursorAccessor ==
  ASSUME AccessorIInv, NEW c \in columns, MakeCursor(c)
  PROVE  AccessorIInv'
<1>1. /\ views' = ViewColumn(views, c) /\ held' = views'.cache[DataKey(c)]
      /\ src' = c /\ parts' = MaxParts /\ pc' = "rows"
      /\ UNCHANGED <<generation, mem, live, columns, building, back, ids, owned>>
  BY DEF MakeCursor
<1>2. c \in ColumnType
  BY AccessorTypes
<1>3. Fresh(views', generation) /\ held' = generation
  BY <1>1, <1>2, AccessorTypes, KeysOf, ViewColumnFresh
<1>4. PartsLeft'
  BY <1>1 DEF PartsLeft
<1>5. parts' \in 0 .. MaxParts
  BY <1>1, ViewsAssumption
<1> QED BY <1>1, <1>2, <1>3, <1>4, <1>5, AccessorTypes, AccessorKept DEF building

LEMMA RowsAccessor == ASSUME AccessorIInv, NextRow \/ RowsEnd PROVE AccessorIInv'
<1>1. /\ UNCHANGED <<generation, mem, live, views, columns, building, back, ids, owned>>
      /\ src' \in ColumnType /\ held' \in {NoView} \cup 0 .. MaxGrows
      /\ pc = "rows" /\ pc' \in {"idle", "rows"} /\ parts' \in 0 .. MaxParts
  BY AccessorTypes DEF NextRow, RowsEnd
<1>2. PartsLeft'
  BY <1>1 DEF PartsLeft
<1> QED BY <1>1, <1>2, AccessorTypes, AccessorKept DEF building

LEMMA NextAccessor == ASSUME AccessorIInv, [ViewsNext]_viewVars PROVE AccessorIInv'
<1>1. CASE TakeViews \/ Fill \/ ComputeGroups \/ TakeIds \/ AggEnd \/ AggThrows \/ NextRow \/ RowsEnd
  BY <1>1, TakeViewsAccessor, FillAccessor, ComputeGroupsAccessor, TakeIdsAccessor, FinallyAccessor, RowsAccessor
     DEF AggEnd, AggThrows
<1>2. ASSUME NEW p \in Ptrs \cup {Null}, AllocValidity(p) PROVE AccessorIInv'
  BY <1>2, AllocValidityAccessor
<1>3. ASSUME NEW p \in Ptrs \cup {Null}, NEW k \in Kinds, NEW n \in BOOLEAN, NEW v \in Values, CreateColumn(p, k, n, v)
      PROVE  AccessorIInv'
  BY <1>3, CreateColumnAccessor
<1>4. ASSUME NEW p \in Ptrs \cup {Null}, NEW c \in columns, NEW n \in 1 .. MaxParts, AggCall(c, p, n)
      PROVE  AccessorIInv'
  BY <1>4, AggCallAccessor
<1>5. ASSUME NEW c \in columns, ReadColumn(c) \/ ReadSlice(c) \/ FreeColumn(c) \/ MakeCursor(c)
      PROVE  AccessorIInv'
  BY <1>5, ReadAccessor, FreeColumnAccessor, MakeCursorAccessor
<1>6. CASE UNCHANGED viewVars
  BY <1>6 DEF viewVars, building, scanning, AccessorIInv, ViewsTypeOK, PartsLeft
<1> QED BY <1>1, <1>2, <1>3, <1>4, <1>5, <1>6 DEF ViewsNext

LEMMA AccessorInductive == ViewsSpec => []AccessorIInv
BY InitAccessor, NextAccessor, PTL DEF ViewsSpec

\* viewOf hands out no stale view: whatever was allocated, freed and grown in
\* between, and whether or not allocations fail, all it caches is of one
\* generation, and sync brings that one up to date (memory/views.ts).
THEOREM ViewsNeverStale == ViewsSpec => []AccessorInv
<1>1. AccessorIInv => AccessorInv
  BY DEF AccessorIInv, AccessorInv, CacheFresh, Fresh, ViewsTypeOK, NoView
<1> QED BY <1>1, AccessorInductive, PTL

-----------------------------------------------------------------------------
(* Buffers and what they hold, when no allocation fails.                   *)

\* The buffers of a column are there: the code checks no allocation, so that
\* this holds only while none fails.
WellMade(c) == c.data \in Ptrs /\ (IF c.nulls THEN c.bits \in Ptrs \ {c.data} ELSE c.bits = Null)

InAgg == pc \in {"agg_groups", "agg_keys", "agg_view", "agg_parts"} \/ back \in {"agg_keys", "agg_parts"}

\* createColumn has the buffers it needs by the time it takes their views, and
\* the views it writes through are over the current memory.
Building ==
  /\ pc \notin {"validity", "view", "fill"} => new = NoColumn /\ back = "idle"
  /\ pc = "validity" => new.data \in Ptrs /\ new.bits = Null /\ new.nulls
  /\ pc \in {"view", "fill"} => WellMade(new)
  /\ pc = "fill" => data = generation /\ (new.bits # Null => bits = generation)

\* Every buffer in use belongs to one column, to the one being built or to agg.
Owned ==
  /\ \A c \in columns : WellMade(c) /\ Buffers(c) \cap Buffers(new) = {} /\ ids \notin Buffers(c)
  /\ \A c, d \in columns : c # d => Buffers(c) \cap Buffers(d) = {}
  /\ ids \notin Buffers(new)
  /\ IF InAgg THEN ids \in Ptrs ELSE ids = Null /\ owned = {}
  /\ owned \subseteq columns
  /\ live = (UNION {Buffers(c) : c \in columns}) \cup Buffers(new) \cup ({ids} \ {Null})

\* What a column's buffers hold.
Holds(c) == mem[c.data] = c.value /\ (c.nulls => mem[c.bits] = c.value)

OwnIInv == Building /\ Owned /\ \A c \in columns : Holds(c)

LEMMA AllocSucceeds ==
  ASSUME ~MayFail, NEW p, Alloc(p)
  PROVE  p \in Ptrs /\ p \notin live /\ p # Null /\ live' = live \cup {p}
BY ViewsAssumption DEF Alloc

\* The buffers of one column, as a set.
LEMMA BuffersOf ==
  ASSUME NEW c, WellMade(c)
  PROVE  /\ Buffers(c) = IF c.nulls THEN {c.data, c.bits} ELSE {c.data}
         /\ c.data \in Buffers(c) /\ Buffers(c) \subseteq Ptrs /\ (c.nulls => c.bits \in Buffers(c) /\ c.bits # c.data)
BY ViewsAssumption DEF Buffers, WellMade

LEMMA NoBuffers == Buffers(NoColumn) = {} /\ NoColumn.data = Null /\ NoColumn.bits = Null
BY DEF Buffers, NoColumn

\* A write outside the buffers of a column leaves what it holds.
LEMMA HoldsElsewhere ==
  ASSUME NEW c, WellMade(c), Holds(c), \A p \in Buffers(c) : mem'[p] = mem[p]
  PROVE  Holds(c)'
BY BuffersOf DEF Holds

\* Nothing of what OwnIInv speaks of changes.
LEMMA OwnStays ==
  ASSUME OwnIInv, UNCHANGED <<generation, mem, live, columns, new, data, bits, ids, back, owned>>,
         pc' \notin {"validity", "view", "fill"}, pc \notin {"validity", "view", "fill"}, InAgg' <=> InAgg
  PROVE  OwnIInv'
<1>1. Building'
  BY DEF OwnIInv, Building
<1>2. Owned'
  BY DEF OwnIInv, Owned, WellMade, Buffers
<1>3. \A c \in columns : Holds(c)'
  BY DEF OwnIInv, Holds
<1> QED BY <1>1, <1>2, <1>3 DEF OwnIInv

LEMMA InitOwn == ViewsInit => OwnIInv
<1> SUFFICES ASSUME ViewsInit PROVE OwnIInv
  OBVIOUS
<1>1. Building
  BY DEF ViewsInit, Building
<1>2. Owned
  BY NoBuffers DEF ViewsInit, Owned, InAgg
<1> QED BY <1>1, <1>2 DEF ViewsInit, OwnIInv

LEMMA CreateColumnOwn ==
  ASSUME ~MayFail, AccessorIInv, OwnIInv,
         NEW p, NEW k \in Kinds, NEW n \in BOOLEAN, NEW v \in Values, CreateColumn(p, k, n, v)
  PROVE  OwnIInv'
<1>1. p \in Ptrs /\ p \notin live /\ p # Null /\ live' = live \cup {p}
  BY AllocSucceeds DEF CreateColumn
<1>2. /\ new' = [data |-> p, bits |-> Null, kind |-> k, nulls |-> n, value |-> v]
      /\ pc' = (IF n THEN "validity" ELSE "view") /\ back' = pc
      /\ pc \in {"idle", "agg_keys", "agg_parts", "rows"}
      /\ UNCHANGED <<mem, columns, data, bits, ids, owned>>
  BY DEF CreateColumn, scanning
<1>3. new = NoColumn /\ back = "idle"
  BY <1>2 DEF OwnIInv, Building
<1>4. Building'
  BY <1>1, <1>2 DEF Building, WellMade
<1>5. Buffers(new)' = {p} /\ Buffers(new) = {}
  BY <1>1, <1>2, <1>3, NoBuffers DEF Buffers
<1>6. InAgg' <=> InAgg
  BY <1>2, <1>3 DEF InAgg
<1>7. \A c \in columns : p \notin Buffers(c) /\ p # ids
  BY <1>1 DEF OwnIInv, Owned
<1>8. ids \notin {p}
  BY <1>1 DEF OwnIInv, Owned
<1>9. Owned'
  <2>1. \A c \in columns : WellMade(c)' /\ WellMade(c) /\ Buffers(c)' = Buffers(c)
    BY DEF OwnIInv, Owned, WellMade, Buffers
  <2>2. \A c \in columns : Buffers(c) \cap {p} = {} /\ ids \notin Buffers(c)
    BY <1>7 DEF OwnIInv, Owned
  <2>3. live' = (UNION {Buffers(c) : c \in columns}) \cup {p} \cup ({ids} \ {Null})
    BY <1>1, <1>5 DEF OwnIInv, Owned
  <2>4. /\ \A c, d \in columns : c # d => Buffers(c) \cap Buffers(d) = {}
        /\ IF InAgg THEN ids \in Ptrs ELSE ids = Null /\ owned = {}
        /\ owned \subseteq columns
    BY DEF OwnIInv, Owned
  <2> QED BY <1>2, <1>5, <1>6, <1>8, <2>1, <2>2, <2>3, <2>4 DEF Owned
<1>10. \A c \in columns' : Holds(c)'
  BY <1>2 DEF OwnIInv, Holds
<1> QED BY <1>4, <1>9, <1>10 DEF OwnIInv

LEMMA AllocValidityOwn ==
  ASSUME ~MayFail, AccessorIInv, OwnIInv, NEW p, AllocValidity(p)
  PROVE  OwnIInv'
<1>1. p \in Ptrs /\ p \notin live /\ p # Null /\ live' = live \cup {p}
  BY AllocSucceeds DEF AllocValidity
<1>2. /\ new' = [new EXCEPT !.bits = p] /\ pc = "validity" /\ pc' = "view"
      /\ UNCHANGED <<mem, columns, data, bits, back, ids, owned>>
  BY DEF AllocValidity, scanning
<1>3. new.data \in Ptrs /\ new.bits = Null /\ new.nulls /\ new \in ColumnType
  BY <1>2, AccessorTypes DEF OwnIInv, Building
<1>4. new'.data = new.data /\ new'.bits = p /\ new'.nulls
  BY <1>2, <1>3 DEF ColumnType
<1>5. Buffers(new) = {new.data} /\ Buffers(new)' = {new.data, p}
  BY <1>1, <1>3, <1>4, ViewsAssumption DEF Buffers
<1>6. p # new.data /\ p # ids /\ \A c \in columns : p \notin Buffers(c)
  BY <1>1, <1>5 DEF OwnIInv, Owned
<1>7. Building'
  BY <1>1, <1>2, <1>3, <1>4, <1>6 DEF Building, WellMade
<1>8. InAgg' <=> InAgg
  BY <1>2 DEF InAgg
<1>9. Owned'
  BY <1>1, <1>2, <1>5, <1>6, <1>8 DEF OwnIInv, Owned, Buffers, WellMade
<1>10. \A c \in columns' : Holds(c)'
  BY <1>2 DEF OwnIInv, Holds
<1> QED BY <1>7, <1>9, <1>10 DEF OwnIInv

LEMMA TakeViewsOwn == ASSUME AccessorIInv, OwnIInv, TakeViews PROVE OwnIInv'
<1>1. data' = generation /\ bits' = IF new.bits = Null THEN NoView ELSE generation
  BY TakeViewsAccessor
<1>2. /\ pc = "view" /\ pc' = "fill"
      /\ UNCHANGED <<generation, mem, live, columns, new, back, ids, owned>>
  BY DEF TakeViews, scanning
<1>3. Building'
  BY <1>1, <1>2 DEF OwnIInv, Building, WellMade
<1>4. Owned'
  BY <1>2 DEF OwnIInv, Owned, Buffers, WellMade, InAgg
<1>5. \A c \in columns' : Holds(c)'
  BY <1>2 DEF OwnIInv, Holds
<1> QED BY <1>3, <1>4, <1>5 DEF OwnIInv

LEMMA FillOwn == ASSUME AccessorIInv, OwnIInv, Fill PROVE OwnIInv'
<1>1. /\ mem' = IF new.bits = Null THEN WriteThrough(mem, data, new.data, new.value)
                ELSE WriteThrough(WriteThrough(mem, data, new.data, new.value), bits, new.bits, new.value)
      /\ columns' = columns \cup {new} /\ new' = NoColumn
      /\ pc = "fill" /\ pc' = (IF back = "agg_keys" THEN "agg_view" ELSE back) /\ back' = "idle"
      /\ owned' = IF back \in {"agg_keys", "agg_parts"} THEN owned \cup {new} ELSE owned
      /\ UNCHANGED <<generation, live, ids>>
  BY DEF Fill
<1>2. /\ WellMade(new) /\ data = generation /\ (new.bits # Null => bits = generation)
      /\ mem \in [Ptrs \cup {Null} -> Values \cup {Junk, GroupIds}]
      /\ back \in {"idle", "agg_keys", "agg_parts", "rows"}
  BY <1>1, AccessorTypes DEF OwnIInv, Building
<1>3. /\ mem' = IF new.bits = Null THEN [mem EXCEPT ![new.data] = new.value]
                ELSE [[mem EXCEPT ![new.data] = new.value] EXCEPT ![new.bits] = new.value]
  BY <1>1, <1>2 DEF WriteThrough
<1>4. \A p \in Ptrs \ Buffers(new) : mem'[p] = mem[p]
  <2>1. new.data \in Buffers(new) /\ (new.bits # Null => new.bits \in Buffers(new))
    BY <1>2, BuffersOf DEF WellMade
  <2> QED BY <1>2, <1>3, <2>1
<1>5. mem'[new.data] = new.value /\ (new.nulls => mem'[new.bits] = new.value)
  BY <1>2, <1>3, ViewsAssumption DEF WellMade
<1>6. Building'
  BY <1>1, <1>2 DEF Building
<1>7. InAgg' <=> InAgg
  BY <1>1, <1>2 DEF InAgg
<1>8. Buffers(new)' = {}
  BY <1>1, NoBuffers DEF Buffers
<1>9. Owned'
  <2>1. \A c \in columns' : WellMade(c) /\ ids \notin Buffers(c)
    BY <1>1, <1>2 DEF OwnIInv, Owned
  <2>2. \A c, d \in columns' : c # d => Buffers(c) \cap Buffers(d) = {}
    BY <1>1 DEF OwnIInv, Owned
  <2>3. live = (UNION {Buffers(c) : c \in columns'}) \cup ({ids} \ {Null})
    BY <1>1 DEF OwnIInv, Owned
  <2>4. IF InAgg THEN ids \in Ptrs ELSE ids = Null /\ owned = {}
    BY DEF OwnIInv, Owned
  <2>6. owned' \subseteq columns' /\ (owned' = owned \/ InAgg)
    BY <1>1 DEF OwnIInv, Owned, InAgg
  <2>5. \A c \in columns' : WellMade(c)' /\ Buffers(c)' = Buffers(c)
    BY <2>1 DEF WellMade, Buffers
  <2> QED BY <1>1, <1>7, <1>8, <2>1, <2>2, <2>3, <2>4, <2>5, <2>6 DEF Owned
<1>10. ASSUME NEW c \in columns' PROVE Holds(c)'
  <2>1. CASE c = new
    BY <1>5, <2>1 DEF Holds
  <2>2. CASE c \in columns
    <3>1. WellMade(c) /\ Holds(c) /\ Buffers(c) \cap Buffers(new) = {} /\ Buffers(c) \subseteq Ptrs
      BY <2>2, BuffersOf DEF OwnIInv, Owned
    <3> QED BY <1>4, <3>1, HoldsElsewhere
  <2> QED BY <1>1, <2>1, <2>2
<1> QED BY <1>6, <1>9, <1>10 DEF OwnIInv

LEMMA FreeColumnOwn ==
  ASSUME AccessorIInv, OwnIInv, NEW c \in columns, FreeColumn(c)
  PROVE  OwnIInv'
<1>1. /\ live' = live \ Buffers(c)
      /\ mem' = [p \in DOMAIN mem |-> IF p \in Buffers(c) THEN Junk ELSE mem[p]]
      /\ columns' = columns \ {c} /\ pc = "idle"
      /\ UNCHANGED <<generation, pc, new, data, bits, back, ids, owned>>
  BY DEF FreeColumn, Cleared, building, scanning
<1>2. Building'
  BY <1>1 DEF OwnIInv, Building, WellMade
<1>3. /\ \A d \in columns \ {c} : Buffers(c) \cap Buffers(d) = {}
      /\ Buffers(c) \cap Buffers(new) = {} /\ ids \notin Buffers(c)
  BY DEF OwnIInv, Owned
<1>4. live' = (UNION {Buffers(d) : d \in columns'}) \cup Buffers(new) \cup ({ids} \ {Null})
  <2>1. live = (UNION {Buffers(d) : d \in columns}) \cup Buffers(new) \cup ({ids} \ {Null})
    BY DEF OwnIInv, Owned
  <2> QED BY <1>1, <1>3, <2>1
<1>5. Owned'
  <2>1. owned = {}
    BY <1>1 DEF OwnIInv, Owned, Building, InAgg
  <2> QED BY <1>1, <1>4, <2>1 DEF OwnIInv, Owned, Buffers, WellMade, InAgg
<1>6. ASSUME NEW d \in columns' PROVE Holds(d)'
  <2>1. WellMade(d) /\ Holds(d) /\ Buffers(d) \subseteq Ptrs
    BY <1>1, BuffersOf DEF OwnIInv, Owned
  <2>2. \A p \in Buffers(d) : mem'[p] = mem[p]
    BY <1>1, <1>3, <2>1, AccessorTypes
  <2> QED BY <2>1, <2>2, HoldsElsewhere
<1> QED BY <1>2, <1>5, <1>6 DEF OwnIInv

LEMMA AggCallOwn ==
  ASSUME ~MayFail, AccessorIInv, OwnIInv, NEW c, NEW p, NEW n, AggCall(c, p, n)
  PROVE  OwnIInv'
<1>1. p \in Ptrs /\ p \notin live /\ p # Null /\ live' = live \cup {p}
  BY AllocSucceeds DEF AggCall
<1>2. /\ pc = "idle" /\ ids' = p /\ pc' = "agg_groups"
      /\ UNCHANGED <<mem, columns, new, data, bits, back, owned>>
  BY DEF AggCall, building
<1>3. new = NoColumn /\ back = "idle" /\ ids = Null
  BY <1>2 DEF OwnIInv, Building, Owned, InAgg
<1>4. Building'
  BY <1>2, <1>3 DEF Building
<1>5. Buffers(new) = {}
  BY <1>3, NoBuffers
<1>6. \A d \in columns : p \notin Buffers(d)
  BY <1>1 DEF OwnIInv, Owned
<1>7. Owned'
  BY <1>1, <1>2, <1>3, <1>5, <1>6 DEF OwnIInv, Owned, Buffers, WellMade, InAgg
<1>8. \A d \in columns' : Holds(d)'
  BY <1>2 DEF OwnIInv, Holds
<1> QED BY <1>4, <1>7, <1>8 DEF OwnIInv

\* A write of the group ids.
LEMMA IdsWritten ==
  ASSUME AccessorIInv, OwnIInv, NEW x, mem' = [mem EXCEPT ![ids] = x], NEW c \in columns
  PROVE  Holds(c)'
<1>1. WellMade(c) /\ Holds(c) /\ ids \notin Buffers(c) /\ Buffers(c) \subseteq Ptrs
  BY BuffersOf DEF OwnIInv, Owned
<1>2. \A p \in Buffers(c) : mem'[p] = mem[p]
  BY <1>1, AccessorTypes
<1> QED BY <1>1, <1>2, HoldsElsewhere

LEMMA ComputeGroupsOwn == ASSUME AccessorIInv, OwnIInv, ComputeGroups PROVE OwnIInv'
<1>1. /\ mem' = [mem EXCEPT ![ids] = GroupIds] /\ pc = "agg_groups" /\ pc' = "agg_keys"
      /\ UNCHANGED <<generation, live, columns, new, data, bits, back, ids, owned>>
  BY DEF ComputeGroups, building, scanning
<1>2. Building' /\ Owned'
  BY <1>1 DEF OwnIInv, Building, Owned, Buffers, WellMade, InAgg
<1> QED BY <1>1, <1>2, IdsWritten DEF OwnIInv

\* The finally clause frees the group ids and the columns it drops, and nothing
\* of another column.
LEMMA FinallyOwn ==
  ASSUME AccessorIInv, OwnIInv, NEW dropped, dropped \subseteq columns, Finally(dropped),
         pc \in {"agg_keys", "agg_parts"}
  PROVE  OwnIInv'
<1>1. /\ live' = live \ (BuffersIn(dropped) \cup {ids})
      /\ mem' = [p \in DOMAIN mem |-> IF p \in BuffersIn(dropped) \cup {ids} THEN Junk ELSE mem[p]]
      /\ columns' = columns \ dropped /\ owned' = {} /\ ids' = Null /\ pc' = "idle"
      /\ UNCHANGED <<generation, new, data, bits, back>>
  BY DEF Finally, Cleared, building
<1>2. new = NoColumn /\ back = "idle" /\ Buffers(new) = {} /\ ids \in Ptrs
  BY NoBuffers DEF OwnIInv, Building, Owned, InAgg
<1>3. Building'
  BY <1>1, <1>2 DEF Building
<1>4. \A c \in columns \ dropped : Buffers(c) \cap BuffersIn(dropped) = {} /\ ids \notin Buffers(c)
  BY DEF OwnIInv, Owned, BuffersIn
<1>5. live' = UNION {Buffers(c) : c \in columns'}
  <2>1. live = (UNION {Buffers(c) : c \in columns}) \cup {ids}
    BY <1>2, ViewsAssumption DEF OwnIInv, Owned
  <2>2. UNION {Buffers(c) : c \in columns} = (UNION {Buffers(c) : c \in columns'}) \cup BuffersIn(dropped)
    BY <1>1 DEF BuffersIn
  <2>3. (UNION {Buffers(c) : c \in columns'}) \cap (BuffersIn(dropped) \cup {ids}) = {}
    BY <1>1, <1>4
  <2> QED BY <1>1, <2>1, <2>2, <2>3
<1>6. Owned'
  <2>1. \A c \in columns' : WellMade(c)' /\ Buffers(c)' = Buffers(c) /\ Null \notin Buffers(c)
    BY <1>1 DEF OwnIInv, Owned, WellMade, Buffers
  <2>2. \A c, d \in columns' : c # d => Buffers(c) \cap Buffers(d) = {}
    BY <1>1 DEF OwnIInv, Owned
  <2>3. Buffers(new)' = {} /\ ~InAgg' /\ ids' = Null
    BY <1>1, <1>2 DEF Buffers, InAgg
  <2> QED BY <1>1, <1>5, <2>1, <2>2, <2>3 DEF Owned
<1>7. ASSUME NEW c \in columns' PROVE Holds(c)'
  <2>1. WellMade(c) /\ Holds(c) /\ Buffers(c) \subseteq Ptrs
    BY <1>1, BuffersOf DEF OwnIInv, Owned
  <2>2. \A p \in Buffers(c) : mem'[p] = mem[p]
    BY <1>1, <1>4, <2>1, AccessorTypes
  <2> QED BY <2>1, <2>2, HoldsElsewhere
<1> QED BY <1>3, <1>6, <1>7 DEF OwnIInv

LEMMA AggEndOwn == ASSUME AccessorIInv, OwnIInv, AggEnd \/ AggThrows PROVE OwnIInv'
<1>1. owned \subseteq columns
  BY DEF OwnIInv, Owned
<1> QED BY <1>1, FinallyOwn DEF AggEnd, AggThrows

LEMMA NextOwn == ASSUME ~MayFail, AccessorIInv, OwnIInv, [ViewsNext]_viewVars PROVE OwnIInv'
<1>1. CASE TakeViews \/ Fill \/ ComputeGroups \/ AggEnd \/ AggThrows
  BY <1>1, TakeViewsOwn, FillOwn, ComputeGroupsOwn, AggEndOwn
<1>2. CASE TakeIds \/ NextRow \/ RowsEnd
  <2>1. /\ UNCHANGED <<generation, mem, live, columns, new, data, bits, ids, back, owned>>
        /\ pc' \notin {"validity", "view", "fill"} /\ pc \notin {"validity", "view", "fill"}
        /\ InAgg' <=> InAgg
    BY <1>2 DEF TakeIds, NextRow, RowsEnd, building, InAgg
  <2> QED BY <2>1, OwnStays
<1>3. ASSUME NEW p \in Ptrs \cup {Null}, AllocValidity(p) PROVE OwnIInv'
  BY <1>3, AllocValidityOwn
<1>4. ASSUME NEW p \in Ptrs \cup {Null}, NEW k \in Kinds, NEW n \in BOOLEAN, NEW v \in Values, CreateColumn(p, k, n, v)
      PROVE  OwnIInv'
  BY <1>4, CreateColumnOwn
<1>5. ASSUME NEW p \in Ptrs \cup {Null}, NEW c \in columns, NEW n \in 1 .. MaxParts, AggCall(c, p, n)
      PROVE  OwnIInv'
  BY <1>5, AggCallOwn
<1>6. ASSUME NEW c \in columns, FreeColumn(c) PROVE OwnIInv'
  BY <1>6, FreeColumnOwn
<1>7. ASSUME NEW c \in columns, ReadColumn(c) \/ ReadSlice(c) \/ MakeCursor(c) PROVE OwnIInv'
  <2>1. /\ UNCHANGED <<generation, mem, live, columns, new, data, bits, ids, back, owned>>
        /\ pc' \notin {"validity", "view", "fill"} /\ pc \notin {"validity", "view", "fill"}
        /\ InAgg' <=> InAgg
    BY <1>7 DEF ReadColumn, ReadSlice, MakeCursor, building, scanning, InAgg
  <2> QED BY <2>1, OwnStays
<1>8. CASE UNCHANGED viewVars
  BY <1>8 DEF viewVars, building, scanning, OwnIInv, Building, Owned, WellMade, InAgg, Holds, Buffers
<1> QED BY <1>1, <1>2, <1>3, <1>4, <1>5, <1>6, <1>7, <1>8 DEF ViewsNext

LEMMA OwnInductive == ASSUME ~MayFail PROVE ViewsSpec => [](AccessorIInv /\ OwnIInv)
<1>1. AccessorIInv /\ OwnIInv /\ [ViewsNext]_viewVars => (AccessorIInv /\ OwnIInv)'
  BY NextAccessor, NextOwn
<1> QED BY <1>1, InitAccessor, InitOwn, PTL DEF ViewsSpec

\* Between operations the buffers in use are those of the columns and no two
\* columns share one (column.ts, freeColumn; groupby.ts, the finally of agg),
\* as long as no allocation fails: column.ts checks none.
THEOREM BuffersHaveOneOwner == ASSUME ~MayFail PROVE ViewsSpec => []BuffersOwned
<1>1. OwnIInv => BuffersOwned
  <2> SUFFICES ASSUME OwnIInv PROVE BuffersOwned
    OBVIOUS
  <2>1. ASSUME pc = "idle" PROVE live = UNION {Buffers(c) : c \in columns}
    <3>1. Buffers(new) = {} /\ ids = Null
      BY <2>1, NoBuffers DEF OwnIInv, Building, Owned, InAgg
    <3> QED BY <3>1 DEF OwnIInv, Owned
  <2> QED BY <2>1 DEF OwnIInv, Owned, BuffersOwned
<1> QED BY <1>1, OwnInductive, PTL

\* A column, and a slice of it, reads back what was written, whatever grew, was
\* freed and handed out again, or was cached for its address (columnToArray).
THEOREM ColumnsKeepTheirRows == ASSUME ~MayFail PROVE ViewsSpec => []ColumnsReadBack
<1>1. AccessorIInv /\ OwnIInv => ColumnsReadBack
  <2> SUFFICES ASSUME AccessorIInv, OwnIInv, NEW c \in columns
               PROVE  Read(c) = Written(c) /\ Read(SliceOf(c)) = Written(c)
    BY DEF ColumnsReadBack
  <2>1. c \in ColumnType /\ generation \in Nat /\ Fresh(views, generation)
    BY AccessorTypes
  <2>2. WellMade(c) /\ Holds(c)
    BY DEF OwnIInv, Owned
  <2>3. \A s : /\ s.data = c.data /\ s.bits = c.bits /\ DataKey(s) \in Keys /\ BitsKey(s) \in Keys
               => Read(s) = Written(c)
    <3> SUFFICES ASSUME NEW s, s.data = c.data, s.bits = c.bits, DataKey(s) \in Keys, BitsKey(s) \in Keys
                 PROVE  Read(s) = Written(c)
      OBVIOUS
    <3>1. /\ ViewColumn(views, s).cache[DataKey(s)] = generation
          /\ s.bits # Null => ViewColumn(views, s).cache[BitsKey(s)] = generation
      BY <2>1, ViewColumnFresh
    <3>2. /\ ReadThrough(generation, s.data) = c.value
          /\ IF c.nulls THEN s.bits # Null /\ ReadThrough(generation, s.bits) = c.value ELSE s.bits = Null
      BY <2>2, ViewsAssumption DEF ReadThrough, Holds, WellMade
    <3> QED BY <3>1, <3>2 DEF Read, Written
  <2> QED BY <2>1, <2>3, KeysOf
<1> QED BY <1>1, OwnInductive, PTL
=============================================================================
