-------------------------- MODULE HashTableProofs --------------------------
(***************************************************************************)
(* Proofs about the hash table: its chains stay unbroken, a grouping gives *)
(* equal rows one number, and a join gives each pair once and in order,    *)
(* for every column, every hash and every capacity.                        *)
(*                                                                         *)
(* The argument is that of linear probing.  A row is inserted at the first *)
(* free slot from its home, so no slot between a key and its home is free  *)
(* (Chained) and equal keys lie in the order of their rows (InRowOrder).   *)
(* A probe that meets a free slot, or has gone round, has therefore seen   *)
(* every slot of its key (SeenAll), in the order of the rows.              *)
(***************************************************************************)
EXTENDS HashTable, TLAPS, FiniteSetTheorems

-----------------------------------------------------------------------------
(* Slots, by their distance from the home of a hash in a table of c.       *)

Slots(c) == 0 .. c - 1
At(c, h, k) == (h + k) % c
Far(c, h, s) == (s - h) % c

LEMMA Division ==
  ASSUME NEW a \in Int, NEW c \in Nat \ {0}
  PROVE  a % c \in 0 .. c - 1 /\ a \div c \in Int /\ a = (c * (a \div c)) + (a % c)
BY SMT

LEMMA DivisionUnique ==
  ASSUME NEW a \in Int, NEW c \in Nat \ {0}, NEW q \in Int, NEW r \in 0 .. c - 1, a = (c * q) + r
  PROVE  a % c = r
BY SMT

\* The slot at a distance, and the distance of a slot, are inverse.
LEMMA SlotAtDistance ==
  ASSUME NEW c \in Nat \ {0}, NEW h \in Nat, NEW s \in Slots(c)
  PROVE  Far(c, h, s) \in Slots(c) /\ At(c, h, Far(c, h, s)) = s
<1> DEFINE f == (s - h) % c  q == (s - h) \div c
<1>0. s - h \in Int
  BY DEF Slots
<1>1. f \in 0 .. c - 1 /\ q \in Int /\ s - h = (c * q) + f
  BY <1>0, Division
<1> HIDE DEF f, q
<1>2. -q \in Int /\ c * q \in Int /\ c * (-q) = -(c * q)
  BY <1>1
<1>3. h + f = (c * (-q)) + s
  BY <1>1, <1>2 DEF Slots
<1>4. (h + f) % c = s
  <2>1. h + f \in Int /\ s \in 0 .. c - 1
    BY <1>1 DEF Slots
  <2> QED BY <1>2, <1>3, <2>1, DivisionUnique
<1> QED BY <1>1, <1>4 DEF f, Far, At, Slots

LEMMA DistanceOfSlot ==
  ASSUME NEW c \in Nat \ {0}, NEW h \in Nat, NEW k \in Slots(c)
  PROVE  At(c, h, k) \in Slots(c) /\ Far(c, h, At(c, h, k)) = k
<1> DEFINE a == (h + k) % c  q == (h + k) \div c
<1>0. h + k \in Int
  BY DEF Slots
<1>1. a \in 0 .. c - 1 /\ q \in Int /\ h + k = (c * q) + a
  BY <1>0, Division
<1> HIDE DEF a, q
<1>2. -q \in Int /\ c * q \in Int /\ c * (-q) = -(c * q)
  BY <1>1
<1>3. a - h = (c * (-q)) + k
  BY <1>1, <1>2 DEF Slots
<1>4. (a - h) % c = k
  BY <1>1, <1>2, <1>3, DivisionUnique DEF Slots
<1> QED BY <1>1, <1>4 DEF a, Far, At, Slots

-----------------------------------------------------------------------------
(* Tables.                                                                 *)

Entries == {Empty} \cup [key : Nat, val : Nat]

IsTable(c, tab) == DOMAIN tab = Slots(c) /\ \A s \in Slots(c) : tab[s] \in Entries

Chained(c, tab) ==
  \A s \in Slots(c) : tab[s] # Empty =>
    \A k \in 0 .. Far(c, tab[s].key, s) : tab[At(c, tab[s].key, k)] # Empty

InRowOrder(c, tab) ==
  \A s, t \in Slots(c) :
    s # t /\ tab[s] # Empty /\ tab[t] # Empty /\ tab[s].key = tab[t].key =>
      (Far(c, tab[s].key, s) < Far(c, tab[t].key, t) <=> tab[s].val < tab[t].val)

KeysDiffer(c, tab) ==
  \A s, t \in Slots(c) :
    tab[s] # Empty /\ tab[t] # Empty /\ tab[s].key = tab[t].key => s = t

\* The first n slots from the home of h are taken.
Passed(c, tab, h, n) == \A k \in 0 .. n - 1 : tab[At(c, h, k)] # Empty

LEMMA EntryFacts ==
  ASSUME NEW e \in Entries, e # Empty
  PROVE  e.key \in Nat /\ e.val \in Nat /\ e = [key |-> e.key, val |-> e.val]
BY DEF Entries

\* An entry is not the empty one.
LEMMA NotEmpty ==
  ASSUME NEW h \in Nat, NEW v \in Nat
  PROVE  /\ [key |-> h, val |-> v] # Empty /\ [key |-> h, val |-> v] \in Entries
         /\ [key |-> h, val |-> v].key = h /\ [key |-> h, val |-> v].val = v
BY DEF Empty, Entries

\* A free slot n places from home bounds the distances of the key.
LEMMA SeenAll ==
  ASSUME NEW c \in Nat \ {0}, NEW tab, IsTable(c, tab), Chained(c, tab),
         NEW h \in Nat, NEW n \in Slots(c), tab[At(c, h, n)] = Empty,
         NEW s \in Slots(c), tab[s] # Empty, tab[s].key = h
  PROVE  Far(c, h, s) < n
<1>1. Far(c, h, s) \in Slots(c)
  BY SlotAtDistance
<1>2. n \in 0 .. Far(c, h, s) => tab[At(c, h, n)] # Empty
  BY DEF Chained
<1> QED BY <1>1, <1>2 DEF Slots

Put(c, tab, h, n, v) == [tab EXCEPT ![At(c, h, n)] = [key |-> h, val |-> v]]

\* What an insertion changes.
LEMMA PutFacts ==
  ASSUME NEW c \in Nat \ {0}, NEW tab, IsTable(c, tab),
         NEW h \in Nat, NEW n \in Slots(c), NEW v \in Nat
  PROVE  LET new == Put(c, tab, h, n, v) IN
         /\ IsTable(c, new) /\ At(c, h, n) \in Slots(c)
         /\ new[At(c, h, n)] = [key |-> h, val |-> v]
         /\ \A s \in Slots(c) : s # At(c, h, n) => new[s] = tab[s]
         /\ \A s \in Slots(c) : tab[s] # Empty => new[s] # Empty
<1>1. At(c, h, n) \in Slots(c)
  BY DistanceOfSlot
<1> QED BY <1>1, NotEmpty DEF Put, IsTable

LEMMA PutKeepsChains ==
  ASSUME NEW c \in Nat \ {0}, NEW tab, IsTable(c, tab), Chained(c, tab),
         NEW h \in Nat, NEW n \in Slots(c), NEW v \in Nat, Passed(c, tab, h, n)
  PROVE  Chained(c, Put(c, tab, h, n, v))
<1> DEFINE new == Put(c, tab, h, n, v)
<1>1. /\ IsTable(c, new) /\ At(c, h, n) \in Slots(c)
      /\ new[At(c, h, n)] = [key |-> h, val |-> v]
      /\ \A s \in Slots(c) : s # At(c, h, n) => new[s] = tab[s]
      /\ \A s \in Slots(c) : tab[s] # Empty => new[s] # Empty
  BY PutFacts
<1> HIDE DEF new
<1> SUFFICES ASSUME NEW s \in Slots(c), new[s] # Empty, NEW k \in 0 .. Far(c, new[s].key, s)
             PROVE  new[At(c, new[s].key, k)] # Empty
  BY DEF Chained, new
<1>2. CASE s = At(c, h, n)
  <2>1. new[s].key = h /\ Far(c, h, s) = n
    BY <1>1, <1>2, DistanceOfSlot, NotEmpty
  <2>2. CASE k = n
    BY <1>1, <2>1, <2>2, NotEmpty
  <2>3. CASE k # n
    <3>1. k \in 0 .. n - 1 /\ k \in Slots(c)
      BY <2>1, <2>3 DEF Slots
    <3>2. tab[At(c, h, k)] # Empty /\ At(c, h, k) \in Slots(c)
      BY <3>1, DistanceOfSlot DEF Passed
    <3> QED BY <1>1, <2>1, <3>2
  <2> QED BY <2>2, <2>3
<1>3. CASE s # At(c, h, n)
  <2>1. new[s] = tab[s] /\ tab[s].key \in Nat
    BY <1>1, <1>3, EntryFacts DEF IsTable
  <2>2. tab[At(c, tab[s].key, k)] # Empty
    BY <2>1 DEF Chained
  <2>3. Far(c, tab[s].key, s) \in Slots(c)
    BY <2>1, SlotAtDistance
  <2>4. k \in Slots(c)
    BY <2>1, <2>3 DEF Slots
  <2> QED BY <1>1, <2>1, <2>2, <2>4, DistanceOfSlot
<1> QED BY <1>2, <1>3

\* A row after those in the table is put behind those of its key.
LEMMA PutKeepsRowOrder ==
  ASSUME NEW c \in Nat \ {0}, NEW tab, IsTable(c, tab), Chained(c, tab), InRowOrder(c, tab),
         NEW h \in Nat, NEW n \in Slots(c), tab[At(c, h, n)] = Empty,
         NEW v \in Nat, \A s \in Slots(c) : tab[s] # Empty => tab[s].val < v
  PROVE  InRowOrder(c, Put(c, tab, h, n, v))
<1> DEFINE new == Put(c, tab, h, n, v)
<1>1. /\ IsTable(c, new) /\ At(c, h, n) \in Slots(c)
      /\ new[At(c, h, n)] = [key |-> h, val |-> v]
      /\ \A s \in Slots(c) : s # At(c, h, n) => new[s] = tab[s]
  BY PutFacts
<1>2. /\ new[At(c, h, n)].key = h /\ new[At(c, h, n)].val = v
      /\ Far(c, h, At(c, h, n)) = n
  BY <1>1, DistanceOfSlot, NotEmpty
<1>3. \A s \in Slots(c) :
        s # At(c, h, n) /\ new[s] # Empty /\ new[s].key = h =>
          /\ new[s].val < v /\ new[s].val \in Nat
          /\ Far(c, h, s) < n /\ Far(c, h, s) \in Nat
  BY <1>1, SeenAll, SlotAtDistance, EntryFacts DEF IsTable, Slots
<1> HIDE DEF new
<1> SUFFICES ASSUME NEW s \in Slots(c), NEW t \in Slots(c), s # t,
                    new[s] # Empty, new[t] # Empty, new[s].key = new[t].key
             PROVE  Far(c, new[s].key, s) < Far(c, new[t].key, t) <=> new[s].val < new[t].val
  BY DEF InRowOrder, new
<1>4. CASE s = At(c, h, n)
  BY <1>2, <1>3, <1>4 DEF Slots
<1>5. CASE t = At(c, h, n)
  BY <1>2, <1>3, <1>5 DEF Slots
<1>6. CASE s # At(c, h, n) /\ t # At(c, h, n)
  BY <1>1, <1>6 DEF InRowOrder
<1> QED BY <1>4, <1>5, <1>6

\* A key that no passed slot holds is new.
LEMMA PutKeepsKeysDiffer ==
  ASSUME NEW c \in Nat \ {0}, NEW tab, IsTable(c, tab), Chained(c, tab), KeysDiffer(c, tab),
         NEW h \in Nat, NEW n \in Slots(c), tab[At(c, h, n)] = Empty, NEW v \in Nat,
         \A k \in 0 .. n - 1 : tab[At(c, h, k)].key # h
  PROVE  KeysDiffer(c, Put(c, tab, h, n, v))
<1> DEFINE new == Put(c, tab, h, n, v)
<1>1. /\ IsTable(c, new) /\ At(c, h, n) \in Slots(c)
      /\ new[At(c, h, n)] = [key |-> h, val |-> v]
      /\ \A s \in Slots(c) : s # At(c, h, n) => new[s] = tab[s]
  BY PutFacts
<1>2. new[At(c, h, n)].key = h
  BY <1>1, NotEmpty
<1>3. ASSUME NEW s \in Slots(c), tab[s] # Empty, tab[s].key = h
      PROVE  FALSE
  <2>1. Far(c, h, s) < n /\ Far(c, h, s) \in Slots(c) /\ At(c, h, Far(c, h, s)) = s
    BY <1>3, SeenAll, SlotAtDistance
  <2> QED BY <1>3, <2>1 DEF Slots
<1> HIDE DEF new
<1> SUFFICES ASSUME NEW s \in Slots(c), NEW t \in Slots(c),
                    new[s] # Empty, new[t] # Empty, new[s].key = new[t].key
             PROVE  s = t
  BY DEF KeysDiffer, new
<1>4. CASE s = At(c, h, n) \/ t = At(c, h, n)
  BY <1>1, <1>2, <1>3, <1>4
<1>5. CASE s # At(c, h, n) /\ t # At(c, h, n)
  BY <1>1, <1>5 DEF KeysDiffer
<1> QED BY <1>4, <1>5


-----------------------------------------------------------------------------
(* The invariant of the table.                                             *)

Wanted == IF kind = "group" THEN {"table"} ELSE {"table", "out_l", "out_r"}

ToDo == {todo[i] : i \in 1 .. Len(todo)}

InputsTyped ==
  /\ kind \in {"group", "inner", "left"}
  /\ build \in Seq(Rows) /\ probe \in Seq(Rows)

\* What the wrapper has still to allocate is what it does not hold, but for an old
\* table; a new one is zeroed.
WrapperInv ==
  pc = "alloc" =>
    /\ \/ todo \in {<< >>, <<"table">>}
       \/ /\ kind # "group"
          /\ todo \in {<<"table", "out_l", "out_r">>, <<"out_l", "out_r">>, <<"out_r">>,
                       <<"out_l", "out_r", "table">>, <<"out_r", "table">>}
    /\ held \ {"table"} = Wanted \ (ToDo \cup {"table"})
    /\ "table" \notin ToDo => "table" \in held /\ table = Zeroed(cap)

Enters(r) == kind = "group" \/ build[r] # Null
KeyOf(r) == IF kind = "group" THEN GroupHash(build[r]) ELSE build[r]

TableOK ==
  pc \in {"build", "probe"} =>
    /\ IsTable(cap, table) /\ Chained(cap, table)
    /\ IF kind = "group" THEN KeysDiffer(cap, table) ELSE InRowOrder(cap, table)

\* The row being inserted has passed taken slots only, none of its group.
BuildInv ==
  pc = "build" =>
    /\ row \in 1 .. Len(build) + 1
    /\ probes > 0 => row <= Len(build) /\ Enters(row)
    /\ row <= Len(build) /\ Enters(row) =>
         /\ Passed(cap, table, KeyOf(row), probes)
         /\ kind = "group" =>
              \A k \in 0 .. probes - 1 : table[At(cap, KeyOf(row), k)].key # KeyOf(row)
    /\ kind # "group" => \A s \in Slots(cap) : table[s] # Empty => table[s].val < row - 1

ProbeInv ==
  pc = "probe" =>
    /\ kind # "group" /\ row \in 1 .. Len(probe) + 1
    /\ probes > 0 => row <= Len(probe) /\ probe[row] # Null
    /\ row <= Len(probe) /\ probe[row] # Null => Passed(cap, table, probe[row], probes)

ChainInv == InputsTyped /\ TypeOK /\ WrapperInv /\ TableOK /\ BuildInv /\ ProbeInv


\* The hash of a null row is no valid row's.
LEMMA HashesTyped ==
  /\ \A x \in Rows : GroupHash(x) \in Hashes \cup {HNull}
  /\ \A x, y \in Rows : GroupHash(x) = GroupHash(y) => x = y
  /\ \A x \in Rows \ {Null} : x \in Hashes
  /\ Hashes \cup {HNull} \subseteq Nat
BY HashAssumption DEF GroupHash, Rows

LEMMA KeysTyped ==
  ASSUME InputsTyped, NEW r \in 1 .. Len(build), Enters(r)
  PROVE  KeyOf(r) \in Hashes \cup {HNull} /\ KeyOf(r) \in Nat
<1>1. build[r] \in Rows
  BY DEF InputsTyped
<1> QED BY <1>1, HashesTyped DEF KeyOf, Enters

LEMMA EmptyTable ==
  ASSUME NEW c \in Nat \ {0}
  PROVE  /\ IsTable(c, Zeroed(c)) /\ Chained(c, Zeroed(c))
         /\ KeysDiffer(c, Zeroed(c)) /\ InRowOrder(c, Zeroed(c))
         /\ \A s \in Slots(c) : Zeroed(c)[s] = Empty
BY DEF IsTable, Chained, KeysDiffer, InRowOrder, Zeroed, Slots, Entries

\* The loop of nextPow2 ends within the integers it shifts.
LEMMA PowersReach ==
  ASSUME NEW n \in Nat \ {0}, n <= 1073741824
  PROVE  NextPow2(n) \in Nat \ {0}
<1>1. \E p \in Powers : p >= n /\ (p = 1 \/ p < 2 * n)
  <2>1. CASE n <= 32768
    BY <2>1, SMT DEF Powers
  <2>2. CASE n > 32768 /\ n <= 8388608
    BY <2>2, SMT DEF Powers
  <2>3. CASE n > 8388608
    BY <2>3, SMT DEF Powers
  <2> QED BY <2>1, <2>2, <2>3, SMT
<1>2. NextPow2(n) \in Powers
  BY <1>1 DEF NextPow2
<1> QED BY <1>2, SMT DEF Powers

LEMMA MaxRowsType == MaxRows \in Nat /\ MaxRows >= 1 /\ MaxRows <= 536870912
BY SMT DEF MaxRows

\* What the count of pairs can be.
Counts == -CountLimit .. CountLimit - 1

LEMMA LimitsTyped ==
  /\ CountLimit \in Nat /\ Words \in Nat /\ 1 < Words /\ Words <= CountLimit
  /\ 0 \in Counts /\ Counts \subseteq Int
BY HashAssumption, SMT DEF Counts

LEMMA ChainInit == Init => ChainInv
<1> SUFFICES ASSUME Init PROVE ChainInv
  OBVIOUS
<1> USE HashAssumption DEF Init
<1>1. InputsTyped /\ Len(build) \in 0 .. MaxRows /\ Len(probe) \in Nat
  <2>1. CASE kind = "group" /\ build \in GroupInputs /\ probe = << >>
    BY <2>1, MaxRowsType DEF InputsTyped
  <2>2. CASE kind \in {"inner", "left"} /\ \E in \in JoinInputs : probe = in[1] /\ build = in[2]
    <3>1. PICK in \in JoinInputs : probe = in[1] /\ build = in[2]
      BY <2>2
    <3>2. in \in Seq(Rows) \X Seq(Rows) /\ Len(in[1]) + Len(in[2]) <= MaxRows
      BY ONLY in \in JoinInputs, HashAssumption
    <3>3. in[1] \in Seq(Rows) /\ in[2] \in Seq(Rows) /\ Len(in[1]) \in Nat /\ Len(in[2]) \in Nat
      BY <3>2
    <3> QED BY <2>2, <3>1, <3>2, <3>3, MaxRowsType DEF InputsTyped
  <2> QED BY <2>1, <2>2
<1>2. cap \in Nat \ {0}
  <2>1. NextPow2(2 * Larger(Len(build), 1)) \in Nat \ {0}
    <3>1. 2 * Larger(Len(build), 1) \in Nat \ {0} /\ 2 * Larger(Len(build), 1) <= 1073741824
      BY <1>1, MaxRowsType, SMT DEF Larger
    <3> QED BY <3>1, PowersReach
  <2> QED BY <2>1 DEF Larger, MinHtCap
<1>3. outCap \in Nat \ {0}
  BY <1>1 DEF Larger
<1>4. TypeOK
  <2>1. 0 \in 0 .. cap - 1 /\ 1 \in 1 .. Len(build) + Len(probe) + 1
    BY <1>1, <1>2, MaxRowsType
  <2>2. DOMAIN table = {}
    OBVIOUS
  <2>3. IF kind = "group" THEN total \in Nat ELSE total \in -CountLimit .. CountLimit - 1
    <3>1. total = 0 /\ 0 \in -CountLimit .. CountLimit - 1
      BY LimitsTyped DEF Counts
    <3> QED BY <3>1
  <2> QED BY <1>2, <1>3, <2>1, <2>2, <2>3 DEF TypeOK
<1>5. WrapperInv
  <2>1. ToDo = Wanted
    <3>1. CASE kind = "group"
      <4>1. Len(todo) = 1 /\ todo[1] = "table"
        BY <3>1
      <4> QED BY <3>1, <4>1 DEF ToDo, Wanted
    <3>2. CASE kind # "group"
      <4>1. Len(todo) = 3 /\ todo[1] = "table" /\ todo[2] = "out_l" /\ todo[3] = "out_r"
        BY <3>2
      <4> QED BY <3>2, <4>1 DEF ToDo, Wanted
    <3> QED BY <3>1, <3>2
  <2> QED BY <1>1, <2>1 DEF WrapperInv, InputsTyped, Wanted
<1> QED BY <1>1, <1>4, <1>5 DEF ChainInv, TableOK, BuildInv, ProbeInv

-----------------------------------------------------------------------------
(* The wrappers keep it.                                                   *)

LEMMA AllocNextKeepsChain == ChainInv /\ AllocNext => ChainInv'
<1> SUFFICES ASSUME ChainInv, AllocNext PROVE ChainInv'
  OBVIOUS
<1> USE DEF ChainInv, AllocNext, inputs
<1>1. InputsTyped'
  BY DEF InputsTyped
<1>2. cap \in Nat \ {0}
  BY DEF TypeOK
<1>3. TypeOK'
  <2>1. \A s \in DOMAIN table' : table'[s] # Empty =>
          table'[s].key \in Hashes \cup {HNull} /\ table'[s].val \in Nat
    BY <1>2, EmptyTable DEF TypeOK, Occupied, IsTable
  <2> QED BY <2>1 DEF TypeOK, Occupied
<1>4. WrapperInv'
  <2>1. Wanted' = Wanted
    BY DEF Wanted
  <2>2. CASE todo = <<"table">>
    BY <2>1, <2>2 DEF WrapperInv, ToDo
  <2>3. CASE todo = <<"out_r">>
    <3>1. ToDo = {"out_r"} /\ ToDo' = {} /\ todo' = << >>
      BY <2>3 DEF ToDo
    <3>2. Wanted = {"table", "out_l", "out_r"} /\ pc = "alloc" /\ kind # "group"
      BY <2>3 DEF WrapperInv, Wanted
    <3> QED BY <2>1, <2>3, <3>1, <3>2 DEF WrapperInv
  <2>4. CASE todo = <<"out_r", "table">>
    <3>1. ToDo = {"out_r", "table"} /\ ToDo' = {"table"} /\ todo' = <<"table">>
      BY <2>4 DEF ToDo
    <3>2. Wanted = {"table", "out_l", "out_r"} /\ pc = "alloc" /\ kind # "group"
      BY <2>4 DEF WrapperInv, Wanted
    <3> QED BY <2>1, <2>4, <3>1, <3>2 DEF WrapperInv
  <2>5. CASE todo = <<"out_l", "out_r">>
    <3>1. ToDo = {"out_l", "out_r"} /\ ToDo' = {"out_r"} /\ todo' = <<"out_r">>
      BY <2>5 DEF ToDo
    <3>2. Wanted = {"table", "out_l", "out_r"} /\ pc = "alloc" /\ kind # "group"
      BY <2>5 DEF WrapperInv, Wanted
    <3> QED BY <2>1, <2>5, <3>1, <3>2 DEF WrapperInv
  <2>6. CASE todo = <<"out_l", "out_r", "table">>
    <3>1. ToDo = {"out_l", "out_r", "table"} /\ ToDo' = {"out_r", "table"} /\ todo' = <<"out_r", "table">>
      BY <2>6 DEF ToDo
    <3>2. Wanted = {"table", "out_l", "out_r"} /\ pc = "alloc" /\ kind # "group"
      BY <2>6 DEF WrapperInv, Wanted
    <3> QED BY <2>1, <2>6, <3>1, <3>2 DEF WrapperInv
  <2>7. CASE todo = <<"table", "out_l", "out_r">>
    BY <2>1, <2>7 DEF WrapperInv, ToDo
  <2> QED BY <2>2, <2>3, <2>4, <2>5, <2>6, <2>7 DEF WrapperInv
<1> QED BY <1>1, <1>3, <1>4 DEF TableOK, BuildInv, ProbeInv

LEMMA CallKeepsChain == ChainInv /\ Call => ChainInv'
<1> SUFFICES ASSUME ChainInv, Call PROVE ChainInv'
  OBVIOUS
<1> USE DEF ChainInv, Call, inputs
<1>1. InputsTyped'
  BY DEF InputsTyped
<1>2. cap \in Nat \ {0} /\ Len(build) \in Nat /\ Len(probe) \in Nat
  BY DEF TypeOK, InputsTyped
<1>3. held = Wanted /\ table = Zeroed(cap)
  BY DEF WrapperInv, Wanted, ToDo
<1>4. TypeOK'
  <2>1. total' = 0 /\ 0 \in -CountLimit .. CountLimit - 1
    BY LimitsTyped DEF Counts
  <2> QED BY <1>2, <1>3, <2>1, EmptyTable DEF TypeOK, Occupied, Wanted, IsTable, Slots
<1>5. TableOK'
  BY <1>2, <1>3, EmptyTable DEF TableOK
<1>6. BuildInv'
  BY <1>2, <1>3, EmptyTable DEF BuildInv, Passed
<1> QED BY <1>1, <1>4, <1>5, <1>6 DEF WrapperInv, ProbeInv

LEMMA AllocFailsKeepsChain == ChainInv /\ AllocFails => ChainInv'
BY DEF ChainInv, AllocFails, inputs, InputsTyped, TypeOK, Occupied, WrapperInv, TableOK,
       BuildInv, ProbeInv

LEMMA EnlargeKeepsChain ==
  ChainInv /\ pc \in {"build", "probe"} /\ Enlarge => ChainInv'
<1> SUFFICES ASSUME ChainInv, pc \in {"build", "probe"}, Enlarge PROVE ChainInv'
  OBVIOUS
<1> USE DEF ChainInv, Enlarge, NewCap, inputs
<1>1. TypeOK'
  BY DEF TypeOK, Occupied
<1>2. WrapperInv'
  BY DEF WrapperInv, Wanted, ToDo, TypeOK
<1> QED BY <1>1, <1>2 DEF InputsTyped, TableOK, BuildInv, ProbeInv

LEMMA EnlargeOutputKeepsChain == ChainInv /\ EnlargeOutput => ChainInv'
<1> SUFFICES ASSUME ChainInv, EnlargeOutput PROVE ChainInv'
  OBVIOUS
<1> USE DEF ChainInv, EnlargeOutput, inputs
<1>1. TypeOK'
  BY DEF TypeOK, Occupied
<1>2. WrapperInv'
  BY DEF WrapperInv, Wanted, ToDo, TypeOK, ProbeInv
<1> QED BY <1>1, <1>2 DEF InputsTyped, TableOK, BuildInv, ProbeInv

LEMMA ReturnKeepsChain == ChainInv /\ Return => ChainInv'
BY DEF ChainInv, Return, inputs, InputsTyped, TypeOK, Occupied, WrapperInv, TableOK,
       BuildInv, ProbeInv

LEMMA MiscountedKeepsChain == ChainInv /\ Miscounted => ChainInv'
<1> SUFFICES ASSUME ChainInv, Miscounted PROVE ChainInv'
  OBVIOUS
<1>1. CASE total = -1
  BY <1>1, EnlargeKeepsChain DEF Miscounted
<1>2. CASE total # -1
  <2>1. /\ pc' = "failed" /\ held' = {}
        /\ UNCHANGED <<inputs, cap, table, outCap, out, total, row, probes, matched, todo>>
    BY <1>2 DEF Miscounted
  <2> QED BY <2>1 DEF ChainInv, inputs, InputsTyped, TypeOK, Occupied, WrapperInv, TableOK,
                      BuildInv, ProbeInv
<1> QED BY <1>1, <1>2


-----------------------------------------------------------------------------
(* The kernels keep it.                                                    *)

\* What a step that inserts a row starts from.
LEMMA InsertingFacts ==
  ASSUME ChainInv, Inserting
  PROVE  /\ pc = "build" /\ row \in 1 .. Len(build) /\ Len(build) \in Nat /\ Len(probe) \in Nat
         /\ cap \in Nat \ {0} /\ probes \in Slots(cap) /\ (kind = "group" => total \in Nat)
         /\ Enters(row) /\ KeyOf(row) \in Hashes \cup {HNull} /\ KeyOf(row) \in Nat
         /\ BuildHash = KeyOf(row)
         /\ SlotOf(BuildHash) = At(cap, KeyOf(row), probes)
         /\ SlotOf(BuildHash) \in Slots(cap)
         /\ IsTable(cap, table) /\ Chained(cap, table)
         /\ Passed(cap, table, KeyOf(row), probes)
<1>1. /\ pc = "build" /\ row \in 1 .. Len(build) /\ Len(build) \in Nat /\ Len(probe) \in Nat
      /\ cap \in Nat \ {0} /\ probes \in Slots(cap) /\ (kind = "group" => total \in Nat) /\ Enters(row)
  BY DEF ChainInv, Inserting, Building, BuildInv, TypeOK, Enters, Slots, InputsTyped
<1>2. KeyOf(row) \in Hashes \cup {HNull} /\ KeyOf(row) \in Nat
  BY <1>1, KeysTyped DEF ChainInv
<1>3. BuildHash = KeyOf(row) /\ SlotOf(BuildHash) = At(cap, KeyOf(row), probes)
  BY DEF BuildHash, KeyOf, SlotOf, At
<1>4. SlotOf(BuildHash) \in Slots(cap)
  BY <1>1, <1>2, <1>3, DistanceOfSlot
<1> QED BY <1>1, <1>2, <1>3, <1>4 DEF ChainInv, TableOK, BuildInv

LEMMA InsertKeepsChain == ChainInv /\ Insert => ChainInv'
<1> SUFFICES ASSUME ChainInv, Insert PROVE ChainInv'
  OBVIOUS
<1> DEFINE h == KeyOf(row)
           v == IF kind = "group" THEN total ELSE row - 1
<1>1. /\ pc = "build" /\ row \in 1 .. Len(build) /\ Len(build) \in Nat /\ Len(probe) \in Nat
      /\ cap \in Nat \ {0} /\ probes \in Slots(cap) /\ (kind = "group" => total \in Nat)
      /\ Enters(row) /\ h \in Hashes \cup {HNull} /\ h \in Nat
      /\ BuildHash = h
      /\ SlotOf(BuildHash) = At(cap, h, probes)
      /\ SlotOf(BuildHash) \in Slots(cap)
      /\ IsTable(cap, table) /\ Chained(cap, table)
      /\ Passed(cap, table, h, probes)
  BY InsertingFacts DEF Insert
<1>2. v \in Nat
  BY <1>1
<1>3. /\ table' = Put(cap, table, h, probes, v) /\ table[At(cap, h, probes)] = Empty
      /\ UNCHANGED <<kind, build, probe, cap, outCap, pc, todo, held>>
      /\ row' = row + 1 /\ probes' = 0 /\ matched' = FALSE
      /\ total' = IF kind = "group" THEN total + 1 ELSE total
  BY <1>1 DEF Insert, Put, Occupied, NextRow, inputs
<1> DEFINE new == table'
<1>4. /\ IsTable(cap, new) /\ At(cap, h, probes) \in Slots(cap)
      /\ new[At(cap, h, probes)] = [key |-> h, val |-> v]
      /\ \A s \in Slots(cap) : s # At(cap, h, probes) => new[s] = table[s]
  BY <1>1, <1>2, <1>3, PutFacts
<1>5. Chained(cap, new)
  BY <1>1, <1>2, <1>3, PutKeepsChains
<1>6. kind = "group" => KeysDiffer(cap, new)
  BY <1>1, <1>2, <1>3, PutKeepsKeysDiffer DEF ChainInv, TableOK, BuildInv
<1>7. kind # "group" => InRowOrder(cap, new)
  BY <1>1, <1>2, <1>3, PutKeepsRowOrder DEF ChainInv, TableOK, BuildInv
<1>8. InputsTyped'
  BY <1>3 DEF ChainInv, InputsTyped
<1>9. TypeOK'
  <2>1. \A s \in DOMAIN new : new[s] # Empty => new[s].key \in Hashes \cup {HNull} /\ new[s].val \in Nat
    <3> SUFFICES ASSUME NEW s \in Slots(cap), new[s] # Empty
                 PROVE  new[s].key \in Hashes \cup {HNull} /\ new[s].val \in Nat
      BY <1>4 DEF IsTable
    <3>1. CASE s = At(cap, h, probes)
      BY <1>1, <1>2, <1>4, <3>1, NotEmpty
    <3>2. CASE s # At(cap, h, probes)
      BY <1>1, <1>4, <3>2 DEF ChainInv, TypeOK, Occupied, IsTable
    <3> QED BY <3>1, <3>2
  <2>2. DOMAIN table' = 0 .. cap - 1
    BY <1>4 DEF IsTable, Slots
  <2>3. cap' \in Nat \ {0} /\ outCap' \in Nat \ {0} /\ probes' \in 0 .. cap' - 1
    BY <1>1, <1>3 DEF ChainInv, TypeOK
  <2>5. IF kind' = "group" THEN total' \in Nat ELSE total' \in -CountLimit .. CountLimit - 1
    BY <1>1, <1>3 DEF ChainInv, TypeOK
  <2>4. row' \in 1 .. Len(build) + Len(probe) + 1
    BY <1>1, <1>3
  <2> QED BY <1>1, <1>3, <2>1, <2>2, <2>3, <2>4, <2>5 DEF ChainInv, TypeOK, Occupied
<1>10. BuildInv'
  <2>1. Passed(cap', table', KeyOf(row)', probes')
    BY <1>3 DEF Passed
  <2>2. row' \in 1 .. Len(build) + 1
    BY <1>1, <1>3
  <2>3. kind # "group" => \A s \in Slots(cap) : table'[s] # Empty => table'[s].val < row' - 1
    <3> SUFFICES ASSUME kind # "group", NEW s \in Slots(cap), new[s] # Empty
                 PROVE  new[s].val < row' - 1
      OBVIOUS
    <3>1. CASE s = At(cap, h, probes)
      BY <1>1, <1>3, <1>4, <3>1, NotEmpty
    <3>2. CASE s # At(cap, h, probes)
      <4>1. table[s].val < row - 1 /\ table[s].val \in Nat
        BY <1>1, <1>4, <3>2, EntryFacts DEF ChainInv, BuildInv, IsTable
      <4> QED BY <1>1, <1>3, <1>4, <3>2, <4>1
    <3> QED BY <3>1, <3>2
  <2> QED BY <1>3, <2>1, <2>2, <2>3 DEF BuildInv
<1>11. TableOK'
  BY <1>3, <1>4, <1>5, <1>6, <1>7 DEF TableOK
<1>12. WrapperInv' /\ ProbeInv'
  BY <1>1, <1>3 DEF WrapperInv, ProbeInv
<1> QED BY <1>8, <1>9, <1>10, <1>11, <1>12 DEF ChainInv

LEMMA KnownGroupKeepsChain == ChainInv /\ KnownGroup => ChainInv'
<1> SUFFICES ASSUME ChainInv, KnownGroup PROVE ChainInv'
  OBVIOUS
<1>1. /\ pc = "build" /\ row \in 1 .. Len(build) /\ Len(build) \in Nat /\ Len(probe) \in Nat
      /\ cap \in Nat \ {0} /\ kind = "group"
  BY InsertingFacts DEF KnownGroup, Found
<1>2. /\ UNCHANGED <<kind, build, probe, cap, table, outCap, total, pc, todo, held>>
      /\ row' = row + 1 /\ probes' = 0 /\ matched' = FALSE
  BY DEF KnownGroup, NextRow, inputs
<1>3. TypeOK'
  <2>1. row' \in 1 .. Len(build) + Len(probe) + 1 /\ probes' \in 0 .. cap - 1
    BY <1>1, <1>2
  <2> QED BY <1>1, <1>2, <2>1 DEF ChainInv, TypeOK, Occupied
<1>4. BuildInv'
  BY <1>1, <1>2 DEF BuildInv, Passed
<1> QED BY <1>1, <1>2, <1>3, <1>4 DEF ChainInv, InputsTyped, TableOK, WrapperInv, ProbeInv

LEMMA BuildSkipKeepsChain == ChainInv /\ BuildSkip => ChainInv'
<1> SUFFICES ASSUME ChainInv, BuildSkip PROVE ChainInv'
  OBVIOUS
<1>1. /\ pc = "build" /\ row \in 1 .. Len(build) /\ Len(build) \in Nat /\ Len(probe) \in Nat
      /\ cap \in Nat \ {0} /\ kind # "group"
  BY DEF ChainInv, BuildSkip, Building, BuildInv, TypeOK, InputsTyped
<1>2. /\ UNCHANGED <<kind, build, probe, cap, table, outCap, total, pc, todo, held>>
      /\ row' = row + 1 /\ probes' = 0 /\ matched' = FALSE
  BY DEF BuildSkip, NextRow, inputs
<1>3. TypeOK'
  <2>1. row' \in 1 .. Len(build) + Len(probe) + 1 /\ probes' \in 0 .. cap - 1
    BY <1>1, <1>2
  <2> QED BY <1>1, <1>2, <2>1 DEF ChainInv, TypeOK, Occupied
<1>4. BuildInv'
  <2>1. \A s \in Slots(cap) : table[s] # Empty => table[s].val < row' - 1
    BY <1>1, <1>2, EntryFacts DEF ChainInv, BuildInv, TableOK, IsTable
  <2> QED BY <1>1, <1>2, <2>1 DEF BuildInv, Passed
<1> QED BY <1>1, <1>2, <1>3, <1>4 DEF ChainInv, InputsTyped, TableOK, WrapperInv, ProbeInv

LEMMA CollideKeepsChain == ChainInv /\ Collide => ChainInv'
<1> SUFFICES ASSUME ChainInv, Collide PROVE ChainInv'
  OBVIOUS
<1>1. /\ pc = "build" /\ row \in 1 .. Len(build) /\ Len(build) \in Nat
      /\ cap \in Nat \ {0} /\ probes \in Slots(cap) /\ Enters(row)
      /\ BuildHash = KeyOf(row)
      /\ SlotOf(BuildHash) = At(cap, KeyOf(row), probes)
      /\ Passed(cap, table, KeyOf(row), probes)
  BY InsertingFacts DEF Collide
<1>2. CASE LastProbe
  BY <1>1, <1>2, EnlargeKeepsChain DEF Collide
<1>3. CASE ~LastProbe
  <2>1. /\ probes' = probes + 1 /\ probes' \in 0 .. cap - 1
        /\ UNCHANGED <<kind, build, probe, cap, table, outCap, total, pc, row, matched, todo, held>>
    BY <1>1, <1>3 DEF Collide, LastProbe, Slots, inputs
  <2>2. table[At(cap, KeyOf(row), probes)] # Empty
    BY <1>1 DEF Collide, Occupied
  <2>3. kind = "group" => table[At(cap, KeyOf(row), probes)].key # KeyOf(row)
    BY <1>1 DEF Collide, Found
  <2>4. \A k \in 0 .. probes' - 1 : k \in 0 .. probes - 1 \/ k = probes
    BY <1>1, <2>1 DEF Slots
  <2>5. KeyOf(row)' = KeyOf(row) /\ Enters(row)' = Enters(row)
    BY <2>1 DEF KeyOf, Enters
  <2>6. BuildInv'
    BY <1>1, <2>1, <2>2, <2>3, <2>4, <2>5 DEF ChainInv, BuildInv, Passed
  <2>7. TypeOK'
    BY <2>1 DEF ChainInv, TypeOK, Occupied
  <2> QED BY <1>1, <2>1, <2>6, <2>7 DEF ChainInv, InputsTyped, TableOK, WrapperInv, ProbeInv
<1> QED BY <1>2, <1>3

LEMMA BuiltKeepsChain == ChainInv /\ Built => ChainInv'
<1> SUFFICES ASSUME ChainInv, Built PROVE ChainInv'
  OBVIOUS
<1>1. /\ UNCHANGED <<kind, build, probe, cap, table, outCap, total, todo, held>>
      /\ pc = "build" /\ pc' = "probe" /\ row' = 1 /\ probes' = 0 /\ matched' = FALSE /\ kind # "group"
      /\ Len(build) \in Nat /\ Len(probe) \in Nat /\ cap \in Nat \ {0}
  BY DEF ChainInv, Built, inputs, InputsTyped, TypeOK
<1>2. TypeOK'
  <2>1. row' \in 1 .. Len(build') + Len(probe') + 1 /\ probes' \in 0 .. cap' - 1
    BY <1>1
  <2>2. IF kind' = "group" THEN total' \in Nat ELSE total' \in -CountLimit .. CountLimit - 1
    BY <1>1 DEF ChainInv, TypeOK
  <2> QED BY <1>1, <2>1, <2>2 DEF ChainInv, TypeOK, Occupied
<1>3. ProbeInv'
  BY <1>1 DEF ProbeInv, Passed
<1> QED BY <1>1, <1>2, <1>3 DEF ChainInv, InputsTyped, TableOK, WrapperInv, BuildInv

\* What a step that probes the table starts from.
LEMMA ProbingFacts ==
  ASSUME ChainInv, Probing
  PROVE  /\ pc = "probe" /\ row \in 1 .. Len(probe) /\ Len(build) \in Nat /\ Len(probe) \in Nat
         /\ cap \in Nat \ {0} /\ probes \in Slots(cap) /\ total \in Counts /\ kind # "group"
         /\ IsTable(cap, table) /\ Chained(cap, table) /\ InRowOrder(cap, table)
         /\ probe[row] # Null =>
              /\ probe[row] \in Nat
              /\ SlotOf(probe[row]) = At(cap, probe[row], probes)
              /\ SlotOf(probe[row]) \in Slots(cap)
              /\ Passed(cap, table, probe[row], probes)
<1>1. /\ pc = "probe" /\ row \in 1 .. Len(probe) /\ Len(build) \in Nat /\ Len(probe) \in Nat
      /\ cap \in Nat \ {0} /\ probes \in Slots(cap) /\ total \in Counts /\ kind # "group"
      /\ IsTable(cap, table) /\ Chained(cap, table) /\ InRowOrder(cap, table)
  BY DEF ChainInv, Probing, ProbeInv, TypeOK, Slots, InputsTyped, TableOK, Counts
<1>2. ASSUME probe[row] # Null
      PROVE  /\ probe[row] \in Nat
             /\ SlotOf(probe[row]) = At(cap, probe[row], probes)
             /\ SlotOf(probe[row]) \in Slots(cap)
             /\ Passed(cap, table, probe[row], probes)
  <2>1. probe[row] \in Nat
    <3>1. probe[row] \in Rows
      BY <1>1 DEF ChainInv, InputsTyped
    <3> QED BY <1>2, <3>1, HashesTyped
  <2>2. SlotOf(probe[row]) = At(cap, probe[row], probes)
    BY DEF SlotOf, At
  <2>3. SlotOf(probe[row]) \in Slots(cap)
    BY <1>1, <2>1, <2>2, DistanceOfSlot
  <2> QED BY <1>1, <1>2, <2>1, <2>2, <2>3 DEF ChainInv, ProbeInv
<1> QED BY <1>1, <1>2

\* A count wraps and stays an i32.
LEMMA EmitKeepsCount ==
  ASSUME total \in Counts
  PROVE  /\ \A r : Emit(r) => total' \in Counts
         /\ \A found : EmitUnmatched(found) => total' \in Counts
<1>1. \A r : Emit(r) => total' \in Counts
  BY LimitsTyped DEF Emit, Counts
<1> QED BY <1>1 DEF EmitUnmatched

LEMMA ProbeNullKeepsChain == ChainInv /\ ProbeNull => ChainInv'
<1> SUFFICES ASSUME ChainInv, ProbeNull PROVE ChainInv'
  OBVIOUS
<1>1. /\ pc = "probe" /\ row \in 1 .. Len(probe) /\ Len(build) \in Nat /\ Len(probe) \in Nat
      /\ cap \in Nat \ {0} /\ total \in Counts /\ kind # "group"
  BY ProbingFacts DEF ProbeNull
<1>2. /\ UNCHANGED <<kind, build, probe, cap, table, outCap, pc, todo, held>>
      /\ row' = row + 1 /\ probes' = 0 /\ matched' = FALSE /\ total' \in Counts
  BY <1>1, EmitKeepsCount DEF ProbeNull, NextRow, inputs
<1>3. TypeOK'
  <2>1. row' \in 1 .. Len(build') + Len(probe') + 1 /\ probes' \in 0 .. cap' - 1
    BY <1>1, <1>2
  <2>2. IF kind' = "group" THEN total' \in Nat ELSE total' \in -CountLimit .. CountLimit - 1
    BY <1>1, <1>2 DEF Counts
  <2> QED BY <1>1, <1>2, <2>1, <2>2 DEF ChainInv, TypeOK, Occupied
<1>4. ProbeInv'
  BY <1>1, <1>2 DEF ProbeInv, Passed
<1> QED BY <1>1, <1>2, <1>3, <1>4 DEF ChainInv, InputsTyped, TableOK, WrapperInv, BuildInv

LEMMA ProbeSlotKeepsChain == ChainInv /\ ProbeSlot => ChainInv'
<1> SUFFICES ASSUME ChainInv, ProbeSlot PROVE ChainInv'
  OBVIOUS
<1>1. /\ pc = "probe" /\ row \in 1 .. Len(probe) /\ Len(build) \in Nat /\ Len(probe) \in Nat
      /\ cap \in Nat \ {0} /\ probes \in Slots(cap) /\ total \in Counts /\ kind # "group"
      /\ probe[row] # Null
      /\ SlotOf(probe[row]) = At(cap, probe[row], probes)
      /\ Passed(cap, table, probe[row], probes)
  BY ProbingFacts DEF ProbeSlot
<1>2. /\ UNCHANGED <<kind, build, probe, cap, table, outCap, pc, todo, held>>
      /\ total' \in Counts
  BY <1>1, EmitKeepsCount DEF ProbeSlot, inputs
<1>3. CASE NextRow
  <2>1. row' = row + 1 /\ probes' = 0 /\ matched' = FALSE
    BY <1>3 DEF NextRow
  <2>2. TypeOK'
    BY <1>1, <1>2, <2>1 DEF ChainInv, TypeOK, Occupied, Counts
  <2>3. ProbeInv'
    BY <1>1, <1>2, <2>1 DEF ProbeInv, Passed
  <2> QED BY <1>1, <1>2, <2>2, <2>3 DEF ChainInv, InputsTyped, TableOK, WrapperInv, BuildInv
<1>4. CASE ~NextRow
  <2>1. /\ table[At(cap, probe[row], probes)] # Empty /\ ~LastProbe
        /\ probes' = probes + 1 /\ row' = row /\ matched' \in BOOLEAN
    BY <1>1, <1>4 DEF ProbeSlot, ChainInv, TypeOK
  <2>2. probes' \in 0 .. cap - 1 /\ \A k \in 0 .. probes' - 1 : k \in 0 .. probes - 1 \/ k = probes
    BY <1>1, <2>1 DEF LastProbe, Slots
  <2>3. TypeOK'
    BY <1>1, <1>2, <2>1, <2>2 DEF ChainInv, TypeOK, Occupied, Counts
  <2>4. ProbeInv'
    BY <1>1, <1>2, <2>1, <2>2 DEF ProbeInv, Passed
  <2> QED BY <1>1, <1>2, <2>3, <2>4 DEF ChainInv, InputsTyped, TableOK, WrapperInv, BuildInv
<1> QED BY <1>3, <1>4

LEMMA NextKeepsChain == ChainInv /\ [Next]_vars => ChainInv'
<1>1. ChainInv /\ UNCHANGED vars => ChainInv'
  BY DEF vars, ChainInv, InputsTyped, TypeOK, Occupied, WrapperInv, Wanted, ToDo, TableOK,
         BuildInv, Enters, KeyOf, Passed, ProbeInv, Zeroed
<1> QED
  BY <1>1, AllocNextKeepsChain, CallKeepsChain, AllocFailsKeepsChain, EnlargeOutputKeepsChain,
     ReturnKeepsChain, MiscountedKeepsChain, BuildSkipKeepsChain, InsertKeepsChain, KnownGroupKeepsChain,
     CollideKeepsChain, BuiltKeepsChain, ProbeNullKeepsChain, ProbeSlotKeepsChain DEF Next

LEMMA ChainInductive == Spec => []ChainInv
BY ChainInit, NextKeepsChain, PTL DEF Spec

\* In the words of the runs.
LEMMA ChainGivesTable == ChainInv => TableInv
<1> SUFFICES ASSUME ChainInv, pc \in {"build", "probe"} PROVE ChainsUnbroken
  BY DEF ChainInv, TableInv, ChainsUnbroken
<1>1. /\ cap \in Nat \ {0} /\ IsTable(cap, table) /\ Chained(cap, table)
      /\ IF kind = "group" THEN KeysDiffer(cap, table) ELSE InRowOrder(cap, table)
  BY DEF ChainInv, TypeOK, TableOK
<1>2. \A s \in Slots(cap) : Distance(s) = Far(cap, table[s].key, s)
  BY DEF Distance, Far
<1>3. ASSUME NEW s \in Slots(cap), Occupied(s), NEW k \in 0 .. Distance(s)
      PROVE  Occupied((table[s].key + k) % cap)
  <2>1. table[At(cap, table[s].key, k)] # Empty
    BY <1>1, <1>2, <1>3 DEF Chained, Occupied
  <2> QED BY <2>1 DEF At, Occupied
<1>4. ASSUME NEW s \in Slots(cap), NEW t \in Slots(cap), s # t, Occupied(s),
             table[s].key = table[t].key
      PROVE  /\ kind # "group"
             /\ Distance(s) < Distance(t) <=> table[s].val < table[t].val
  <2>1. table[t] # Empty
    BY <1>1, <1>4, EntryFacts DEF IsTable, Occupied, Empty
  <2> QED BY <1>1, <1>2, <1>4, <2>1 DEF KeysDiffer, InRowOrder, Occupied
<1>5. DOMAIN table = Slots(cap)
  BY <1>1 DEF IsTable
<1> QED BY <1>3, <1>4, <1>5 DEF ChainsUnbroken

\* A probe that ends at a free slot has seen every row of its key, in the order of
\* the rows: however a table was filled, and however often it was enlarged.
THEOREM ProbesReachTheirKeys == Spec => []TableInv
BY ChainInductive, ChainGivesTable, PTL


-----------------------------------------------------------------------------
(* Grouping.                                                               *)

Grouped(n) == {build[i] : i \in 1 .. n - 1}

\* The first row - 1 rows are numbered, and the table holds their groups.
NumbersOK ==
  /\ row \in 1 .. Len(build) + 1
  /\ out \in Seq(Nat) /\ Len(out) = row - 1 /\ total \in Nat
  /\ \A i \in 1 .. row - 1 : out[i] < total
  /\ \A i, j \in 1 .. row - 1 : out[i] = out[j] <=> build[i] = build[j]
  /\ \A g \in 0 .. total - 1 : \E j \in 1 .. row - 1 : out[j] = g
  /\ \A i \in 1 .. row - 1 : \A g \in 0 .. out[i] - 1 : \E j \in 1 .. i - 1 : out[j] = g
  /\ IsFiniteSet(Grouped(row)) /\ total = Cardinality(Grouped(row))

GroupTable ==
  /\ \A s \in Slots(cap) : table[s] # Empty =>
       \E i \in 1 .. row - 1 : table[s] = [key |-> GroupHash(build[i]), val |-> out[i]]
  /\ \A i \in 1 .. row - 1 : \E s \in Slots(cap) :
       table[s] # Empty /\ table[s].key = GroupHash(build[i])

GroupInv ==
  kind = "group" =>
    /\ pc = "build" => NumbersOK /\ GroupTable
    /\ pc = "done" => NumbersOK /\ row = Len(build) + 1

LEMMA GroupInit == Init => GroupInv
BY DEF Init, GroupInv

LEMMA CallKeepsGroup == ChainInv /\ Call => GroupInv'
<1> SUFFICES ASSUME ChainInv, Call PROVE GroupInv'
  OBVIOUS
<1>1. /\ cap' = cap /\ table' = table /\ pc' = "build" /\ row' = 1 /\ out' = << >> /\ total' = 0
      /\ build' = build /\ Len(build) \in Nat /\ cap \in Nat \ {0}
  BY DEF ChainInv, InputsTyped, TypeOK, Call, inputs
<1>2. table = Zeroed(cap)
  BY DEF ChainInv, Call, WrapperInv, ToDo
<1>3. Grouped(row)' = {}
  BY <1>1 DEF Grouped
<1>4. NumbersOK'
  BY <1>1, <1>3, FS_EmptySet DEF NumbersOK
<1>5. GroupTable'
  BY <1>1, <1>2, EmptyTable DEF GroupTable
<1> QED BY <1>1, <1>4, <1>5 DEF GroupInv

\* A row that a group is found for.
LEMMA KnownGroupKeepsGroup == ChainInv /\ GroupInv /\ KnownGroup => GroupInv'
<1> SUFFICES ASSUME ChainInv, GroupInv, KnownGroup PROVE GroupInv'
  OBVIOUS
<1> DEFINE s == SlotOf(BuildHash)
<1>1. /\ pc = "build" /\ row \in 1 .. Len(build) /\ Len(build) \in Nat /\ kind = "group"
      /\ KeyOf(row) = BuildHash /\ BuildHash = GroupHash(build[row]) /\ s \in Slots(cap)
  BY InsertingFacts DEF KnownGroup, Found, KeyOf
<1>2. /\ table[s] # Empty /\ table[s].key = BuildHash
      /\ UNCHANGED <<kind, build, probe, cap, table, outCap, total, pc>>
      /\ row' = row + 1 /\ out' = Append(out, table[s].val)
  BY DEF KnownGroup, Found, Occupied, NextRow, inputs
<1> HIDE DEF s
<1>3. NumbersOK /\ GroupTable
  BY <1>1 DEF GroupInv
<1>4. PICK i0 \in 1 .. row - 1 : table[s] = [key |-> GroupHash(build[i0]), val |-> out[i0]]
  BY <1>1, <1>2, <1>3 DEF GroupTable
<1>5. build[i0] = build[row] /\ table[s].val = out[i0]
  <2>1. build[i0] \in Rows /\ build[row] \in Rows
    BY <1>1 DEF ChainInv, InputsTyped
  <2> QED BY <1>1, <1>2, <1>4, <2>1, HashesTyped
<1>6. /\ out' \in Seq(Nat) /\ Len(out') = row' - 1
      /\ out'[row] = out[i0] /\ \A i \in 1 .. row - 1 : out'[i] = out[i]
  BY <1>1, <1>2, <1>3, <1>5 DEF NumbersOK
<1>7. \A i \in 1 .. row' - 1 : i \in 1 .. row - 1 \/ i = row
  BY <1>1, <1>2
<1>8. Grouped(row)' = Grouped(row)
  <2>1. build[row] \in Grouped(row)
    BY <1>4, <1>5 DEF Grouped
  <2>2. Grouped(row)' = Grouped(row) \cup {build[row]}
    BY <1>1, <1>2, <1>7 DEF Grouped
  <2> QED BY <2>1, <2>2
<1>9. row' \in 1 .. Len(build) + 1 /\ 1 .. row - 1 \subseteq 1 .. row' - 1
  BY <1>1, <1>2
<1>10. NumbersOK'
  <2>1. \A i \in 1 .. row' - 1 : out'[i] < total
    BY <1>3, <1>4, <1>6, <1>7 DEF NumbersOK
  <2>2. \A i, j \in 1 .. row' - 1 : out'[i] = out'[j] <=> build[i] = build[j]
    <3>1. \A i \in 1 .. row - 1 : out'[i] = out'[row] <=> build[i] = build[row]
      BY <1>3, <1>4, <1>5, <1>6 DEF NumbersOK
    <3>2. \A i, j \in 1 .. row - 1 : out'[i] = out'[j] <=> build[i] = build[j]
      BY <1>3, <1>6 DEF NumbersOK
    <3> QED BY <1>7, <3>1, <3>2
  <2>3. \A g \in 0 .. total - 1 : \E j \in 1 .. row' - 1 : out'[j] = g
    BY <1>3, <1>6, <1>9 DEF NumbersOK
  <2>4. ASSUME NEW i \in 1 .. row' - 1, NEW g \in 0 .. out'[i] - 1
        PROVE  \E j \in 1 .. i - 1 : out'[j] = g
    <3>1. CASE i \in 1 .. row - 1
      <4>1. PICK j \in 1 .. i - 1 : out[j] = g
        BY <1>3, <1>6, <3>1 DEF NumbersOK
      <4> QED BY <1>1, <1>6, <3>1, <4>1
    <3>2. CASE i = row
      <4>1. PICK j \in 1 .. i0 - 1 : out[j] = g
        BY <1>3, <1>4, <1>6, <3>2 DEF NumbersOK
      <4>2. j \in 1 .. i - 1 /\ j \in 1 .. row - 1
        BY <1>1, <1>4, <3>2, <4>1
      <4> QED BY <1>6, <4>1, <4>2
    <3> QED BY <1>7, <3>1, <3>2
  <2> QED BY <1>2, <1>3, <1>6, <1>8, <1>9, <2>1, <2>2, <2>3, <2>4 DEF NumbersOK
<1>11. GroupTable'
  <2>1. ASSUME NEW t \in Slots(cap), table[t] # Empty
        PROVE  \E i \in 1 .. row' - 1 : table[t] = [key |-> GroupHash(build[i]), val |-> out'[i]]
    <3>1. PICK i \in 1 .. row - 1 : table[t] = [key |-> GroupHash(build[i]), val |-> out[i]]
      BY <1>3, <2>1 DEF GroupTable
    <3>2. i \in 1 .. row' - 1 /\ out'[i] = out[i]
      BY <1>6, <1>9
    <3> QED BY <3>1, <3>2
  <2>2. ASSUME NEW i \in 1 .. row' - 1
        PROVE  \E t \in Slots(cap) : table[t] # Empty /\ table[t].key = GroupHash(build[i])
    BY <1>1, <1>2, <1>3, <1>7 DEF GroupTable
  <2> QED BY <1>2, <2>1, <2>2 DEF GroupTable
<1> QED BY <1>1, <1>2, <1>10, <1>11 DEF GroupInv

\* A row that opens a group.
LEMMA InsertKeepsGroup == ChainInv /\ GroupInv /\ Insert => GroupInv'
<1> SUFFICES ASSUME ChainInv, GroupInv, Insert, kind = "group" PROVE GroupInv'
  BY DEF GroupInv, Insert, inputs
<1> DEFINE h == KeyOf(row)
<1>1. /\ pc = "build" /\ row \in 1 .. Len(build) /\ Len(build) \in Nat
      /\ cap \in Nat \ {0} /\ probes \in Slots(cap) /\ total \in Nat
      /\ h \in Nat /\ BuildHash = h /\ Enters(row)
      /\ SlotOf(BuildHash) = At(cap, h, probes)
      /\ IsTable(cap, table) /\ Chained(cap, table)
  BY InsertingFacts DEF Insert
<1>2. /\ table' = Put(cap, table, h, probes, total) /\ table[At(cap, h, probes)] = Empty
      /\ UNCHANGED <<kind, build, probe, cap, pc>>
      /\ row' = row + 1 /\ out' = Append(out, total) /\ total' = total + 1
  BY <1>1 DEF Insert, Put, Occupied, NextRow, inputs
<1>3. NumbersOK /\ GroupTable /\ h = GroupHash(build[row])
  BY <1>1 DEF GroupInv, KeyOf
<1>4. \A i \in 1 .. row - 1 : build[i] # build[row]
  <2> SUFFICES ASSUME NEW i \in 1 .. row - 1, build[i] = build[row] PROVE FALSE
    OBVIOUS
  <2>1. PICK s \in Slots(cap) : table[s] # Empty /\ table[s].key = h
    BY <1>3 DEF GroupTable
  <2>2. Far(cap, h, s) < probes /\ Far(cap, h, s) \in Slots(cap) /\ At(cap, h, Far(cap, h, s)) = s
    BY <1>1, <1>2, <2>1, SeenAll, SlotAtDistance
  <2>3. \A k \in 0 .. probes - 1 : table[At(cap, h, k)].key # h
    BY <1>1 DEF ChainInv, BuildInv
  <2> QED BY <1>1, <2>1, <2>2, <2>3 DEF Slots
<1>5. /\ IsTable(cap, table') /\ At(cap, h, probes) \in Slots(cap)
      /\ table'[At(cap, h, probes)] = [key |-> h, val |-> total]
      /\ \A s \in Slots(cap) : s # At(cap, h, probes) => table'[s] = table[s]
      /\ \A s \in Slots(cap) : table[s] # Empty => table'[s] # Empty
  BY <1>1, <1>2, PutFacts
<1> HIDE DEF h
<1>6. /\ out' \in Seq(Nat) /\ Len(out') = row' - 1
      /\ out'[row] = total /\ \A i \in 1 .. row - 1 : out'[i] = out[i]
  BY <1>1, <1>2, <1>3 DEF NumbersOK
<1>7. \A i \in 1 .. row' - 1 : i \in 1 .. row - 1 \/ i = row
  BY <1>1, <1>2
<1>8. IsFiniteSet(Grouped(row)') /\ Cardinality(Grouped(row)') = total + 1
  <2>1. build[row] \notin Grouped(row)
    BY <1>4 DEF Grouped
  <2>2. Grouped(row)' = Grouped(row) \cup {build[row]}
    <3>1. build' = build /\ row \in 1 .. row' - 1 /\ \A i \in 1 .. row - 1 : i \in 1 .. row' - 1
      BY <1>1, <1>2
    <3> QED BY <1>7, <3>1 DEF Grouped
  <2> QED BY <1>3, <2>1, <2>2, FS_AddElement DEF NumbersOK
<1>9. row' \in 1 .. Len(build) + 1 /\ 1 .. row - 1 \subseteq 1 .. row' - 1 /\ row \in 1 .. row' - 1
  BY <1>1, <1>2
<1>10. NumbersOK'
  <2>1. \A i \in 1 .. row' - 1 : out'[i] < total'
    <3>1. \A i \in 1 .. row - 1 : out[i] \in Nat /\ out[i] < total
      BY <1>3 DEF NumbersOK
    <3> QED BY <1>1, <1>2, <1>6, <1>7, <3>1
  <2>2. \A i, j \in 1 .. row' - 1 : out'[i] = out'[j] <=> build[i] = build[j]
    <3>1. \A i \in 1 .. row - 1 : out[i] # total
      BY <1>3 DEF NumbersOK
    <3>2. \A i, j \in 1 .. row - 1 : out'[i] = out'[j] <=> build[i] = build[j]
      BY <1>3, <1>6 DEF NumbersOK
    <3>3. \A i \in 1 .. row - 1 : out'[i] # out'[row] /\ build[i] # build[row]
      BY <1>4, <1>6, <3>1
    <3> QED BY <1>7, <3>2, <3>3
  <2>3. \A g \in 0 .. total' - 1 : \E j \in 1 .. row' - 1 : out'[j] = g
    <3> SUFFICES ASSUME NEW g \in 0 .. total' - 1 PROVE \E j \in 1 .. row' - 1 : out'[j] = g
      OBVIOUS
    <3>1. CASE g = total
      BY <1>6, <1>9, <3>1
    <3>2. CASE g # total
      <4>1. g \in 0 .. total - 1
        BY <1>1, <1>2, <3>2
      <4> QED BY <1>3, <1>6, <1>9, <4>1 DEF NumbersOK
    <3> QED BY <3>1, <3>2
  <2>4. ASSUME NEW i \in 1 .. row' - 1, NEW g \in 0 .. out'[i] - 1
        PROVE  \E j \in 1 .. i - 1 : out'[j] = g
    <3>1. CASE i \in 1 .. row - 1
      <4>1. PICK j \in 1 .. i - 1 : out[j] = g
        BY <1>3, <1>6, <3>1 DEF NumbersOK
      <4> QED BY <1>1, <1>6, <3>1, <4>1
    <3>2. CASE i = row
      <4>1. PICK j \in 1 .. row - 1 : out[j] = g
        BY <1>3, <1>6, <3>2 DEF NumbersOK
      <4> QED BY <1>6, <3>2, <4>1
    <3> QED BY <1>7, <3>1, <3>2
  <2>5. build' = build /\ total' \in Nat /\ total' = total + 1
    BY <1>1, <1>2
  <2> QED BY <1>6, <1>8, <1>9, <2>1, <2>2, <2>3, <2>4, <2>5 DEF NumbersOK
<1>11. GroupTable'
  <2>1. ASSUME NEW t \in Slots(cap), table'[t] # Empty
        PROVE  \E i \in 1 .. row' - 1 : table'[t] = [key |-> GroupHash(build[i]), val |-> out'[i]]
    <3>1. CASE t = At(cap, h, probes)
      BY <1>3, <1>5, <1>6, <1>9, <3>1
    <3>2. CASE t # At(cap, h, probes)
      <4>1. table'[t] = table[t]
        BY <1>5, <3>2
      <4>2. PICK i \in 1 .. row - 1 : table[t] = [key |-> GroupHash(build[i]), val |-> out[i]]
        BY <1>3, <2>1, <4>1 DEF GroupTable
      <4>3. i \in 1 .. row' - 1 /\ out'[i] = out[i]
        BY <1>6, <1>9
      <4> QED BY <4>1, <4>2, <4>3
    <3> QED BY <3>1, <3>2
  <2>2. ASSUME NEW i \in 1 .. row' - 1
        PROVE  \E t \in Slots(cap) : table'[t] # Empty /\ table'[t].key = GroupHash(build[i])
    <3>1. CASE i = row
      BY <1>1, <1>3, <1>5, <3>1, NotEmpty
    <3>2. CASE i \in 1 .. row - 1
      <4>1. PICK t \in Slots(cap) : table[t] # Empty /\ table[t].key = GroupHash(build[i])
        BY <1>3, <3>2 DEF GroupTable
      <4> QED BY <1>2, <1>5, <4>1
    <3> QED BY <1>7, <3>1, <3>2
  <2> QED BY <1>2, <2>1, <2>2 DEF GroupTable
<1> QED BY <1>1, <1>2, <1>10, <1>11 DEF GroupInv

LEMMA NextKeepsGroup == ChainInv /\ GroupInv /\ [Next]_vars => GroupInv'
<1> SUFFICES ASSUME ChainInv, GroupInv, [Next]_vars PROVE GroupInv'
  OBVIOUS
<1>1. ASSUME \/ AllocNext \/ AllocFails \/ EnlargeOutput \/ BuildSkip \/ Built \/ ProbeNull \/ ProbeSlot
             \/ Miscounted
      PROVE  GroupInv'
  BY <1>1 DEF GroupInv, ChainInv, ProbeInv, AllocNext, AllocFails, EnlargeOutput, BuildSkip, Built,
              ProbeNull, ProbeSlot, Probing, Miscounted, Enlarge, inputs
<1>2. ASSUME Return PROVE GroupInv'
  <2>1. /\ UNCHANGED <<kind, build, total, row>> /\ pc' = "done"
        /\ kind = "group" => pc = "build" /\ row > Len(build) /\ out' = out
    BY <1>2 DEF Return, ChainInv, ProbeInv, inputs
  <2>2. Grouped(row)' = Grouped(row)
    BY <2>1 DEF Grouped
  <2>4. kind = "group" /\ NumbersOK => NumbersOK'
    BY <2>1, <2>2 DEF NumbersOK
  <2>3. Len(build) \in Nat
    BY DEF ChainInv, InputsTyped
  <2> QED BY <2>1, <2>3, <2>4 DEF GroupInv, NumbersOK
<1>3. ASSUME Collide PROVE GroupInv'
  <2>1. CASE LastProbe
    BY <1>3, <2>1 DEF Collide, Enlarge, GroupInv
  <2>2. CASE ~LastProbe
    BY <1>3, <2>2 DEF Collide, Inserting, Building, GroupInv, NumbersOK, Grouped, GroupTable, inputs
  <2> QED BY <2>1, <2>2
<1>4. ASSUME UNCHANGED vars PROVE GroupInv'
  <2>1. (NumbersOK => NumbersOK') /\ (GroupTable => GroupTable')
    BY <1>4 DEF vars, NumbersOK, Grouped, GroupTable
  <2> QED BY <1>4, <2>1 DEF vars, GroupInv
<1> QED BY <1>1, <1>2, <1>3, <1>4, CallKeepsGroup, InsertKeepsGroup, KnownGroupKeepsGroup DEF Next

\* Rows get the same number exactly when they are equal, and numbers are given in
\* the order of first occurrence, whatever collides and however often the table is
\* enlarged and filled again.
THEOREM GroupsAreExact == Spec => []GroupsExact
<1>1. ChainInv /\ GroupInv => GroupsExact
  <2> SUFFICES ASSUME ChainInv, GroupInv, pc = "done", kind = "group"
               PROVE  GroupsExact
    BY DEF GroupsExact
  <2>1. NumbersOK /\ row - 1 = Len(build) /\ Len(build) \in Nat
    BY DEF GroupInv, ChainInv, InputsTyped
  <2> QED BY <2>1 DEF NumbersOK, Grouped, GroupsExact
<1> QED BY <1>1, ChainInit, NextKeepsChain, GroupInit, NextKeepsGroup, PTL DEF Spec


-----------------------------------------------------------------------------
(* Joining.                                                                *)

Pairs == Int \X Int

\* o lists the pairs of S in the order of a join, t of them.
Lists(o, t, S) ==
  /\ o \in Seq(Pairs) /\ Len(o) = t /\ {o[i] : i \in 1 .. Len(o)} = S
  /\ \A i, j \in 1 .. Len(o) : i < j => Before(o[i], o[j])

\* The table holds the rows of the right column before row n.
JoinTable(n) ==
  /\ \A s \in Slots(cap) : table[s] # Empty =>
       \E r \in 1 .. n - 1 : build[r] # Null /\ table[s] = [key |-> build[r], val |-> r - 1]
  /\ \A r \in 1 .. n - 1 : build[r] # Null =>
       \E s \in Slots(cap) : table[s] = [key |-> build[r], val |-> r - 1]

\* The slots that match the left row within n places of its home.
Seen(n) ==
  IF n = 0 THEN {}
  ELSE {s \in Slots(cap) : table[s] # Empty /\ table[s].key = probe[row] /\ Far(cap, probe[row], s) < n}
Given(S) == {<<row - 1, table[s].val>> : s \in S}
RowsBefore(n) == {p \in Expected : p[1] < n - 1}


\* The pairs of G were counted, without wrapping, and listed if there is room.
Counted(o, t, G) ==
  /\ G \subseteq Expected /\ t = Cardinality(G)
  /\ o \in Seq(Pairs) /\ Len(o) <= outCap
  /\ t <= outCap => Lists(o, t, G)

EmitInv ==
  /\ matched <=> Seen(probes) # {}
  /\ Counted(out, total, RowsBefore(row) \cup Given(Seen(probes)))

\* Memory could hold the result.
Fits == kind # "group" /\ Cardinality(Expected) < Words

JoinInv ==
  Fits =>
    /\ out \in Seq(Pairs) /\ Len(out) <= outCap /\ outCap < Words
    /\ pc = "build" => total = 0 /\ out = << >> /\ JoinTable(row)
    /\ pc = "probe" => JoinTable(Len(build) + 1) /\ EmitInv
    /\ pc = "done" => Lists(out, total, Expected)

LEMMA ListsOneMore ==
  ASSUME NEW o, NEW t \in Nat, NEW S, Lists(o, t, S), NEW p \in Pairs, \A q \in S : Before(q, p)
  PROVE  Lists(Append(o, p), t + 1, S \cup {p})
<1> DEFINE a == Append(o, p)
<1>1. /\ o \in Seq(Pairs) /\ Len(o) = t /\ {o[i] : i \in 1 .. t} = S
      /\ \A i, j \in 1 .. t : i < j => Before(o[i], o[j])
  BY DEF Lists
<1>2. /\ a \in Seq(Pairs) /\ Len(a) = t + 1 /\ a[t + 1] = p
      /\ \A i \in 1 .. t : a[i] = o[i]
  BY <1>1
<1>3. \A i \in 1 .. t + 1 : i \in 1 .. t \/ i = t + 1
  OBVIOUS
<1>4. 1 .. t \subseteq 1 .. t + 1 /\ t + 1 \in 1 .. t + 1
  OBVIOUS
<1> HIDE DEF a
<1>5. {a[i] : i \in 1 .. t + 1} = S \cup {p}
  BY <1>1, <1>2, <1>3, <1>4
<1>6. ASSUME NEW i \in 1 .. t + 1, NEW j \in 1 .. t + 1, i < j
      PROVE  Before(a[i], a[j])
  <2>1. i \in 1 .. t
    BY <1>6
  <2>2. CASE j \in 1 .. t
    BY <1>1, <1>2, <1>6, <2>1, <2>2
  <2>3. CASE j = t + 1
    <3>1. o[i] \in S
      BY <1>1, <2>1
    <3> QED BY <1>2, <2>1, <2>3, <3>1
  <2> QED BY <1>3, <2>2, <2>3
<1> QED BY <1>2, <1>5, <1>6 DEF Lists, a

LEMMA ListsNothing == Lists(<< >>, 0, {})
BY DEF Lists

-----------------------------------------------------------------------------
(* The pairs a left row is to give.                                        *)

LEMMA ExpectedTyped ==
  ASSUME InputsTyped
  PROVE  /\ Len(build) \in Nat /\ Len(probe) \in Nat
         /\ \A p \in Expected : p[1] \in 0 .. Len(probe) - 1 /\ p[2] \in Int /\ p = <<p[1], p[2]>>
<1>1. Len(build) \in Nat /\ Len(probe) \in Nat
  BY DEF InputsTyped
<1> SUFFICES ASSUME NEW p \in Expected
             PROVE  p[1] \in 0 .. Len(probe) - 1 /\ p[2] \in Int /\ p = <<p[1], p[2]>>
  BY <1>1
<1>2. CASE \E m \in Matches : p = <<m[1] - 1, m[2] - 1>>
  <2>1. PICK m \in Matches : p = <<m[1] - 1, m[2] - 1>>
    BY <1>2
  <2>2. m[1] \in 1 .. Len(probe) /\ m[2] \in 1 .. Len(build)
    BY DEF Matches
  <2> QED BY <1>1, <2>1, <2>2
<1>3. CASE \E l \in Unmatched : p = <<l - 1, -1>>
  <2>1. PICK l \in 1 .. Len(probe) : p = <<l - 1, -1>>
    BY <1>3 DEF Unmatched
  <2> QED BY <1>1, <2>1
<1> QED BY <1>2, <1>3 DEF Expected

LEMMA ExpectedFinite ==
  ASSUME InputsTyped
  PROVE  /\ IsFiniteSet(Expected)
         /\ \A G \in SUBSET Expected :
              IsFiniteSet(G) /\ Cardinality(G) \in Nat /\ Cardinality(G) <= Cardinality(Expected)
<1> DEFINE P == (0 .. Len(probe) - 1) \X (-1 .. Len(build) - 1)
<1>1. IsFiniteSet(0 .. Len(probe) - 1) /\ IsFiniteSet(-1 .. Len(build) - 1)
  <2>1. 0 \in Int /\ -1 \in Int /\ Len(probe) - 1 \in Int /\ Len(build) - 1 \in Int
    BY ExpectedTyped
  <2> QED BY <2>1, FS_Interval
<1>2. IsFiniteSet(P)
  BY <1>1, FS_Product
<1>3. Expected \subseteq P
  <2> SUFFICES ASSUME NEW p \in Expected PROVE p \in P
    OBVIOUS
  <2>1. p[1] \in 0 .. Len(probe) - 1 /\ p = <<p[1], p[2]>> /\ Len(build) \in Nat
    BY ExpectedTyped
  <2>2. p[2] \in -1 .. Len(build) - 1
    <3>1. CASE \E m \in Matches : p = <<m[1] - 1, m[2] - 1>>
      <4>1. PICK m \in Matches : p = <<m[1] - 1, m[2] - 1>>
        BY <3>1
      <4>2. m[2] \in 1 .. Len(build)
        BY DEF Matches
      <4> QED BY <2>1, <4>1, <4>2
    <3>2. CASE \E l \in Unmatched : p = <<l - 1, -1>>
      BY <2>1, <3>2
    <3> QED BY <3>1, <3>2 DEF Expected
  <2> QED BY <2>1, <2>2
<1>4. IsFiniteSet(Expected)
  BY <1>2, <1>3, FS_Subset
<1> QED BY <1>4, FS_Subset, FS_CardinalityType

\* Emitting a pair that follows those counted; the list is given up when it is full.
LEMMA Emits ==
  ASSUME InputsTyped, Fits, outCap \in Nat, row \in Nat, NEW G, Counted(out, total, G),
         NEW r \in Int, <<row - 1, r>> \in Expected, Emit(r), \A q \in G : Before(q, <<row - 1, r>>)
  PROVE  Counted(out', total', G \cup {<<row - 1, r>>})
<1> DEFINE p == <<row - 1, r>>
<1>1. p \in Pairs /\ ~Before(p, p)
  BY DEF Pairs, Before
<1>2. G \in SUBSET Expected /\ total = Cardinality(G) /\ IsFiniteSet(G) /\ total \in Nat
  BY ExpectedFinite DEF Counted
<1>3. p \notin G
  BY <1>1
<1>4. G \cup {p} \in SUBSET Expected /\ Cardinality(G \cup {p}) = total + 1
  BY <1>2, <1>3, FS_AddElement DEF Counted
<1>5. total + 1 < Words /\ Words <= CountLimit /\ CountLimit \in Nat /\ Words \in Nat
  <2>1. total + 1 <= Cardinality(Expected) /\ Cardinality(Expected) \in Nat
    BY <1>4, ExpectedFinite
  <2> QED BY <1>2, <2>1, LimitsTyped DEF Fits
<1>6. total' = total + 1 /\ total % CountLimit = total /\ out' = Stored(p)
  BY <1>2, <1>5 DEF Emit
<1> HIDE DEF p
<1>7. CASE total >= outCap
  <2>1. out' = out
    BY <1>6, <1>7 DEF Stored
  <2> QED BY <1>2, <1>4, <1>6, <1>7, <2>1 DEF Counted, p
<1>8. CASE ~(total >= outCap)
  <2>1. Lists(out, total, G) /\ total < outCap
    BY <1>2, <1>8 DEF Counted
  <2>2. Len(out) = total
    BY <2>1 DEF Lists
  <2>3. out' = Append(out, p)
    BY <1>2, <1>6, <1>8, <2>2 DEF Stored
  <2>4. \A q \in G : Before(q, p)
    BY DEF p
  <2>5. Lists(out', total', G \cup {p})
    BY <1>1, <1>2, <1>6, <2>1, <2>3, <2>4, ListsOneMore
  <2>6. out' \in Seq(Pairs) /\ Len(out') = total'
    BY <2>5 DEF Lists
  <2>7. Len(out') <= outCap
    BY <1>2, <1>6, <2>1, <2>6
  <2> QED BY <1>4, <1>6, <2>5, <2>6, <2>7 DEF Counted, p
<1> QED BY <1>7, <1>8

OfRow == {p \in Expected : p[1] = row - 1}

LEMMA RowsBeforeNext ==
  ASSUME InputsTyped, row \in 1 .. Len(probe)
  PROVE  RowsBefore(row + 1) = RowsBefore(row) \cup OfRow
<1>1. \A p \in Expected : p[1] < (row + 1) - 1 <=> p[1] < row - 1 \/ p[1] = row - 1
  BY ExpectedTyped
<1> QED BY <1>1 DEF RowsBefore, OfRow

\* Nothing that was emitted for the rows before follows a pair of this row.
LEMMA BeforeThisRow ==
  ASSUME InputsTyped, row \in Nat, NEW r \in Int, NEW q \in RowsBefore(row)
  PROVE  Before(q, <<row - 1, r>>)
BY DEF RowsBefore, Before

LEMMA MatchesOfRow ==
  ASSUME InputsTyped, row \in 1 .. Len(probe)
  PROVE  OfRow = {<<row - 1, r - 1>> : r \in {x \in 1 .. Len(build) : probe[row] = build[x] /\ probe[row] # Null}}
                 \cup (IF kind = "left" /\ \A x \in 1 .. Len(build) : ~(probe[row] = build[x] /\ probe[row] # Null)
                       THEN {<<row - 1, -1>>} ELSE {})
<1> DEFINE M == {x \in 1 .. Len(build) : probe[row] = build[x] /\ probe[row] # Null}
<1>1. \A r \in 1 .. Len(build) : r \in M <=> <<row, r>> \in Matches
  BY DEF Matches
<1>2. row \in Unmatched <=> M = {}
  <2>1. ASSUME NEW m \in Matches, m[1] = row PROVE M # {}
    <3>1. m = <<row, m[2]>> /\ m[2] \in 1 .. Len(build)
      BY <2>1 DEF Matches
    <3> QED BY <1>1, <3>1
  <2>2. ASSUME NEW r \in M PROVE \E m \in Matches : m[1] = row
    <3>1. <<row, r>> \in Matches
      BY <1>1
    <3> QED BY <3>1
  <2> QED BY <2>1, <2>2 DEF Unmatched
<1>3. ASSUME NEW p \in OfRow
      PROVE  p \in {<<row - 1, r - 1>> : r \in M} \/ (kind = "left" /\ M = {} /\ p = <<row - 1, -1>>)
  <2>1. CASE \E m \in Matches : p = <<m[1] - 1, m[2] - 1>>
    <3>1. PICK m \in Matches : p = <<m[1] - 1, m[2] - 1>>
      BY <2>1
    <3>2. m[1] \in 1 .. Len(probe) /\ m[2] \in 1 .. Len(build) /\ m = <<m[1], m[2]>>
      BY DEF Matches
    <3>3. m[1] - 1 = row - 1
      BY <3>1 DEF OfRow
    <3>4. m[1] = row
      BY <3>2, <3>3
    <3> QED BY <1>1, <3>1, <3>2, <3>4
  <2>2. CASE kind = "left" /\ \E l \in Unmatched : p = <<l - 1, -1>>
    <3>1. PICK l \in Unmatched : p = <<l - 1, -1>>
      BY <2>2
    <3>2. l \in 1 .. Len(probe) /\ l - 1 = row - 1
      BY <3>1 DEF Unmatched, OfRow
    <3>3. l = row
      BY <3>2
    <3> QED BY <1>2, <2>2, <3>1, <3>3
  <2> QED BY <2>1, <2>2 DEF OfRow, Expected
<1>4. ASSUME NEW r \in M PROVE <<row - 1, r - 1>> \in OfRow
  <2>1. <<row, r>> \in Matches /\ <<row, r>>[1] = row /\ <<row, r>>[2] = r
    BY <1>1
  <2> QED BY <2>1 DEF OfRow, Expected
<1>5. kind = "left" /\ M = {} => <<row - 1, -1>> \in OfRow
  BY <1>2 DEF OfRow, Expected
<1>6. M = {} <=> \A x \in 1 .. Len(build) : ~(probe[row] = build[x] /\ probe[row] # Null)
  OBVIOUS
<1> HIDE DEF M
<1>7. OfRow = {<<row - 1, r - 1>> : r \in M} \cup (IF kind = "left" /\ M = {} THEN {<<row - 1, -1>>} ELSE {})
  BY <1>3, <1>4, <1>5
<1> QED BY <1>6, <1>7 DEF M

\* Once all its slots are seen, a row has given what it matches.
LEMMA RowComplete ==
  ASSUME InputsTyped, row \in 1 .. Len(probe), probe[row] # Null, JoinTable(Len(build) + 1),
         cap \in Nat \ {0}, IsTable(cap, table),
         NEW W \in SUBSET Slots(cap),
         \A s \in Slots(cap) : s \in W <=> table[s] # Empty /\ table[s].key = probe[row]
  PROVE  OfRow = Given(W) \cup (IF kind = "left" /\ W = {} THEN {<<row - 1, -1>>} ELSE {})
<1> DEFINE M == {x \in 1 .. Len(build) : probe[row] = build[x] /\ probe[row] # Null}
<1>0. Len(build) \in Nat /\ 1 .. (Len(build) + 1) - 1 = 1 .. Len(build)
  BY DEF InputsTyped
<1>1. ASSUME NEW s \in W PROVE \E r \in M : table[s].val = r - 1
  <2>1. PICK r \in 1 .. Len(build) : build[r] # Null /\ table[s] = [key |-> build[r], val |-> r - 1]
    BY <1>0, <1>1 DEF JoinTable
  <2> QED BY <2>1
<1>2. ASSUME NEW r \in M PROVE \E s \in W : table[s].val = r - 1
  <2>1. PICK s \in Slots(cap) : table[s] = [key |-> build[r], val |-> r - 1]
    BY <1>0 DEF JoinTable
  <2>2. build[r] \in Nat /\ r - 1 \in Nat
    BY HashesTyped DEF InputsTyped, Rows
  <2>3. table[s] # Empty /\ table[s].key = probe[row] /\ table[s].val = r - 1
    BY <2>1, <2>2, NotEmpty
  <2> QED BY <2>3
<1>3. Given(W) = {<<row - 1, r - 1>> : r \in M}
  BY <1>1, <1>2 DEF Given
<1>4. W = {} <=> \A x \in 1 .. Len(build) : ~(probe[row] = build[x] /\ probe[row] # Null)
  BY <1>1, <1>2
<1> QED BY <1>3, <1>4, MatchesOfRow


\* A slot of its key gives the row one of its pairs.
LEMMA HitExpected ==
  ASSUME InputsTyped, row \in 1 .. Len(probe), probe[row] # Null, JoinTable(Len(build) + 1),
         NEW s \in Slots(cap), table[s] # Empty, table[s].key = probe[row]
  PROVE  <<row - 1, table[s].val>> \in OfRow
<1>1. Len(build) \in Nat /\ 1 .. (Len(build) + 1) - 1 = 1 .. Len(build)
  BY DEF InputsTyped
<1>2. PICK r \in 1 .. Len(build) : build[r] # Null /\ table[s] = [key |-> build[r], val |-> r - 1]
  BY <1>1 DEF JoinTable
<1>3. table[s].val = r - 1 /\ probe[row] = build[r]
  BY <1>2
<1> QED BY <1>3, MatchesOfRow


-----------------------------------------------------------------------------
(* The steps of a join.                                                    *)

\* The columns, and so the pairs wanted of them, stay.
LEMMA FitsFixed ==
  ASSUME UNCHANGED <<kind, build, probe>>
  PROVE  Fits' = Fits /\ Expected' = Expected
<1>1. Matches' = Matches
  BY DEF Matches
<1>2. Unmatched' = Unmatched
  BY <1>1 DEF Unmatched
<1>3. Expected' = Expected
  BY <1>1, <1>2 DEF Expected
<1> QED BY <1>3 DEF Fits

LEMMA JoinInit == Init => JoinInv
<1> SUFFICES ASSUME Init, Fits PROVE JoinInv
  BY DEF JoinInv
<1>1. PICK in \in JoinInputs : probe = in[1] /\ build = in[2]
  BY DEF Init, Fits
<1>2. in \in Seq(Rows) \X Seq(Rows) /\ Len(in[1]) + Len(in[2]) < Words
  BY ONLY in \in JoinInputs, HashAssumption
<1>3. Len(probe) \in Nat /\ Len(build) \in Nat /\ Len(probe) + Len(build) < Words
  BY <1>1, <1>2
<1>4. outCap = Larger(1, Len(probe) + Len(build)) /\ out = << >> /\ pc = "alloc"
  BY DEF Init
<1>5. outCap \in Nat /\ outCap < Words
  BY <1>3, <1>4, LimitsTyped DEF Larger
<1>6. out \in Seq(Pairs) /\ Len(out) = 0
  BY <1>4
<1> QED BY <1>4, <1>5, <1>6 DEF JoinInv

LEMMA CallKeepsJoin == ChainInv /\ JoinInv /\ Call => JoinInv'
<1> SUFFICES ASSUME ChainInv, JoinInv, Call, Fits PROVE JoinInv'
  BY FitsFixed DEF JoinInv, Call, inputs
<1>4. out' \in Seq(Pairs) /\ Len(out') <= outCap' /\ outCap' < Words
  BY DEF JoinInv, Call, ChainInv, TypeOK
<1>1. /\ cap' = cap /\ table' = table /\ pc' = "build" /\ row' = 1 /\ out' = << >> /\ total' = 0
      /\ build' = build /\ cap \in Nat \ {0}
  BY DEF ChainInv, TypeOK, Call, inputs
<1>2. table = Zeroed(cap)
  BY DEF ChainInv, Call, WrapperInv, ToDo
<1>3. JoinTable(row)'
  BY <1>1, <1>2, EmptyTable DEF JoinTable
<1> QED BY <1>1, <1>3, <1>4 DEF JoinInv

LEMMA BuildSkipKeepsJoin == ChainInv /\ JoinInv /\ BuildSkip => JoinInv'
<1> SUFFICES ASSUME ChainInv, JoinInv, BuildSkip, Fits PROVE JoinInv'
  BY FitsFixed DEF JoinInv, BuildSkip, inputs
<1>1. /\ pc = "build" /\ row \in 1 .. Len(build) /\ kind # "group" /\ build[row] = Null
      /\ UNCHANGED <<kind, build, cap, table, outCap, pc, out, total>> /\ row' = row + 1
  BY DEF ChainInv, BuildSkip, Building, BuildInv, InputsTyped, NextRow, inputs
<1>2. JoinTable(row) /\ \A r \in 1 .. row' - 1 : r \in 1 .. row - 1 \/ r = row
  BY <1>1 DEF JoinInv
<1>3. \A r \in 1 .. row - 1 : r \in 1 .. row' - 1
  BY <1>1
<1>4. JoinTable(row)'
  BY <1>1, <1>2, <1>3 DEF JoinTable
<1> QED BY <1>1, <1>4 DEF JoinInv

LEMMA InsertKeepsJoin == ChainInv /\ JoinInv /\ Insert => JoinInv'
<1> SUFFICES ASSUME ChainInv, JoinInv, Insert, Fits, kind # "group" PROVE JoinInv'
  BY FitsFixed DEF JoinInv, Fits, Insert, inputs
<1> DEFINE h == KeyOf(row)  at == At(cap, h, probes)
<1>1. /\ pc = "build" /\ row \in 1 .. Len(build) /\ Len(build) \in Nat
      /\ cap \in Nat \ {0} /\ probes \in Slots(cap) /\ h \in Nat /\ BuildHash = h
      /\ SlotOf(BuildHash) = at /\ IsTable(cap, table) /\ h = build[row] /\ build[row] # Null
  BY InsertingFacts DEF Insert, KeyOf, Enters
<1>2. /\ table' = Put(cap, table, h, probes, row - 1) /\ table[at] = Empty /\ row - 1 \in Nat
      /\ UNCHANGED <<kind, build, cap, outCap, pc, out, total>> /\ row' = row + 1
  BY <1>1 DEF Insert, Put, Occupied, NextRow, inputs
<1>3. /\ at \in Slots(cap) /\ table'[at] = [key |-> h, val |-> row - 1]
      /\ \A s \in Slots(cap) : s # at => table'[s] = table[s]
  BY <1>1, <1>2, PutFacts
<1> HIDE DEF h, at
<1>4. JoinTable(row) /\ \A r \in 1 .. row' - 1 : r \in 1 .. row - 1 \/ r = row
  BY <1>1, <1>2 DEF JoinInv
<1>5. row \in 1 .. row' - 1 /\ \A r \in 1 .. row - 1 : r \in 1 .. row' - 1
  BY <1>1, <1>2
<1>6. ASSUME NEW s \in Slots(cap), table'[s] # Empty
      PROVE  \E r \in 1 .. row' - 1 : build[r] # Null /\ table'[s] = [key |-> build[r], val |-> r - 1]
  <2>1. CASE s = at
    BY <1>1, <1>3, <1>5, <2>1
  <2>2. CASE s # at
    <3>1. table'[s] = table[s]
      BY <1>3, <2>2
    <3>2. PICK r \in 1 .. row - 1 : build[r] # Null /\ table[s] = [key |-> build[r], val |-> r - 1]
      BY <1>4, <1>6, <3>1 DEF JoinTable
    <3> QED BY <1>5, <3>1, <3>2
  <2> QED BY <2>1, <2>2
<1>7. ASSUME NEW r \in 1 .. row' - 1, build[r] # Null
      PROVE  \E s \in Slots(cap) : table'[s] = [key |-> build[r], val |-> r - 1]
  <2>1. CASE r = row
    BY <1>1, <1>3, <2>1
  <2>2. CASE r \in 1 .. row - 1
    <3>1. PICK s \in Slots(cap) : table[s] = [key |-> build[r], val |-> r - 1]
      BY <1>4, <1>7, <2>2 DEF JoinTable
    <3>2. table[s] # Empty
      <4>1. build[r] \in Nat /\ r - 1 \in Nat
        BY <1>1, <1>7, <2>2, HashesTyped DEF ChainInv, InputsTyped, Rows
      <4> QED BY <3>1, <4>1, NotEmpty
    <3> QED BY <1>2, <1>3, <3>1, <3>2
  <2> QED BY <1>4, <2>1, <2>2
<1>8. JoinTable(row)'
  BY <1>2, <1>6, <1>7 DEF JoinTable
<1> QED BY <1>1, <1>2, <1>8 DEF JoinInv

LEMMA BuiltKeepsJoin == ChainInv /\ JoinInv /\ Built => JoinInv'
<1> SUFFICES ASSUME ChainInv, JoinInv, Built, Fits PROVE JoinInv'
  BY FitsFixed DEF JoinInv, Built, inputs
<1>1. /\ UNCHANGED <<kind, build, probe, cap, table, outCap, out, total>> /\ kind # "group"
      /\ pc = "build" /\ pc' = "probe" /\ row' = 1 /\ probes' = 0 /\ matched' = FALSE
      /\ Len(build) \in Nat /\ row = Len(build) + 1
  BY DEF ChainInv, Built, BuildInv, inputs, InputsTyped
<1>2. JoinTable(Len(build) + 1) /\ total = 0 /\ out = << >>
  BY <1>1 DEF JoinInv
<1>3. JoinTable(Len(build) + 1)'
  BY <1>1, <1>2 DEF JoinTable
<1>4. RowsBefore(1) = {} /\ Seen(0) = {} /\ Given({}) = {}
  <2>1. \A p \in Expected : ~(p[1] < 1 - 1)
    BY ExpectedTyped DEF ChainInv
  <2> QED BY <2>1 DEF RowsBefore, Seen, Given
<1>5. RowsBefore(row)' = RowsBefore(1) /\ Seen(probes)' = {} /\ Given(Seen(probes))' = {}
  BY <1>1 DEF RowsBefore, Expected, Matches, Unmatched, Seen, Given
<1>6. EmitInv'
  <2>1. out' \in Seq(Pairs) /\ Len(out') <= outCap'
    BY <1>1 DEF JoinInv
  <2>2. Counted(out, total, {})'
    BY <1>1, <1>2, <2>1, ListsNothing, FS_EmptySet DEF Counted
  <2> QED BY <1>1, <1>4, <1>5, <2>2 DEF EmitInv, Counted
<1> QED BY <1>1, <1>3, <1>6 DEF JoinInv

\* A row is finished when what is listed after it is all it was to give.
LEMMA NextRowKeepsJoin ==
  ASSUME ChainInv, JoinInv, Fits, Probing, NextRow,
         UNCHANGED <<inputs, cap, table, outCap, pc, todo, held>>,
         NEW S, Counted(out', total', S), S = RowsBefore(row) \cup OfRow
  PROVE  JoinInv'
<1>1. /\ pc = "probe" /\ row \in 1 .. Len(probe) /\ kind # "group"
  BY ProbingFacts
<1>2. /\ UNCHANGED <<kind, build, probe, cap, table, outCap, pc>>
      /\ row' = row + 1 /\ probes' = 0 /\ matched' = FALSE
  BY DEF NextRow, inputs
<1>3. S = RowsBefore(row + 1)
  BY <1>1, RowsBeforeNext DEF ChainInv
<1>4. RowsBefore(row)' = S /\ Seen(probes)' = {} /\ Given(Seen(probes))' = {}
  BY <1>2, <1>3 DEF RowsBefore, Expected, Matches, Unmatched, Seen, Given
<1>5. EmitInv'
  <2>1. Counted(out, total, S)'
    BY <1>2, FitsFixed DEF Counted, Lists
  <2> QED BY <1>2, <1>4, <2>1 DEF EmitInv, Counted
<1>6. JoinTable(Len(build) + 1)'
  BY <1>1, <1>2 DEF JoinInv, JoinTable
<1>7. out' \in Seq(Pairs) /\ Len(out') <= outCap' /\ outCap' < Words
  BY <1>2 DEF Counted, JoinInv
<1> QED BY <1>1, <1>2, <1>5, <1>6, <1>7 DEF JoinInv

LEMMA ProbeNullKeepsJoin == ChainInv /\ JoinInv /\ ProbeNull => JoinInv'
<1> SUFFICES ASSUME ChainInv, JoinInv, ProbeNull, Fits PROVE JoinInv'
  BY FitsFixed DEF JoinInv, ProbeNull, inputs
<1>1. /\ pc = "probe" /\ row \in 1 .. Len(probe) /\ kind # "group"
      /\ probe[row] = Null /\ probes = 0 /\ outCap \in Nat /\ InputsTyped
  BY ProbingFacts DEF ProbeNull, ChainInv, ProbeInv, TypeOK
<1>2. RowsBefore(row) \cup Given(Seen(probes)) = RowsBefore(row)
  BY <1>1 DEF Seen, Given
<1>3. Counted(out, total, RowsBefore(row))
  BY <1>1, <1>2 DEF JoinInv, EmitInv
<1>4. OfRow = IF kind = "left" THEN {<<row - 1, -1>>} ELSE {}
  BY <1>1, MatchesOfRow
<1>5. CASE kind = "left"
  <2>1. Emit(-1)
    BY <1>5 DEF ProbeNull, EmitUnmatched
  <2>2. -1 \in Int /\ row \in Nat
    BY <1>1
  <2>3. \A q \in RowsBefore(row) : Before(q, <<row - 1, -1>>)
    BY <1>1, <2>2, BeforeThisRow
  <2>4. <<row - 1, -1>> \in Expected
    BY <1>4, <1>5 DEF OfRow
  <2>5. Counted(out', total', RowsBefore(row) \cup {<<row - 1, -1>>})
    BY <1>1, <1>3, <2>1, <2>2, <2>3, <2>4, Emits
  <2> QED BY <1>4, <1>5, <2>5, NextRowKeepsJoin DEF ProbeNull
<1>6. CASE kind # "left"
  <2>1. total' = total /\ out' = out /\ RowsBefore(row) = RowsBefore(row) \cup OfRow
    BY <1>4, <1>6 DEF ProbeNull, EmitUnmatched
  <2> QED BY <1>1, <1>3, <2>1, NextRowKeepsJoin DEF ProbeNull
<1> QED BY <1>5, <1>6


\* The slot under probe, among those seen.
LEMMA SeenOneMore ==
  ASSUME ChainInv, Probing, probe[row] # Null, table[SlotOf(probe[row])] # Empty
  PROVE  Seen(probes + 1) = Seen(probes) \cup
           (IF table[SlotOf(probe[row])].key = probe[row] THEN {SlotOf(probe[row])} ELSE {})
<1> DEFINE h == probe[row]  s0 == SlotOf(probe[row])
<1>1. /\ cap \in Nat \ {0} /\ probes \in Slots(cap) /\ h \in Nat
      /\ s0 = At(cap, h, probes) /\ s0 \in Slots(cap) /\ probes \in Nat
  BY ProbingFacts DEF Slots
<1>2. Far(cap, h, s0) = probes
  BY <1>1, DistanceOfSlot
<1>3. ASSUME NEW s \in Slots(cap)
      PROVE  Far(cap, h, s) < probes + 1 <=> Far(cap, h, s) < probes \/ s = s0
  <2>1. Far(cap, h, s) \in Slots(cap) /\ At(cap, h, Far(cap, h, s)) = s
    BY <1>1, SlotAtDistance
  <2>2. Far(cap, h, s) \in Nat
    BY <2>1 DEF Slots
  <2> QED BY <1>1, <1>2, <2>1, <2>2
<1>4. \A s \in Slots(cap) : probes = 0 => ~(Far(cap, h, s) < probes)
  <2>1. \A s \in Slots(cap) : Far(cap, h, s) \in Slots(cap)
    BY <1>1, SlotAtDistance
  <2> QED BY <2>1 DEF Slots
<1> HIDE DEF s0
<1>5. \A s \in Slots(cap) :
        s \in Seen(probes) <=> table[s] # Empty /\ table[s].key = h /\ Far(cap, h, s) < probes
  BY <1>4 DEF Seen
<1>6. \A s \in Slots(cap) :
        s \in Seen(probes + 1) <=> table[s] # Empty /\ table[s].key = h /\ Far(cap, h, s) < probes + 1
  BY <1>1 DEF Seen
<1>7. Seen(probes) \subseteq Slots(cap) /\ Seen(probes + 1) \subseteq Slots(cap)
  BY DEF Seen
<1>8. table[s0] # Empty
  BY DEF s0
<1>9. Seen(probes + 1) = Seen(probes) \cup (IF table[s0].key = h THEN {s0} ELSE {})
  BY <1>1, <1>3, <1>5, <1>6, <1>7, <1>8
<1> QED BY <1>9 DEF s0

\* A slot further on holds a later row.
LEMMA SeenAreBefore ==
  ASSUME ChainInv, Probing, probe[row] # Null, table[SlotOf(probe[row])] # Empty,
         table[SlotOf(probe[row])].key = probe[row],
         NEW q \in RowsBefore(row) \cup Given(Seen(probes))
  PROVE  Before(q, <<row - 1, table[SlotOf(probe[row])].val>>)
<1> DEFINE h == probe[row]  s0 == SlotOf(probe[row])
<1>1. /\ cap \in Nat \ {0} /\ probes \in Slots(cap) /\ h \in Nat /\ row \in Nat
      /\ s0 = At(cap, h, probes) /\ s0 \in Slots(cap)
      /\ IsTable(cap, table) /\ InRowOrder(cap, table)
  BY ProbingFacts
<1>2. Far(cap, h, s0) = probes /\ table[s0].val \in Int
  BY <1>1, DistanceOfSlot, EntryFacts DEF IsTable
<1> HIDE DEF s0
<1>3. CASE q \in RowsBefore(row)
  BY <1>1, <1>2, <1>3, BeforeThisRow DEF ChainInv, s0
<1>4. CASE q \in Given(Seen(probes))
  <2>1. PICK s \in Seen(probes) : q = <<row - 1, table[s].val>>
    BY <1>4 DEF Given
  <2>2. s \in Slots(cap) /\ table[s] # Empty /\ table[s].key = h /\ Far(cap, h, s) < probes
    BY DEF Seen
  <2>3. s # s0 /\ Far(cap, h, s) < Far(cap, h, s0)
    BY <1>1, <1>2, <2>2, SlotAtDistance DEF Slots
  <2>4. table[s].val < table[s0].val
    BY <1>1, <2>2, <2>3 DEF InRowOrder, s0
  <2> QED BY <2>1, <2>4 DEF Before, s0
<1> QED BY <1>3, <1>4

\* A row ends: its slots are all seen, and W of them match.
LEMMA RowEndsKeepsJoin ==
  ASSUME ChainInv, JoinInv, Fits, Probing, probe[row] # Null, NextRow,
         UNCHANGED <<inputs, cap, table, outCap, pc, todo, held>>,
         \A s \in Slots(cap) : s \in Seen(probes) <=> table[s] # Empty /\ table[s].key = probe[row],
         EmitUnmatched(matched)
  PROVE  JoinInv'
<1> DEFINE S == RowsBefore(row) \cup Given(Seen(probes))
<1>1. /\ pc = "probe" /\ row \in 1 .. Len(probe) /\ kind # "group"
      /\ outCap \in Nat /\ InputsTyped /\ cap \in Nat \ {0} /\ IsTable(cap, table)
  BY ProbingFacts DEF ChainInv, TypeOK
<1>2. JoinTable(Len(build) + 1) /\ EmitInv
  BY <1>1 DEF JoinInv
<1>3. Seen(probes) \in SUBSET Slots(cap)
  BY DEF Seen
<1>4. OfRow = Given(Seen(probes)) \cup (IF kind = "left" /\ Seen(probes) = {} THEN {<<row - 1, -1>>} ELSE {})
  BY <1>1, <1>2, <1>3, RowComplete
<1>5. Counted(out, total, S)
  BY <1>2 DEF EmitInv
<1>6. CASE kind = "left" /\ ~matched
  <2>1. Emit(-1)
    BY <1>6 DEF EmitUnmatched
  <2>2. Seen(probes) = {} /\ S = RowsBefore(row)
    BY <1>2, <1>6 DEF EmitInv, Given
  <2>3. -1 \in Int /\ row \in Nat
    BY <1>1
  <2>4. \A q \in S : Before(q, <<row - 1, -1>>)
    BY <1>1, <2>2, <2>3, BeforeThisRow
  <2>7. <<row - 1, -1>> \in Expected
    BY <1>4, <1>6, <2>2 DEF OfRow
  <2>5. Counted(out', total', S \cup {<<row - 1, -1>>})
    BY <1>1, <1>5, <2>1, <2>3, <2>4, <2>7, Emits
  <2>6. S \cup {<<row - 1, -1>>} = RowsBefore(row) \cup OfRow
    BY <1>4, <1>6, <2>2
  <2> QED BY <2>5, <2>6, NextRowKeepsJoin
<1>7. CASE ~(kind = "left" /\ ~matched)
  <2>1. total' = total /\ out' = out
    BY <1>7 DEF EmitUnmatched
  <2>2. S = RowsBefore(row) \cup OfRow
    BY <1>2, <1>4, <1>7 DEF EmitInv
  <2> QED BY <1>1, <1>5, <2>1, <2>2, NextRowKeepsJoin
<1> QED BY <1>6, <1>7

LEMMA ProbeSlotKeepsJoin == ChainInv /\ JoinInv /\ ProbeSlot => JoinInv'
<1> SUFFICES ASSUME ChainInv, JoinInv, ProbeSlot, Fits PROVE JoinInv'
  BY FitsFixed DEF JoinInv, ProbeSlot, inputs
<1> DEFINE h == probe[row]  s0 == SlotOf(probe[row])
           S == RowsBefore(row) \cup Given(Seen(probes))
<1>1. /\ pc = "probe" /\ row \in 1 .. Len(probe) /\ kind # "group"
      /\ outCap \in Nat /\ InputsTyped /\ cap \in Nat \ {0} /\ IsTable(cap, table)
      /\ Chained(cap, table) /\ probes \in Slots(cap) /\ h # Null /\ h \in Nat
      /\ s0 = At(cap, h, probes) /\ s0 \in Slots(cap) /\ Probing /\ row \in Nat /\ probes \in Nat
  BY ProbingFacts DEF ChainInv, TypeOK, ProbeSlot, Slots
<1>2. JoinTable(Len(build) + 1) /\ EmitInv /\ Counted(out, total, S)
  BY <1>1 DEF JoinInv, EmitInv
<1>3. UNCHANGED <<inputs, cap, table, outCap, pc, todo, held>>
  BY DEF ProbeSlot
<1>4. \A s \in Slots(cap) : s \in Seen(probes) => table[s] # Empty /\ table[s].key = h
  BY DEF Seen
<1>5. CASE table[s0] = Empty
  <2>1. EmitUnmatched(matched) /\ NextRow
    BY <1>5 DEF ProbeSlot
  <2>2. ASSUME NEW s \in Slots(cap), table[s] # Empty, table[s].key = h PROVE s \in Seen(probes)
    <3>1. Far(cap, h, s) < probes /\ Far(cap, h, s) \in Slots(cap)
      BY <1>1, <1>5, <2>2, SeenAll, SlotAtDistance
    <3>2. probes # 0
      BY <3>1 DEF Slots
    <3> QED BY <2>2, <3>1, <3>2 DEF Seen
  <2> QED BY <1>1, <1>3, <1>4, <2>1, <2>2, RowEndsKeepsJoin
<1>6. CASE table[s0] # Empty /\ table[s0].key = h
  <2>1. Emit(table[s0].val)
    BY <1>6 DEF ProbeSlot
  <2>2. table[s0].val \in Int
    BY <1>1, <1>6, EntryFacts DEF IsTable
  <2>3. \A q \in S : Before(q, <<row - 1, table[s0].val>>)
    BY <1>1, <1>6, SeenAreBefore
  <2>9. <<row - 1, table[s0].val>> \in Expected
    BY <1>1, <1>2, <1>6, HitExpected DEF OfRow
  <2>4. Counted(out', total', S \cup {<<row - 1, table[s0].val>>})
    BY <1>1, <1>2, <2>1, <2>2, <2>3, <2>9, Emits
  <2>5. Seen(probes + 1) = Seen(probes) \cup {s0}
    BY <1>1, <1>6, SeenOneMore
  <2>6. S \cup {<<row - 1, table[s0].val>>} = RowsBefore(row) \cup Given(Seen(probes + 1))
    BY <2>5 DEF Given
  <2>7. CASE LastProbe
    <3>1. NextRow
      BY <1>6, <2>7 DEF ProbeSlot
    <3>2. probes + 1 = cap
      BY <1>1, <2>7 DEF LastProbe, Slots
    <3>3. \A s \in Slots(cap) : s \in Seen(probes + 1) <=> table[s] # Empty /\ table[s].key = h
      <4>1. \A s \in Slots(cap) : Far(cap, h, s) \in Slots(cap)
        BY <1>1, SlotAtDistance
      <4>2. \A s \in Slots(cap) : Far(cap, h, s) < probes + 1
        BY <1>1, <3>2, <4>1 DEF Slots
      <4>3. probes + 1 # 0
        BY <1>1
      <4> QED BY <4>2, <4>3 DEF Seen
    <3>4. Seen(probes + 1) \in SUBSET Slots(cap) /\ Seen(probes + 1) # {}
      BY <1>1, <2>5 DEF Seen
    <3>5. OfRow = Given(Seen(probes + 1)) \cup
                    (IF kind = "left" /\ Seen(probes + 1) = {} THEN {<<row - 1, -1>>} ELSE {})
      BY <1>1, <1>2, <3>3, <3>4, RowComplete
    <3>6. OfRow \subseteq Given(Seen(probes + 1)) /\ Given(Seen(probes + 1)) \subseteq OfRow
      BY <3>4, <3>5
    <3>7. S \cup {<<row - 1, table[s0].val>>} = RowsBefore(row) \cup OfRow
      BY <2>6, <3>6
    <3> QED BY <1>1, <1>3, <2>4, <3>1, <3>7, NextRowKeepsJoin
  <2>8. CASE ~LastProbe
    <3>1. /\ matched' = TRUE /\ probes' = probes + 1 /\ row' = row
          /\ UNCHANGED <<kind, build, probe, cap, table, outCap, pc>>
      BY <1>6, <2>8 DEF ProbeSlot, inputs
    <3>2. Seen(probes)' = Seen(probes + 1)
      BY <3>1 DEF Seen
    <3>3. RowsBefore(row)' = RowsBefore(row) /\ Given(Seen(probes))' = Given(Seen(probes + 1))
      BY <3>1, <3>2 DEF RowsBefore, Expected, Matches, Unmatched, Given
    <3>4. Seen(probes)' # {}
      BY <2>5, <3>2
    <3>5. EmitInv'
      <4>1. Expected' = Expected
        BY <3>1, FitsFixed
      <4> QED BY <2>4, <2>6, <3>1, <3>3, <3>4, <4>1 DEF EmitInv, Counted
    <3>6. out' \in Seq(Pairs) /\ Len(out') <= outCap' /\ outCap' < Words
      BY <2>4, <3>1 DEF Counted, JoinInv
    <3> QED BY <1>1, <1>2, <3>1, <3>5, <3>6 DEF JoinInv, JoinTable
  <2> QED BY <2>7, <2>8
<1>7. CASE table[s0] # Empty /\ table[s0].key # h
  <2>1. Seen(probes + 1) = Seen(probes)
    BY <1>1, <1>7, SeenOneMore
  <2>2. CASE LastProbe
    <3>1. EmitUnmatched(matched) /\ NextRow
      BY <1>7, <2>2 DEF ProbeSlot
    <3>2. probes + 1 = cap
      BY <1>1, <2>2 DEF LastProbe, Slots
    <3>3. \A s \in Slots(cap) : s \in Seen(probes + 1) <=> table[s] # Empty /\ table[s].key = h
      <4>1. \A s \in Slots(cap) : Far(cap, h, s) \in Slots(cap)
        BY <1>1, SlotAtDistance
      <4>2. \A s \in Slots(cap) : Far(cap, h, s) < probes + 1
        BY <1>1, <3>2, <4>1 DEF Slots
      <4>3. probes + 1 # 0
        BY <1>1
      <4> QED BY <4>2, <4>3 DEF Seen
    <3> QED BY <1>1, <1>3, <2>1, <3>1, <3>3, RowEndsKeepsJoin
  <2>3. CASE ~LastProbe
    <3>1. /\ matched' = matched /\ probes' = probes + 1 /\ row' = row
          /\ UNCHANGED <<kind, build, probe, cap, table, outCap, pc, out, total>>
      BY <1>7, <2>3 DEF ProbeSlot, inputs, ChainInv, TypeOK
    <3>2. Seen(probes)' = Seen(probes)
      BY <2>1, <3>1 DEF Seen
    <3>3. RowsBefore(row)' = RowsBefore(row) /\ Given(Seen(probes))' = Given(Seen(probes))
      BY <3>1, <3>2 DEF RowsBefore, Expected, Matches, Unmatched, Given
    <3>4. EmitInv'
      BY <1>2, <3>1, <3>2, <3>3, FitsFixed DEF EmitInv, Counted
    <3> QED BY <1>1, <1>2, <3>1, <3>4 DEF JoinInv, JoinTable
  <2> QED BY <2>2, <2>3
<1> QED BY <1>5, <1>6, <1>7

LEMMA NextKeepsJoin == ChainInv /\ JoinInv /\ [Next]_vars => JoinInv'
<1> SUFFICES ASSUME ChainInv, JoinInv, [Next]_vars PROVE JoinInv'
  OBVIOUS
<1>1. ASSUME \/ AllocNext \/ AllocFails \/ KnownGroup
      PROVE  JoinInv'
  <2>1. UNCHANGED <<kind, build, probe>>
    BY <1>1 DEF AllocNext, AllocFails, KnownGroup, inputs
  <2> QED BY <1>1, <2>1, FitsFixed DEF JoinInv, Fits, AllocNext, AllocFails, KnownGroup, Found
<1>6. ASSUME EnlargeOutput, Fits PROVE JoinInv'
  <2>1. UNCHANGED <<kind, build, probe, out>> /\ pc' = "alloc" /\ outCap' = total
        /\ pc = "probe" /\ total > outCap
    BY <1>6 DEF EnlargeOutput, inputs
  <2>2. Counted(out, total, RowsBefore(row) \cup Given(Seen(probes)))
    BY <1>6, <2>1 DEF JoinInv, EmitInv
  <2>3. total \in Nat /\ total <= Cardinality(Expected) /\ Cardinality(Expected) \in Nat
    BY <2>2, ExpectedFinite DEF Counted, ChainInv
  <2>4. outCap' < Words /\ Len(out') <= outCap' /\ out' \in Seq(Pairs)
    BY <1>6, <2>1, <2>2, <2>3, LimitsTyped DEF Counted, Fits, ChainInv, TypeOK
  <2> QED BY <2>1, <2>4 DEF JoinInv
<1>7. EnlargeOutput /\ ~Fits => JoinInv'
  BY FitsFixed DEF EnlargeOutput, JoinInv, inputs
<1>2. ASSUME Return, Fits PROVE JoinInv'
  <2>1. /\ UNCHANGED <<kind, build, probe, outCap, total>> /\ pc' = "done" /\ kind # "group"
        /\ pc = "probe" /\ row > Len(probe) /\ total <= outCap /\ InputsTyped
        /\ out' = SubSeq(out, 1, total)
    BY <1>2 DEF Return, inputs, ChainInv, ProbeInv, Fits
  <2>2. row = Len(probe) + 1 /\ ~(probes > 0) /\ probes \in Nat
    BY <2>1 DEF ChainInv, ProbeInv, TypeOK, InputsTyped
  <2>3. Given(Seen(probes)) = {}
    BY <2>2 DEF Given, Seen
  <2>4. \A p \in Expected : p[1] < row - 1
    BY <2>1, <2>2, ExpectedTyped
  <2>5. RowsBefore(row) \cup Given(Seen(probes)) = Expected
    BY <2>3, <2>4 DEF RowsBefore
  <2>6. Lists(out, total, Expected) /\ Len(out) <= outCap /\ outCap < Words
    BY <1>2, <2>1, <2>5 DEF JoinInv, EmitInv, Counted
  <2>7. Expected' = Expected
    BY <2>1, FitsFixed
  <2>8. out' = out /\ out \in Seq(Pairs)
    BY <2>1, <2>6 DEF Lists
  <2> QED BY <2>1, <2>6, <2>7, <2>8 DEF JoinInv
<1>5. Return /\ ~Fits => JoinInv'
  BY FitsFixed DEF Return, JoinInv, inputs
<1>3. ASSUME Collide, Fits PROVE JoinInv'
  <2>1. CASE LastProbe
    BY <1>3, <2>1 DEF Collide, Enlarge, JoinInv
  <2>2. CASE ~LastProbe
    <3>1. UNCHANGED <<kind, build, cap, table, outCap, out, total, pc, row>> /\ pc = "build"
      BY <1>3, <2>2 DEF Collide, Inserting, Building, inputs
    <3>2. JoinTable(row) => JoinTable(row)'
      BY <3>1 DEF JoinTable
    <3> QED BY <1>3, <3>1, <3>2 DEF JoinInv
  <2> QED BY <2>1, <2>2
<1>8. Collide /\ ~Fits => JoinInv'
  BY FitsFixed DEF Collide, Enlarge, JoinInv, inputs
\* No count of pairs that fit is negative.
<1>9. ASSUME Miscounted PROVE JoinInv'
  <2>1. UNCHANGED <<kind, build, probe>> /\ pc = "probe" /\ total < 0
    BY <1>9 DEF Miscounted, Enlarge, inputs
  <2>2. ASSUME Fits PROVE FALSE
    <3>1. Counted(out, total, RowsBefore(row) \cup Given(Seen(probes)))
      BY <2>1, <2>2 DEF JoinInv, EmitInv
    <3>2. total \in Nat
      BY <3>1, ExpectedFinite DEF Counted, ChainInv
    <3> QED BY <2>1, <3>2
  <2> QED BY <2>1, <2>2, FitsFixed DEF JoinInv
<1>4. ASSUME UNCHANGED vars PROVE JoinInv'
  <2>1. /\ Expected' = Expected /\ RowsBefore(row)' = RowsBefore(row) /\ Fits' = Fits
        /\ Seen(probes)' = Seen(probes) /\ Given(Seen(probes))' = Given(Seen(probes))
    BY <1>4, FitsFixed DEF vars, RowsBefore, Seen, Given
  <2>2. (EmitInv => EmitInv') /\ (JoinTable(row) => JoinTable(row)')
        /\ (JoinTable(Len(build) + 1) => JoinTable(Len(build) + 1)')
    BY <1>4, <2>1 DEF vars, EmitInv, Counted, JoinTable
  <2> QED BY <1>4, <2>1, <2>2 DEF vars, JoinInv
<1> QED BY <1>1, <1>2, <1>3, <1>4, <1>5, <1>6, <1>7, <1>8, <1>9, CallKeepsJoin, BuildSkipKeepsJoin,
           InsertKeepsJoin, BuiltKeepsJoin, ProbeNullKeepsJoin, ProbeSlotKeepsJoin DEF Next

\* A join of fewer pairs than memory has words gives each matching pair once, by left
\* row and then by right row, and a left join each unmatched row; it writes inside its
\* buffers and its count does not wrap, whatever collides, and however often the
\* kernel is called again for a larger table or a larger output.
THEOREM JoinsAreExact == Spec => []JoinExact
<1>1. ChainInv /\ JoinInv => JoinExact
  <2> SUFFICES ASSUME ChainInv, JoinInv, Fits PROVE JoinExact
    BY DEF JoinExact, Fits
  <2>1. outCap \in Nat /\ outCap < Words /\ Len(out) <= outCap
    BY DEF JoinInv, ChainInv, TypeOK
  <2>2. RoomFor(outCap) = outCap
    BY <2>1, LimitsTyped DEF RoomFor
  <2>3. pc = "probe" => total >= 0
    BY ExpectedFinite DEF JoinInv, EmitInv, Counted, ChainInv
  <2>4. pc = "done" => Lists(out, total, Expected)
    BY DEF JoinInv
  <2> QED BY <2>1, <2>2, <2>3, <2>4 DEF JoinExact, Lists
<1> QED BY <1>1, ChainInit, NextKeepsChain, JoinInit, NextKeepsJoin, PTL DEF Spec
=============================================================================
