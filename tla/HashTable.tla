----------------------------- MODULE HashTable -----------------------------
(***************************************************************************)
(* Grouping and joining by hash (group_build, join_hash_inner and          *)
(* join_hash_left of kernels hash.rs, and the wrappers of                  *)
(* kernels/hash/index.ts that retry them).                                 *)
(*                                                                         *)
(* The kernels build an open-addressing table with linear probing; when it *)
(* is full the wrapper doubles it, zeroes it and calls again, and when a   *)
(* join has more pairs than its output buffers hold the wrapper enlarges   *)
(* them and calls again, with the table zeroed.                            *)
(*                                                                         *)
(* A row is its hash: the kernels compare hashes only.  A step is one      *)
(* iteration of a probing loop, or one allocation.  Row numbers count      *)
(* from 0 in the tables, as in the code.                                   *)
(***************************************************************************)
EXTENDS Integers, Sequences, FiniteSets

CONSTANTS
  Hashes,       \* the hashes of valid rows
  HNull,        \* the hash of a null row
  Null,         \* a null row
  GroupInputs,  \* the columns that may be grouped
  JoinInputs,   \* the pairs of columns <<left, right>> that may be joined
  Hints,        \* capacities a caller may ask for; 0 = none
  CountLimit,   \* where the i32 that counts pairs wraps: 2^31 in the code
  Words,        \* the numbers of four bytes that fill memory: 2^30
  MayFail       \* whether an allocation may fail

Rows == Hashes \cup {Null}

\* The rows whose hashes, of eight bytes each, fill the memory of 4 GiB.
MaxRows == 536870912

ASSUME HashAssumption ==
  /\ Hashes \subseteq Nat /\ HNull \in Nat \ Hashes /\ Null \notin Nat
  /\ GroupInputs \subseteq Seq(Rows) /\ JoinInputs \subseteq Seq(Rows) \X Seq(Rows)
  /\ \A in \in GroupInputs : Len(in) <= MaxRows
  /\ \A in \in JoinInputs : Len(in[1]) + Len(in[2]) <= MaxRows /\ Len(in[1]) + Len(in[2]) < Words
  /\ Words \in Nat \ {0, 1} /\ CountLimit \in Nat /\ Words <= CountLimit
  /\ Hints \subseteq Nat /\ MayFail \in BOOLEAN

VARIABLES
  kind,    \* group, inner or left
  build,   \* the rows the table is built from
  probe,   \* the left rows of a join
  cap,     \* htCap
  table,   \* the slots
  outCap,  \* outCap
  out,     \* what the kernel has written: group ids, or pairs
  total,   \* groups, or pairs including those that did not fit, as an i32
  pc, row, probes, matched,  \* where the kernel is
  todo,    \* the buffers the wrapper has still to allocate
  held     \* the buffers it holds

vars == <<kind, build, probe, cap, table, outCap, out, total, pc, row, probes, matched, todo, held>>
inputs == <<kind, build, probe>>

MinHtCap == 4
Larger(a, b) == IF a > b THEN a ELSE b

\* What p <<= 1 reaches from 1: the powers of two below 2^31.
Powers ==
  {1, 2, 4, 8, 16, 32, 64, 128, 256, 512, 1024, 2048, 4096, 8192, 16384, 32768, 65536,
   131072, 262144, 524288, 1048576, 2097152, 4194304, 8388608, 16777216, 33554432,
   67108864, 134217728, 268435456, 536870912, 1073741824}
NextPow2(n) == CHOOSE p \in Powers : p >= n /\ (p = 1 \/ p < 2 * n)

Empty == [key |-> -1, val |-> -1]
Occupied(s) == table[s] # Empty

Init ==
  /\ \/ kind = "group" /\ build \in GroupInputs /\ probe = << >>
     \/ kind \in {"inner", "left"} /\ \E in \in JoinInputs : probe = in[1] /\ build = in[2]
  /\ \E hint \in Hints :
       cap = Larger(MinHtCap, IF hint = 0 THEN NextPow2(2 * Larger(Len(build), 1)) ELSE hint)
  /\ table = << >>
  /\ outCap = Larger(1, Len(probe) + Len(build))
  /\ out = << >> /\ total = 0
  /\ pc = "alloc" /\ row = 1 /\ probes = 0 /\ matched = FALSE
  /\ todo = IF kind = "group" THEN <<"table">> ELSE <<"table", "out_l", "out_r">>
  /\ held = {}

-----------------------------------------------------------------------------
(* The wrappers.                                                           *)

\* Mutant: the table is not zeroed before the kernel is called again.
ZeroedOnce(c) ==
  [s \in 0 .. c - 1 |-> IF s \in DOMAIN table THEN table[s] ELSE Empty]

Zeroed(c) == [s \in 0 .. c - 1 |-> Empty]

\* A buffer is freed before its successor is allocated; a kernel starts over.
AllocNext ==
  /\ pc = "alloc" /\ todo # << >>
  /\ held' = held \cup {Head(todo)}
  /\ todo' = Tail(todo)
  /\ table' = IF Head(todo) = "table" THEN Zeroed(cap) ELSE table
  /\ UNCHANGED <<inputs, cap, outCap, out, total, pc, row, probes, matched>>

Call ==
  /\ pc = "alloc" /\ todo = << >>
  /\ pc' = "build" /\ row' = 1 /\ probes' = 0 /\ out' = << >> /\ total' = 0
  /\ UNCHANGED <<inputs, cap, table, outCap, matched, todo, held>>

\* The exception leaves through the finally clause.
AllocFails ==
  /\ pc = "alloc" /\ todo # << >> /\ MayFail
  /\ pc' = "failed" /\ held' = {} /\ todo' = << >>
  /\ UNCHANGED <<inputs, cap, table, outCap, out, total, row, probes, matched>>

\* Mutant: the table is not enlarged.
SameCap(c) == c

NewCap(c) == 2 * c

\* The kernel returned -1.
Enlarge ==
  /\ pc' = "alloc" /\ cap' = NewCap(cap)
  /\ held' = held \ {"table"} /\ todo' = <<"table">>
  /\ UNCHANGED <<inputs, table, outCap, out, total, row, probes, matched>>

\* The kernel returned more pairs than fit.
EnlargeOutput ==
  /\ pc = "probe" /\ row > Len(probe) /\ total > outCap
  /\ pc' = "alloc" /\ outCap' = total
  /\ held' = held \ {"out_l", "out_r"} /\ todo' = <<"out_l", "out_r", "table">>
  /\ UNCHANGED <<inputs, cap, table, out, total, row, probes, matched>>

\* A grouping leaves its ids where the caller wants them; a join copies as many
\* pairs as the kernel returned.
Return ==
  /\ \/ pc = "build" /\ kind = "group" /\ row > Len(build) /\ out' = out
     \/ pc = "probe" /\ row > Len(probe) /\ total \in 0 .. outCap /\ out' = SubSeq(out, 1, total)
  /\ pc' = "done" /\ held' = {}
  /\ UNCHANGED <<inputs, cap, table, outCap, total, row, probes, matched, todo>>

\* The count has wrapped: -1 is taken for a full table, and no array is made of
\* another negative length.
Miscounted ==
  /\ pc = "probe" /\ row > Len(probe) /\ total < 0
  /\ IF total = -1 THEN Enlarge
     ELSE /\ pc' = "failed" /\ held' = {}
          /\ UNCHANGED <<inputs, cap, table, outCap, out, total, row, probes, matched, todo>>

-----------------------------------------------------------------------------
(* The kernels: the building of the table.                                 *)

\* Mutant: null rows hash like the value 0.
GroupHashOfZero(x) == IF x = Null THEN 0 ELSE x

GroupHash(x) == IF x = Null THEN HNull ELSE x

BuildHash == IF kind = "group" THEN GroupHash(build[row]) ELSE build[row]

\* Mutant: the stride grows with the probes.
SlotOfGrowing(h) == (h + (probes * (probes + 1)) \div 2) % cap

\* The slot under probe: s = (s + 1) % cap from h % cap.
SlotOf(h) == (h + probes) % cap

LastProbe == probes + 1 >= cap

NextRow == row' = row + 1 /\ probes' = 0 /\ matched' = FALSE

Building == pc = "build" /\ row <= Len(build)

\* Null rows of a join are never matchable.
BuildSkip ==
  /\ Building /\ kind # "group" /\ build[row] = Null
  /\ NextRow
  /\ UNCHANGED <<inputs, cap, table, outCap, out, total, pc, todo, held>>

Inserting == Building /\ (kind = "group" \/ build[row] # Null)

Insert ==
  /\ Inserting /\ ~Occupied(SlotOf(BuildHash))
  /\ LET val == IF kind = "group" THEN total ELSE row - 1 IN
     /\ table' = [table EXCEPT ![SlotOf(BuildHash)] = [key |-> BuildHash, val |-> val]]
     /\ IF kind = "group" THEN out' = Append(out, total) /\ total' = total + 1
        ELSE UNCHANGED <<out, total>>
  /\ NextRow
  /\ UNCHANGED <<inputs, cap, outCap, pc, todo, held>>

Found(h) == kind = "group" /\ table[SlotOf(h)].key = h

KnownGroup ==
  /\ Inserting /\ Occupied(SlotOf(BuildHash)) /\ Found(BuildHash)
  /\ out' = Append(out, table[SlotOf(BuildHash)].val)
  /\ NextRow
  /\ UNCHANGED <<inputs, cap, table, outCap, total, pc, todo, held>>

Collide ==
  /\ Inserting /\ Occupied(SlotOf(BuildHash)) /\ ~Found(BuildHash)
  /\ IF LastProbe THEN Enlarge
     ELSE /\ probes' = probes + 1
          /\ UNCHANGED <<inputs, cap, table, outCap, out, total, pc, row, matched, todo, held>>

Built ==
  /\ pc = "build" /\ kind # "group" /\ row > Len(build)
  /\ pc' = "probe" /\ row' = 1 /\ probes' = 0 /\ matched' = FALSE
  /\ UNCHANGED <<inputs, cap, table, outCap, out, total, todo, held>>

-----------------------------------------------------------------------------
(* The kernels: the probing of the left rows.                              *)

Probing == pc = "probe" /\ row <= Len(probe)

\* Written while it fits, which a negative count always does; an address is
\* modulo 2^32, so that the index of a number of four bytes is modulo 2^30.
Stored(pair) ==
  LET i == (total % CountLimit) + 1 IN
  IF total >= outCap THEN out
  ELSE IF i <= Len(out) THEN [out EXCEPT ![i] = pair] ELSE Append(out, pair)

\* A pair is counted always, in an i32.
Emit(r) ==
  /\ total' = IF total + 1 = CountLimit THEN -CountLimit ELSE total + 1
  /\ out' = Stored(<<row - 1, r>>)

\* A left join pairs an unmatched row with -1.
EmitUnmatched(found) ==
  IF kind = "left" /\ ~found THEN Emit(-1) ELSE UNCHANGED <<out, total>>

ProbeNull ==
  /\ Probing /\ probe[row] = Null
  /\ EmitUnmatched(FALSE) /\ NextRow
  /\ UNCHANGED <<inputs, cap, table, outCap, pc, todo, held>>

ProbeSlot ==
  /\ Probing /\ probe[row] # Null
  /\ LET slot == table[SlotOf(probe[row])]
         hit == slot.key = probe[row] IN
     IF slot = Empty THEN EmitUnmatched(matched) /\ NextRow
     ELSE IF LastProbe THEN (IF hit THEN Emit(slot.val) ELSE EmitUnmatched(matched)) /\ NextRow
     ELSE /\ IF hit THEN Emit(slot.val) ELSE UNCHANGED <<out, total>>
          /\ matched' = (matched \/ hit) /\ probes' = probes + 1 /\ UNCHANGED row
  /\ UNCHANGED <<inputs, cap, table, outCap, pc, todo, held>>

Next ==
  \/ AllocNext \/ Call \/ AllocFails \/ EnlargeOutput \/ Return \/ Miscounted
  \/ BuildSkip \/ Insert \/ KnownGroup \/ Collide \/ Built
  \/ ProbeNull \/ ProbeSlot

Spec == Init /\ [][Next]_vars
FairSpec == Spec /\ WF_vars(Next)

-----------------------------------------------------------------------------
(* Properties.                                                             *)

\* Every variable ranges over its type; probes stay within the table, and what
\* a call holds while a kernel runs it has given back when it ends.
TypeOK ==
  /\ cap \in Nat \ {0} /\ outCap \in Nat \ {0}
  /\ IF kind = "group" THEN total \in Nat ELSE total \in -CountLimit .. CountLimit - 1
  /\ pc \in {"alloc", "build", "probe", "done", "failed"}
  /\ probes \in 0 .. cap - 1 /\ matched \in BOOLEAN
  /\ row \in 1 .. Len(build) + Len(probe) + 1
  /\ pc \in {"build", "probe"} =>
       /\ DOMAIN table = 0 .. cap - 1 /\ todo = << >>
       /\ held = IF kind = "group" THEN {"table"} ELSE {"table", "out_l", "out_r"}
  /\ \A s \in DOMAIN table : Occupied(s) => table[s].key \in Hashes \cup {HNull} /\ table[s].val \in Nat
  /\ pc \in {"done", "failed"} => held = {}

\* How far slot s is from the home of the key in it.
Distance(s) == (s - table[s].key) % cap

\* While a kernel runs, no empty slot separates a key from its home, so that a
\* probe which ends at an empty slot has seen every slot of its key; equal keys
\* lie in the order of their rows, and a group has one slot.
ChainsUnbroken ==
  pc \in {"build", "probe"} =>
    /\ \A s \in DOMAIN table : Occupied(s) =>
         \A k \in 0 .. Distance(s) : Occupied((table[s].key + k) % cap)
    /\ \A s, t \in DOMAIN table : s # t /\ Occupied(s) /\ table[s].key = table[t].key =>
         /\ kind # "group"
         /\ Distance(s) < Distance(t) <=> table[s].val < table[t].val

\* What every step of a kernel or a wrapper preserves: the table is one that the
\* probes can rely on, and the call holds what it has allocated and not given back.
TableInv == TypeOK /\ ChainsUnbroken

\* The pairs of rows a join is to give, in the order it is to give them.
Matches ==
  {m \in (1 .. Len(probe)) \X (1 .. Len(build)) : probe[m[1]] = build[m[2]] /\ probe[m[1]] # Null}
Unmatched == {l \in 1 .. Len(probe) : \A m \in Matches : m[1] # l}
Expected ==
  {<<m[1] - 1, m[2] - 1>> : m \in Matches}
  \cup (IF kind = "left" THEN {<<l - 1, -1>> : l \in Unmatched} ELSE {})
Before(p, q) == p[1] < q[1] \/ (p[1] = q[1] /\ p[2] < q[2])

\* What fits in a buffer allocated for n pairs: alloc takes 4 * n modulo 2^32.
RoomFor(n) == n % Words

\* A join of fewer pairs than memory has words writes inside its buffers and,
\* however often it was called again, ends with each matching pair once, by left
\* row and, for equal left rows, by right row; it does not end as miscounted.
JoinExact ==
  kind # "group" /\ Cardinality(Expected) < Words =>
    /\ Len(out) <= RoomFor(outCap)
    /\ pc = "probe" => total >= 0
    /\ pc = "done" =>
         /\ {out[i] : i \in 1 .. Len(out)} = Expected /\ total = Len(out)
         /\ \A i, j \in 1 .. Len(out) : i < j => Before(out[i], out[j])

\* A grouping ends with rows in the same group exactly when they are equal, null
\* rows forming one group, and groups numbered as they first occur.
GroupsExact ==
  pc = "done" /\ kind = "group" =>
    /\ Len(out) = Len(build) /\ total = Cardinality({build[i] : i \in 1 .. Len(build)})
    /\ \A i, j \in 1 .. Len(build) : out[i] = out[j] <=> build[i] = build[j]
    /\ \A i \in 1 .. Len(build) : \A g \in 0 .. out[i] - 1 : \E j \in 1 .. i - 1 : out[j] = g

\* The retries end.
Finishes == <>(pc \in {"done", "failed"})
=============================================================================
