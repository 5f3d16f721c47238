--------------------------- MODULE ThreadsProofs ---------------------------
(***************************************************************************)
(* Proofs about Chunks and Threads: how a column is split; that for any    *)
(* programs, any pool and any losses of workers no two workers meet in a   *)
(* cell that one of them writes, and the memory they leave is that of one  *)
(* thread; and, without distinct counts, what they return is as well.      *)
(***************************************************************************)
EXTENDS Threads, ReduceProofs

-----------------------------------------------------------------------------
(* What splitChunks promises the workers, for every length and every number *)
(* of workers.                                                              *)

\* Euclid's division, for the divisions by a variable.
LEMMA QuotientFacts ==
  ASSUME NEW a \in Nat, NEW d \in Nat \ {0}
  PROVE  /\ a \div d \in Nat
         /\ d * (a \div d) <= a
         /\ a < d * (a \div d) + d
  BY SMT

LEMMA ChunkSizeType ==
  ASSUME NEW len \in Nat \ {0}, NEW w \in Nat \ {0}
  PROVE  ChunkSize(len, w) \in Nat \ {0} /\ ChunkSize(len, w) % 8 = 0
  <1> DEFINE raw == (len + w - 1) \div w
  <1>1. raw \in Nat /\ len + w - 1 < w * raw + w
    BY QuotientFacts
  <1>2. raw # 0
    BY <1>1
  <1>3. QED
    BY <1>1, <1>2 DEF ChunkSize, BytesFor

\* Products of naturals grow with their factor.
LEMMA Products ==
  ASSUME NEW c \in Nat, NEW i \in Int, NEW j \in Int, i <= j
  PROVE  c * i \in Int /\ c * j \in Int /\ c * i <= c * j
  BY SMT

\* The number of chunks and what each of them is.
LEMMA SplitShape ==
  ASSUME NEW len \in Nat \ {0}, NEW cs \in Nat \ {0}
  PROVE  /\ Len(Split(len, cs)) = (len + cs - 1) \div cs
         /\ Len(Split(len, cs)) \in Nat \ {0}
         /\ DOMAIN Split(len, cs) = 1 .. Len(Split(len, cs))
         /\ cs * Len(Split(len, cs)) >= len
         /\ cs * (Len(Split(len, cs)) - 1) < len
  <1> DEFINE q == (len + cs - 1) \div cs
  <1>1. q \in Nat /\ cs * q <= len + cs - 1 /\ len + cs - 1 < cs * q + cs
    BY QuotientFacts
  <1>2. q # 0
    BY <1>1
  <1>3. Len(Split(len, cs)) = q /\ DOMAIN Split(len, cs) = 1 .. q
    BY <1>1 DEF Split
  <1>4. cs * (q - 1) = cs * q - cs
    BY <1>1
  <1>5. cs * q \in Int
    BY <1>1
  <1> HIDE DEF q
  <1>6. cs * q >= len /\ cs * (q - 1) < len
    BY <1>1, <1>4, <1>5
  <1>7. QED
    BY <1>1, <1>2, <1>3, <1>6 DEF q

\* Every chunk starts at a multiple of eight rows, where a byte of a bitmap
\* starts: vpPtr + (s >> 3) in parallel.ts points at the chunk's first bit.
THEOREM ChunksAligned ==
  ASSUME NEW len \in Nat, NEW w \in Nat, NEW k \in DOMAIN splitChunks(len, w)
  PROVE  splitChunks(len, w)[k][1] % 8 = 0
  <1>1. len # 0 /\ w > 0
    BY DEF splitChunks
  <1> DEFINE cs == ChunkSize(len, w)
             bytes == BytesFor((len + w - 1) \div w)
  <1>2. cs \in Nat \ {0}
    BY <1>1, ChunkSizeType
  <1>3. bytes \in Nat /\ cs = 8 * bytes
    BY <1>1, QuotientFacts DEF ChunkSize, BytesFor
  <1> HIDE DEF bytes
  <1>4. splitChunks(len, w) = Split(len, cs)
    BY <1>1 DEF splitChunks
  <1> HIDE DEF cs
  <1>5. k \in Int /\ splitChunks(len, w)[k][1] = cs * (k - 1)
    BY <1>1, <1>2, <1>4, SplitShape DEF Split
  <1>6. bytes * (k - 1) \in Int
    BY <1>3, <1>5
  <1>7. cs * (k - 1) = 8 * (bytes * (k - 1))
    BY <1>3, <1>5
  <1>8. QED
    BY <1>5, <1>6, <1>7

\* A chunk for each worker at most: broadcastKernel sends the chunk k to the
\* slot k and would leave out the chunks beyond the slots.
THEOREM ChunksFew ==
  ASSUME NEW len \in Nat, NEW w \in Nat
  PROVE  Len(splitChunks(len, w)) <= w
  <1>1. CASE len = 0 \/ w = 0
    BY <1>1 DEF splitChunks
  <1>2. CASE len # 0 /\ w # 0
    <2> DEFINE cs == ChunkSize(len, w)
               raw == (len + w - 1) \div w
               n == Len(splitChunks(len, w))
    <2>1. cs \in Nat \ {0}
      BY <1>2, ChunkSizeType
    <2>2. n = Len(Split(len, cs))
      BY <1>2 DEF splitChunks
    <2>3. cs = 8 * ((raw + 7) \div 8)
      BY DEF ChunkSize, BytesFor
    <2> HIDE DEF cs, raw, n
    <2>4. n \in Nat \ {0} /\ cs * (n - 1) < len
      BY <1>2, <2>1, <2>2, SplitShape
    <2>5. raw \in Nat /\ len + w - 1 < w * raw + w
      BY <1>2, QuotientFacts DEF raw
    <2>6. raw <= cs
      BY <2>5, <2>3
    <2>7. w * raw <= w * cs /\ w * raw \in Int /\ w * cs \in Int
      BY <2>1, <2>5, <2>6, Products
    <2>8. len <= w * cs
      BY <2>5, <2>7
    <2>9. ASSUME n > w PROVE FALSE
      <3>1. cs * w <= cs * (n - 1) /\ cs * w \in Int /\ cs * (n - 1) \in Int
        BY <2>1, <2>4, <2>9, Products
      <3>2. cs * w = w * cs
        BY <2>1
      <3>3. QED
        BY <2>4, <2>7, <2>8, <3>1, <3>2
    <2>10. QED
      BY <2>4, <2>9 DEF n
  <1>3. QED
    BY <1>1, <1>2

\* Every row is in exactly one chunk, and no chunk reaches past the rows: the
\* workers store every element once, and only elements of the output.
THEOREM ChunksPartition ==
  ASSUME NEW len \in Nat, NEW w \in Nat \ {0}
  PROVE  /\ \A row \in 0 .. len - 1 :
              \E k \in DOMAIN splitChunks(len, w) : row \in ChunkRows(splitChunks(len, w)[k])
         /\ \A j, k \in DOMAIN splitChunks(len, w) :
              j # k => ChunkRows(splitChunks(len, w)[j]) \cap ChunkRows(splitChunks(len, w)[k]) = {}
         /\ \A k \in DOMAIN splitChunks(len, w) : ChunkRows(splitChunks(len, w)[k]) \subseteq 0 .. len - 1
  <1>1. CASE len = 0
    BY <1>1 DEF splitChunks
  <1>2. CASE len # 0
    <2> DEFINE cs == ChunkSize(len, w)
               n == Len(splitChunks(len, w))
               chunk(k) == splitChunks(len, w)[k]
    <2>1. cs \in Nat \ {0}
      BY <1>2, ChunkSizeType
    <2>2. splitChunks(len, w) = Split(len, cs)
      BY <1>2 DEF splitChunks
    <2> HIDE DEF cs
    <2>3. /\ cs \in Nat \ {0} /\ n \in Nat \ {0} /\ cs * n >= len
          /\ DOMAIN splitChunks(len, w) = 1 .. n
      BY <1>2, <2>1, <2>2, SplitShape
    <2>4. \A k \in 1 .. n : chunk(k) = <<cs * (k - 1), IF cs * k < len THEN cs * k ELSE len>>
      BY <2>3, <2>2 DEF Split
    <2> HIDE DEF n, chunk
    <2>5. \A k \in 1 .. n : cs * k \in Int /\ cs * (k - 1) \in Nat /\ cs * (k - 1) = cs * k - cs
      BY <2>3
    <2>6. ASSUME NEW row \in 0 .. len - 1
          PROVE  \E k \in 1 .. n : row \in ChunkRows(chunk(k))
      <3> DEFINE k == (row \div cs) + 1
      <3>1. row \div cs \in Nat /\ cs * (row \div cs) <= row /\ row < cs * (row \div cs) + cs
        BY <2>3, QuotientFacts
      <3>2. k \in Nat \ {0} /\ cs * (k - 1) <= row /\ row < cs * k /\ cs * k \in Int /\ cs * (k - 1) \in Int
        BY <2>3, <3>1
      <3> HIDE DEF k
      <3>3. k <= n
        <4>1. SUFFICES ASSUME k > n PROVE FALSE
          BY <2>3, <3>2
        <4>2. cs * n <= cs * (k - 1) /\ cs * n \in Int
          BY <2>3, <3>2, <4>1, Products
        <4>3. QED
          BY <2>3, <3>2, <4>2
      <3>4. row \in ChunkRows(chunk(k))
        BY <2>4, <3>2, <3>3 DEF ChunkRows
      <3>5. QED
        BY <3>2, <3>3, <3>4
    <2>7. ASSUME NEW j \in 1 .. n, NEW k \in 1 .. n, j < k
          PROVE  ChunkRows(chunk(j)) \cap ChunkRows(chunk(k)) = {}
      <3>1. cs * j <= cs * (k - 1)
        BY <2>3, <2>7, Products
      <3>2. QED
        BY <2>4, <2>5, <3>1 DEF ChunkRows
    <2>8. ASSUME NEW k \in 1 .. n PROVE ChunkRows(chunk(k)) \subseteq 0 .. len - 1
      BY <2>4, <2>5 DEF ChunkRows
    <2>9. \A j, k \in 1 .. n : j # k => j < k \/ k < j
      BY <2>3
    <2>10. \A j, k \in 1 .. n : j # k => ChunkRows(chunk(j)) \cap ChunkRows(chunk(k)) = {}
      BY <2>7, <2>9
    <2>11. QED
      BY <2>3, <2>6, <2>8, <2>10 DEF chunk
  <1>3. QED
    BY <1>1, <1>2

-----------------------------------------------------------------------------
(* The inductive invariant.                                                *)

Tasks ==
  [call : Nat, chunk : Nat, kernel : STRING, a : Nat, b : Nat, out : Nat, vp : Nat, len : Nat]

ThreadsTypeOK ==
  /\ program \in Programs
  /\ issued \in 0 .. Len(program.ops)
  /\ status \in [Ops -> {"idle", "waiting", "resolved", "rejected"}]
  /\ DOMAIN partials = Ops
  /\ nextSlot \in Slots
  /\ queue \in [Slots -> Seq(Tasks)]

\* Operations start in order, each when the one it awaits has resolved.
StartedInOrder ==
  /\ \A c \in Ops : c <= issued <=> status[c] # "idle"
  /\ \A c \in 1 .. issued : Op(c).after # 0 => status[Op(c).after] = "resolved"

\* A task is the kernel of its operation over the rows of its chunk.
PartOf(t) ==
  LET chunks == splitChunks(Op(t.call).len, program.size)
      s == chunks[t.chunk][1] IN
  /\ t.chunk \in DOMAIN chunks
  /\ t.kernel = Op(t.call).kernel
  /\ t.a = Op(t.call).a + s /\ t.b = Op(t.call).b + s /\ t.out = Op(t.call).out + s
  /\ t.vp = IF Op(t.call).vp = 0 THEN 0 ELSE Op(t.call).vp + s \div 8
  /\ t.len = chunks[t.chunk][2] - s

\* What is queued has no answer, and its operation has not resolved.
QueuedOpen ==
  \A w \in Slots, t \in Tasks : \A j \in 1 .. Len(queue[w]) :
    queue[w][j] = t =>
      /\ t.call \in 1 .. issued /\ status[t.call] # "resolved"
      /\ t.chunk \in DOMAIN partials[t.call] /\ partials[t.call][t.chunk] = Unanswered
      /\ PartOf(t)

\* A chunk is sent once.
SentOnce ==
  \A w, x \in Slots : \A i \in 1 .. Len(queue[w]), j \in 1 .. Len(queue[x]) :
    queue[w][i].call = queue[x][j].call /\ queue[w][i].chunk = queue[x][j].chunk => w = x /\ i = j

ThreadsInv == ThreadsTypeOK /\ StartedInOrder /\ QueuedOpen /\ SentOnce

-----------------------------------------------------------------------------
(* Facts about a program and its chunks.                                   *)

LEMMA ElementOf ==
  ASSUME NEW S, NEW s \in Seq(S), NEW i \in DOMAIN s
  PROVE  s[i] \in S
OBVIOUS

LEMMA ProgramFacts ==
  ASSUME program \in Programs
  PROVE  /\ program.size \in Nat \ {0}
         /\ Len(program.ops) \in Nat /\ Ops = DOMAIN program.ops
         /\ \A c \in Ops :
              /\ c \in Nat \ {0}
              /\ Op(c).kernel \in STRING /\ Op(c).a \in Nat /\ Op(c).b \in Nat /\ Op(c).out \in Nat
              /\ Op(c).vp \in Nat /\ Op(c).len \in Nat /\ Op(c).after \in Nat /\ Op(c).after < c
<1>1. program.ops \in Seq([kind : {"sum", "mean", "min", "max", "reduce", "binary"}, kernel : STRING,
                           a : Nat, b : Nat, out : Nat, vp : Nat, len : Nat, after : Nat])
  BY ProgramsAssumption
<1>2. \A c \in DOMAIN program.ops : program.ops[c].after < c
  BY ProgramsAssumption
<1>3. program.size \in Nat \ {0}
  BY ProgramsAssumption
<1>4. Len(program.ops) \in Nat /\ Ops = DOMAIN program.ops
  BY <1>1 DEF Ops
<1>5. ASSUME NEW c \in Ops
      PROVE  /\ c \in Nat \ {0}
             /\ Op(c).kernel \in STRING /\ Op(c).a \in Nat /\ Op(c).b \in Nat /\ Op(c).out \in Nat
             /\ Op(c).vp \in Nat /\ Op(c).len \in Nat /\ Op(c).after \in Nat /\ Op(c).after < c
  <2>1. c \in DOMAIN program.ops /\ c \in Nat \ {0}
    BY <1>4 DEF Ops
  <2>2. Op(c) \in [kind : {"sum", "mean", "min", "max", "reduce", "binary"}, kernel : STRING,
                   a : Nat, b : Nat, out : Nat, vp : Nat, len : Nat, after : Nat]
    BY <1>1, <2>1, ElementOf DEF Op
  <2>3. Op(c).after < c
    BY <1>2, <2>1 DEF Op
  <2> QED BY <2>1, <2>2, <2>3
<1> QED BY <1>3, <1>4, <1>5

\* The chunks of an operation: how many, and that they are rows of it, apart.
LEMMA ChunkFacts ==
  ASSUME NEW len \in Nat, NEW w \in Nat \ {0}
  PROVE  /\ Len(splitChunks(len, w)) \in 0 .. w
         /\ DOMAIN splitChunks(len, w) = 1 .. Len(splitChunks(len, w))
         /\ \A k \in DOMAIN splitChunks(len, w) :
              /\ splitChunks(len, w)[k][1] \in Nat /\ splitChunks(len, w)[k][2] \in Nat
              /\ splitChunks(len, w)[k][1] <= splitChunks(len, w)[k][2]
              /\ splitChunks(len, w)[k][2] <= len
         /\ Len(splitChunks(len, w)) = 1 => splitChunks(len, w)[1] = <<0, len>>
<1>1. CASE len = 0
  BY <1>1 DEF splitChunks
<1>2. CASE len # 0
  <2> DEFINE cs == ChunkSize(len, w)
             n == Len(splitChunks(len, w))
  <2>1. cs \in Nat \ {0} /\ splitChunks(len, w) = Split(len, cs)
    BY <1>2, ChunkSizeType DEF splitChunks
  <2> HIDE DEF cs
  <2>2. n \in Nat \ {0} /\ DOMAIN splitChunks(len, w) = 1 .. n /\ cs * n >= len /\ cs * (n - 1) < len
    BY <1>2, <2>1, SplitShape
  <2>3. \A k \in 1 .. n : splitChunks(len, w)[k] = <<cs * (k - 1), IF cs * k < len THEN cs * k ELSE len>>
    BY <2>1, <2>2 DEF Split
  <2>4. n <= w
    BY ChunksFew
  <2> HIDE DEF n
  <2>5. ASSUME NEW k \in 1 .. n
        PROVE  cs * (k - 1) \in Nat /\ cs * k \in Nat /\ cs * (k - 1) < len /\ cs * (k - 1) <= cs * k
    <3>1. cs * (k - 1) <= cs * (n - 1) /\ cs * (n - 1) \in Int
      BY <2>1, <2>2, Products
    <3>2. cs * (k - 1) \in Nat /\ cs * k \in Nat /\ cs * (k - 1) = cs * k - cs
      BY <2>1, <2>2
    <3> QED BY <2>1, <2>2, <3>1, <3>2
  <2>6. n = 1 => cs * 1 >= len
    BY <2>2
  <2> QED BY <2>1, <2>2, <2>3, <2>4, <2>5, <2>6 DEF n
<1> QED BY <1>1, <1>2

\* Chunks of the same rows are one chunk.
LEMMA ChunksApart ==
  ASSUME NEW len \in Nat, NEW w \in Nat \ {0}, NEW j \in DOMAIN splitChunks(len, w), NEW k \in DOMAIN splitChunks(len, w),
         NEW row \in Int, row \in ChunkRows(splitChunks(len, w)[j]), row \in ChunkRows(splitChunks(len, w)[k])
  PROVE  j = k /\ row \in 0 .. len - 1
BY ChunksPartition

-----------------------------------------------------------------------------
(* Two workers.                                                            *)

\* What is queued, by its place.
LEMMA QueuedFacts ==
  ASSUME ThreadsTypeOK, QueuedOpen, NEW w \in Slots, NEW j \in 1 .. Len(queue[w])
  PROVE  /\ queue[w][j] \in Tasks
         /\ queue[w][j].call \in 1 .. issued /\ queue[w][j].call \in Ops
         /\ status[queue[w][j].call] # "resolved"
         /\ queue[w][j].chunk \in DOMAIN partials[queue[w][j].call]
         /\ partials[queue[w][j].call][queue[w][j].chunk] = Unanswered
         /\ PartOf(queue[w][j])
<1>1. queue[w] \in Seq(Tasks) /\ program \in Programs /\ issued \in 0 .. Len(program.ops)
  BY DEF ThreadsTypeOK
<1>2. queue[w][j] \in Tasks
  BY <1>1, ElementOf
<1>3. Len(program.ops) \in Nat /\ Ops = 1 .. Len(program.ops)
  BY <1>1, ProgramFacts DEF Ops
<1> QED BY <1>1, <1>2, <1>3 DEF QueuedOpen

\* A task is a part of its operation whatever else changes.
LEMMA PartStays ==
  ASSUME NEW t, program' = program
  PROVE  PartOf(t)' <=> PartOf(t)
BY DEF PartOf, Op

\* What has been awaited has resolved: the resolved operations are closed under
\* what each of them awaits.
LEMMA AwaitedResolved ==
  ASSUME ThreadsTypeOK, StartedInOrder, NEW c \in 1 .. issued, NEW d \in Awaited(program.ops, c)
  PROVE  status[d] = "resolved"
<1> DEFINE S == {x \in Ops : status[x] = "resolved"}
<1>1. program \in Programs /\ issued \in 0 .. Len(program.ops)
  BY DEF ThreadsTypeOK
<1>2. Ops = DOMAIN program.ops /\ Ops = 1 .. Len(program.ops) /\ Len(program.ops) \in Nat
  BY <1>1, ProgramFacts DEF Ops
<1>3. S \in SUBSET DOMAIN program.ops
  BY <1>2
<1>4. ASSUME NEW x \in S \cup {c}, program.ops[x].after # 0
      PROVE  program.ops[x].after \in S
  <2>1. x \in Ops /\ x \in 1 .. issued
    BY <1>1, <1>2 DEF StartedInOrder
  <2>2. Op(x).after \in Ops
    BY <1>1, <1>2, <1>4, <2>1, ProgramFacts DEF Op
  <2> QED BY <1>4, <2>1, <2>2 DEF StartedInOrder, Op
<1>5. d \in S
  BY <1>3, <1>4 DEF Awaited
<1> QED BY <1>5

\* What a task writes and reads is of its operation's.
LEMMA PartRows ==
  ASSUME ThreadsTypeOK, NEW t \in Tasks, t.call \in Ops, PartOf(t)
  PROVE  Writes(t) \subseteq Writes(Op(t.call)) /\ Reads(t) \subseteq Reads(Op(t.call))
<1> DEFINE o == Op(t.call)
           chunks == splitChunks(o.len, program.size)
           s == chunks[t.chunk][1]
           e == chunks[t.chunk][2]
<1>1. program \in Programs
  BY DEF ThreadsTypeOK
<1>2. /\ program.size \in Nat \ {0} /\ o.len \in Nat /\ o.a \in Nat /\ o.b \in Nat /\ o.out \in Nat
  BY <1>1, ProgramFacts
<1>3. /\ t.chunk \in DOMAIN chunks /\ t.kernel = o.kernel
      /\ t.a = o.a + s /\ t.b = o.b + s /\ t.out = o.out + s /\ t.len = e - s
  BY DEF PartOf
<1>4. s \in Nat /\ e \in Nat /\ s <= e /\ e <= o.len
  BY <1>2, <1>3, ChunkFacts
<1> HIDE DEF o, chunks, s, e
<1>5. /\ Rows(t.out, t.len) \subseteq Rows(o.out, o.len)
      /\ Rows(t.a, t.len) \subseteq Rows(o.a, o.len)
      /\ Rows(t.b, t.len) \subseteq Rows(o.b, o.len)
  BY <1>2, <1>3, <1>4 DEF Rows
<1>6. Writes(t) \subseteq Writes(o) /\ Reads(t) \subseteq Reads(o)
  BY <1>3, <1>5 DEF Writes, Reads
<1> QED BY <1>6 DEF o

\* Two chunks of one operation: an operand is the output, row by row, or apart
\* from it.
LEMMA ChunksMeetNot ==
  ASSUME ThreadsTypeOK, NEW t \in Tasks, NEW u \in Tasks, t.call \in Ops, u.call = t.call, t.chunk # u.chunk,
         PartOf(t), PartOf(u)
  PROVE  Writes(t) \cap (Writes(u) \cup Reads(u)) = {}
<1> DEFINE o == Op(t.call)
           chunks == splitChunks(o.len, program.size)
           s == chunks[t.chunk][1]
           e == chunks[t.chunk][2]
           q == chunks[u.chunk][1]
           r == chunks[u.chunk][2]
<1>1. program \in Programs
  BY DEF ThreadsTypeOK
<1>2. /\ program.size \in Nat \ {0} /\ o.len \in Nat /\ o.a \in Nat /\ o.b \in Nat /\ o.out \in Nat
  BY <1>1, ProgramFacts
<1>3. /\ t.chunk \in DOMAIN chunks /\ t.kernel = o.kernel
      /\ t.a = o.a + s /\ t.b = o.b + s /\ t.out = o.out + s /\ t.len = e - s
  BY DEF PartOf
<1>4. /\ u.chunk \in DOMAIN chunks /\ u.kernel = o.kernel
      /\ u.a = o.a + q /\ u.b = o.b + q /\ u.out = o.out + q /\ u.len = r - q
  BY DEF PartOf
<1>5. s \in Nat /\ e \in Nat /\ s <= e /\ e <= o.len /\ q \in Nat /\ r \in Nat /\ q <= r /\ r <= o.len
  BY <1>2, <1>3, <1>4, ChunkFacts
<1>6. ASSUME NEW row \in s .. e - 1, row \in q .. r - 1 PROVE FALSE
  <2>1. row \in ChunkRows(chunks[t.chunk]) /\ row \in ChunkRows(chunks[u.chunk]) /\ row \in Int
    BY <1>5, <1>6 DEF ChunkRows
  <2> QED BY <1>2, <1>3, <1>4, <2>1, ChunksApart
<1>7. o.kernel \in BinaryKernels =>
        \A ptr \in {o.a, o.b} : o.out = ptr \/ Rows(o.out, o.len) \cap Rows(ptr, o.len) = {}
  BY <1>1, ProgramFacts, ProgramsAssumption DEF Op
<1> HIDE DEF o, chunks, s, e, q, r
<1>8. CASE o.kernel \notin BinaryKernels
  BY <1>3, <1>8 DEF Writes
<1>9. CASE o.kernel \in BinaryKernels
  <2>1. SUFFICES ASSUME NEW x, x \in Rows(t.out, t.len),
                        x \in Rows(u.out, u.len) \/ x \in Rows(u.a, u.len) \/ x \in Rows(u.b, u.len)
                 PROVE  FALSE
    BY DEF Writes, Reads
  <2>2. x \in Int /\ x - o.out \in s .. e - 1 /\ x \in Rows(o.out, o.len)
    BY <1>2, <1>3, <1>5, <2>1 DEF Rows
  <2>3. CASE x \in Rows(u.out, u.len)
    <3>1. x - o.out \in q .. r - 1
      BY <1>2, <1>4, <1>5, <2>2, <2>3 DEF Rows
    <3> QED BY <1>6, <2>2, <3>1
  <2>4. CASE x \in Rows(u.a, u.len)
    <3>1. x - o.a \in q .. r - 1 /\ x \in Rows(o.a, o.len)
      BY <1>2, <1>4, <1>5, <2>2, <2>4 DEF Rows
    <3>2. o.out = o.a
      BY <1>7, <1>9, <2>2, <3>1
    <3> QED BY <1>6, <2>2, <3>1, <3>2
  <2>5. CASE x \in Rows(u.b, u.len)
    <3>1. x - o.b \in q .. r - 1 /\ x \in Rows(o.b, o.len)
      BY <1>2, <1>4, <1>5, <2>2, <2>5 DEF Rows
    <3>2. o.out = o.b
      BY <1>7, <1>9, <2>2, <3>1
    <3> QED BY <1>6, <2>2, <3>1, <3>2
  <2> QED BY <2>1, <2>3, <2>4, <2>5
<1> QED BY <1>8, <1>9

\* Of two operations with tasks in the queues neither has awaited the other.
LEMMA OpenTogether ==
  ASSUME ThreadsInv, NEW c \in 1 .. issued, NEW d \in 1 .. issued, c # d,
         status[c] # "resolved", status[d] # "resolved"
  PROVE  ~Conflict(Op(c), Op(d))
<1>1. program \in Programs /\ issued \in 0 .. Len(program.ops)
  BY DEF ThreadsInv, ThreadsTypeOK
<1>2. \A x, y \in 1 .. issued : x < y /\ Conflict(Op(x), Op(y)) => status[x] = "resolved"
  <2> TAKE x, y \in 1 .. issued
  <2> HAVE x < y /\ Conflict(Op(x), Op(y))
  <2>1. y \in DOMAIN program.ops /\ x \in 1 .. y - 1
    BY <1>1, ProgramFacts DEF Ops
  <2>2. x \in Awaited(program.ops, y)
    BY <1>1, <2>1, ProgramsAssumption DEF Op
  <2> QED BY <2>2, AwaitedResolved DEF ThreadsInv
<1>3. Conflict(Op(c), Op(d)) => Conflict(Op(d), Op(c))
  BY DEF Conflict
<1> QED BY <1>1, <1>2, <1>3

\* Two queued tasks: what one stores the other neither reads nor stores.
LEMMA TasksApart ==
  ASSUME ThreadsInv, NEW w \in Slots, NEW x \in Slots, NEW i \in 1 .. Len(queue[w]), NEW j \in 1 .. Len(queue[x]),
         w # x \/ i # j
  PROVE  Writes(queue[w][i]) \cap (Writes(queue[x][j]) \cup Reads(queue[x][j])) = {}
<1> DEFINE t == queue[w][i]
           u == queue[x][j]
<1>1. ThreadsTypeOK
  BY DEF ThreadsInv
<1>2. /\ t \in Tasks /\ t.call \in 1 .. issued /\ t.call \in Ops /\ status[t.call] # "resolved" /\ PartOf(t)
      /\ u \in Tasks /\ u.call \in 1 .. issued /\ u.call \in Ops /\ status[u.call] # "resolved" /\ PartOf(u)
  BY <1>1, QueuedFacts DEF ThreadsInv
<1>3. t.call = u.call => t.chunk # u.chunk
  BY DEF ThreadsInv, SentOnce
<1> HIDE DEF t, u
<1>4. CASE t.call = u.call
  BY <1>1, <1>2, <1>3, <1>4, ChunksMeetNot DEF t, u
<1>5. CASE t.call # u.call
  <2>1. ~Conflict(Op(t.call), Op(u.call))
    BY <1>2, <1>5, OpenTogether
  <2>2. /\ Writes(t) \subseteq Writes(Op(t.call))
        /\ Writes(u) \subseteq Writes(Op(u.call)) /\ Reads(u) \subseteq Reads(Op(u.call))
    BY <1>1, <1>2, PartRows
  <2> QED BY <2>1, <2>2 DEF Conflict, t, u
<1> QED BY <1>4, <1>5

LEMMA InvGivesApart == ThreadsInv => NoSharedWrites
<1> SUFFICES ASSUME ThreadsInv, NEW w \in Slots, NEW x \in Slots, w # x, queue[w] # << >>, queue[x] # << >>
             PROVE  Writes(First(w)) \cap (Writes(First(x)) \cup Reads(First(x))) = {}
  BY DEF NoSharedWrites
<1>1. queue \in [Slots -> Seq(Tasks)]
  BY DEF ThreadsInv, ThreadsTypeOK
<1>2. 1 \in 1 .. Len(queue[w]) /\ First(w) = queue[w][1] /\ 1 \in 1 .. Len(queue[x]) /\ First(x) = queue[x][1]
  BY <1>1 DEF First
<1> QED BY <1>2, TasksApart

-----------------------------------------------------------------------------
(* Every step keeps the invariant.                                         *)

LEMMA InitKeeps == ThreadsInit => ThreadsInv
<1> SUFFICES ASSUME ThreadsInit PROVE ThreadsInv
  OBVIOUS
<1>1. program \in Programs /\ program.size \in Nat \ {0} /\ Len(program.ops) \in Nat
  BY ProgramFacts DEF ThreadsInit
<1>2. ThreadsTypeOK
  BY <1>1 DEF ThreadsInit, ThreadsTypeOK, Slots, Ops
<1>3. StartedInOrder
  BY <1>1 DEF ThreadsInit, StartedInOrder, Ops
<1>4. \A w \in Slots : Len(queue[w]) = 0
  BY DEF ThreadsInit
<1>5. QueuedOpen /\ SentOnce
  BY <1>4 DEF QueuedOpen, SentOnce
<1> QED BY <1>2, <1>3, <1>5 DEF ThreadsInv

\* A step that neither sends, answers nor resolves.
LEMMA IdleKeeps ==
  ASSUME ThreadsInv, UNCHANGED <<program, issued, status, partials, nextSlot, queue>>
  PROVE  ThreadsInv'
<1>1. Ops' = Ops /\ Slots' = Slots /\ \A x : Op(x)' = Op(x)
  BY DEF Ops, Slots, Op
<1>2. \A t \in Tasks : PartOf(t)' <=> PartOf(t)
  BY PartStays
<1>3. ThreadsTypeOK' /\ StartedInOrder' /\ SentOnce'
  BY <1>1 DEF ThreadsInv, ThreadsTypeOK, StartedInOrder, SentOnce
<1>4. QueuedOpen'
  BY <1>1, <1>2 DEF ThreadsInv, QueuedOpen
<1> QED BY <1>3, <1>4 DEF ThreadsInv

\* An operation without rows resolves as it starts.
LEMMA StartEmptyKeeps ==
  ASSUME ThreadsInv, NEW c \in Ops, StartEmpty(c)
  PROVE  ThreadsInv'
<1>1. /\ program' = program /\ issued' = c /\ c = issued + 1 /\ queue' = queue /\ partials' = partials
      /\ nextSlot' = nextSlot /\ status' = [status EXCEPT ![c] = "resolved"]
      /\ Op(c).after # 0 => status[Op(c).after] = "resolved"
  BY DEF StartEmpty, Started
<1>2. program \in Programs /\ issued \in Nat /\ Ops = 1 .. Len(program.ops) /\ Len(program.ops) \in Nat
  BY ProgramFacts DEF ThreadsInv, ThreadsTypeOK, Ops
<1>3. Ops' = Ops /\ Slots' = Slots /\ \A x : Op(x)' = Op(x)
  BY <1>1 DEF Ops, Slots, Op
<1>4. ThreadsTypeOK'
  BY <1>1, <1>2, <1>3 DEF ThreadsInv, ThreadsTypeOK
<1>5. status \in [Ops -> {"idle", "waiting", "resolved", "rejected"}] /\ status[c] = "idle"
  BY <1>1, <1>2 DEF ThreadsInv, ThreadsTypeOK, StartedInOrder
<1>6. \A x \in Ops : Op(x).after \in 0 .. x - 1
  BY <1>2, ProgramFacts
<1>7. StartedInOrder'
  BY <1>1, <1>2, <1>3, <1>5, <1>6 DEF ThreadsInv, StartedInOrder
<1>8. QueuedOpen'
  <2> SUFFICES ASSUME NEW w \in Slots, NEW t \in Tasks, NEW j \in 1 .. Len(queue[w]), queue[w][j] = t
               PROVE  /\ t.call \in 1 .. issued' /\ status'[t.call] # "resolved"
                      /\ t.chunk \in DOMAIN partials[t.call] /\ partials[t.call][t.chunk] = Unanswered
                      /\ PartOf(t)'
    BY <1>1, <1>3 DEF QueuedOpen
  <2>1. /\ t.call \in 1 .. issued /\ status[t.call] # "resolved"
        /\ t.chunk \in DOMAIN partials[t.call] /\ partials[t.call][t.chunk] = Unanswered
        /\ PartOf(t)
    BY DEF ThreadsInv, QueuedOpen
  <2>2. PartOf(t)'
    BY <1>1, <2>1, PartStays
  <2>3. t.call # c /\ t.call \in Ops /\ t.call \in 1 .. issued'
    BY <1>1, <1>2, <2>1
  <2> QED BY <1>1, <1>5, <2>1, <2>2, <2>3
<1>9. SentOnce'
  BY <1>1, <1>3 DEF ThreadsInv, SentOnce
<1> QED BY <1>4, <1>7, <1>8, <1>9 DEF ThreadsInv

\* A step that sends at most one task of a new operation to each worker.
LEMMA SendKeeps ==
  ASSUME ThreadsInv, NEW c \in Ops, Started(c), NEW n \in Nat, Sent(c, n), nextSlot' \in Slots,
         NEW chunkOf \in [Slots -> 0 .. n],
         \A w, x \in Slots : chunkOf[w] = chunkOf[x] /\ chunkOf[w] # 0 => w = x,
         queue' \in [Slots -> Seq(Tasks)],
         \A w \in Slots :
           \/ chunkOf[w] = 0 /\ queue'[w] = queue[w]
           \/ /\ chunkOf[w] # 0
              /\ \E t \in Tasks : t.call = c /\ t.chunk = chunkOf[w] /\ PartOf(t) /\ queue'[w] = Append(queue[w], t)
  PROVE  ThreadsInv'
<1>1. /\ program' = program /\ issued' = c /\ c = issued + 1
      /\ status' = [status EXCEPT ![c] = "waiting"]
      /\ partials' = [partials EXCEPT ![c] = [k \in 1 .. n |-> Unanswered]]
      /\ Op(c).after # 0 => status[Op(c).after] = "resolved"
  BY DEF Started, Sent
<1>2. /\ program \in Programs /\ issued \in Nat /\ Ops = 1 .. Len(program.ops) /\ Len(program.ops) \in Nat
      /\ DOMAIN partials = Ops /\ queue \in [Slots -> Seq(Tasks)]
  BY ProgramFacts DEF ThreadsInv, ThreadsTypeOK, Ops
<1>3. Ops' = Ops /\ Slots' = Slots /\ \A x : Op(x)' = Op(x)
  BY <1>1 DEF Ops, Slots, Op
<1>4. ThreadsTypeOK'
  <2>1. status' \in [Ops -> {"idle", "waiting", "resolved", "rejected"}] /\ DOMAIN partials' = Ops
    BY <1>1, <1>2 DEF ThreadsInv, ThreadsTypeOK
  <2>2. issued' \in 0 .. Len(program.ops)
    BY <1>1, <1>2
  <2> QED BY <1>1, <1>2, <1>3, <2>1, <2>2 DEF ThreadsTypeOK
<1>5. status \in [Ops -> {"idle", "waiting", "resolved", "rejected"}] /\ status[c] = "idle"
  BY <1>1, <1>2 DEF ThreadsInv, ThreadsTypeOK, StartedInOrder
<1>6. \A x \in Ops : Op(x).after \in 0 .. x - 1
  BY <1>2, ProgramFacts
<1>7. StartedInOrder'
  BY <1>1, <1>2, <1>3, <1>5, <1>6 DEF ThreadsInv, StartedInOrder
\* What is queued was queued before, or is the new task at its queue's end.
<1>8. ASSUME NEW w \in Slots, NEW j \in 1 .. Len(queue'[w])
      PROVE  \/ j \in 1 .. Len(queue[w]) /\ queue'[w][j] = queue[w][j]
             \/ /\ chunkOf[w] \in 1 .. n /\ j = Len(queue[w]) + 1
                /\ queue'[w][j].call = c /\ queue'[w][j].chunk = chunkOf[w] /\ PartOf(queue'[w][j])
  <2>1. CASE queue'[w] = queue[w]
    BY <2>1
  <2>2. CASE chunkOf[w] # 0
    <3>1. PICK t \in Tasks : t.call = c /\ t.chunk = chunkOf[w] /\ PartOf(t) /\ queue'[w] = Append(queue[w], t)
      BY <2>2
    <3>2. queue[w] \in Seq(Tasks) /\ Len(queue[w]) \in Nat
      BY <1>2
    <3>3. \/ j \in 1 .. Len(queue[w]) /\ queue'[w][j] = queue[w][j]
          \/ j = Len(queue[w]) + 1 /\ queue'[w][j] = t
      BY <3>1, <3>2
    <3> QED BY <2>2, <3>1, <3>3
  <2> QED BY <2>1, <2>2
<1>9. ASSUME NEW w \in Slots, NEW j \in 1 .. Len(queue[w])
      PROVE  /\ queue[w][j].call \in 1 .. issued /\ queue[w][j].call # c /\ queue[w][j].call \in Ops
             /\ status[queue[w][j].call] # "resolved"
             /\ queue[w][j].chunk \in DOMAIN partials[queue[w][j].call]
             /\ partials[queue[w][j].call][queue[w][j].chunk] = Unanswered
             /\ PartOf(queue[w][j])
  <2>1. queue[w][j].call # c /\ queue[w][j].call \in 1 .. issued
    BY <1>1, <1>2, QueuedFacts DEF ThreadsInv
  <2> QED BY <2>1, QueuedFacts DEF ThreadsInv
<1>10. QueuedOpen'
  <2> SUFFICES ASSUME NEW w \in Slots, NEW t \in Tasks, NEW j \in 1 .. Len(queue'[w]), queue'[w][j] = t
               PROVE  /\ t.call \in 1 .. issued' /\ status'[t.call] # "resolved"
                      /\ t.chunk \in DOMAIN partials'[t.call] /\ partials'[t.call][t.chunk] = Unanswered
                      /\ PartOf(t)'
    BY <1>3 DEF QueuedOpen
  <2>1. PartOf(t) => PartOf(t)'
    BY <1>1, PartStays
  <2>2. CASE j \in 1 .. Len(queue[w]) /\ t = queue[w][j]
    <3>1. /\ t.call \in 1 .. issued /\ t.call # c /\ t.call \in Ops
          /\ status[t.call] # "resolved"
          /\ t.chunk \in DOMAIN partials[t.call] /\ partials[t.call][t.chunk] = Unanswered
          /\ PartOf(t)
      BY <1>9, <2>2
    <3>2. partials'[t.call] = partials[t.call] /\ status'[t.call] = status[t.call] /\ t.call \in 1 .. issued'
      BY <1>1, <1>2, <1>5, <3>1
    <3> QED BY <2>1, <3>1, <3>2
  <2>3. CASE chunkOf[w] \in 1 .. n /\ t.call = c /\ t.chunk = chunkOf[w] /\ PartOf(t)
    <3>1. partials'[t.call] = [k \in 1 .. n |-> Unanswered] /\ status'[t.call] = "waiting" /\ t.call \in 1 .. issued'
      BY <1>1, <1>2, <1>5, <2>3
    <3> QED BY <2>1, <2>3, <3>1
  <2> QED BY <1>8, <2>2, <2>3
<1>11. SentOnce'
  <2> SUFFICES ASSUME NEW w \in Slots, NEW x \in Slots, NEW i \in 1 .. Len(queue'[w]), NEW j \in 1 .. Len(queue'[x]),
                      queue'[w][i].call = queue'[x][j].call, queue'[w][i].chunk = queue'[x][j].chunk
               PROVE  w = x /\ i = j
    BY <1>3 DEF SentOnce
  <2>1. CASE i \in 1 .. Len(queue[w]) /\ queue'[w][i] = queue[w][i]
    <3>1. queue'[w][i].call # c
      BY <1>9, <2>1
    <3>2. j \in 1 .. Len(queue[x]) /\ queue'[x][j] = queue[x][j]
      BY <1>8, <3>1
    <3>3. queue[w][i].call = queue[x][j].call /\ queue[w][i].chunk = queue[x][j].chunk
      BY <2>1, <3>2
    <3>4. SentOnce
      BY DEF ThreadsInv
    <3>5. \A k \in 1 .. Len(queue[w]), l \in 1 .. Len(queue[x]) :
            queue[w][k].call = queue[x][l].call /\ queue[w][k].chunk = queue[x][l].chunk => w = x /\ k = l
      BY ONLY <3>4, w \in Slots, x \in Slots DEF SentOnce
    <3>6. i \in 1 .. Len(queue[w]) /\ j \in 1 .. Len(queue[x])
      BY <2>1, <3>2
    <3> QED BY ONLY <3>3, <3>5, <3>6
  <2>2. CASE /\ chunkOf[w] \in 1 .. n /\ i = Len(queue[w]) + 1
             /\ queue'[w][i].call = c /\ queue'[w][i].chunk = chunkOf[w]
    <3>1. ASSUME j \in 1 .. Len(queue[x]), queue'[x][j] = queue[x][j] PROVE FALSE
      <4>1. queue[x][j].call # c
        BY <1>9, <3>1
      <4>2. queue[x][j].call = c
        BY <2>2, <3>1
      <4> QED BY ONLY <4>1, <4>2
    <3>2. j = Len(queue[x]) + 1 /\ queue'[x][j].chunk = chunkOf[x]
      BY <1>8, <3>1
    <3>3. w = x
      BY <2>2, <3>2
    <3> QED BY <2>2, <3>2, <3>3
  <2> QED BY <1>8, <2>1, <2>2
<1> QED BY <1>4, <1>7, <1>10, <1>11 DEF ThreadsInv

LEMMA SlotRemainder ==
  ASSUME NEW a \in Nat, NEW d \in Nat \ {0}
  PROVE  a % d \in 0 .. d - 1
BY SMT

LEMMA StartSingleKeeps ==
  ASSUME ThreadsInv, NEW c \in Ops, StartSingle(c)
  PROVE  ThreadsInv'
<1> DEFINE t == Task(c, 1, Op(c), Op(c).len)
           chunkOf == [w \in Slots |-> IF w = nextSlot THEN 1 ELSE 0]
<1>1. /\ program \in Programs /\ queue \in [Slots -> Seq(Tasks)] /\ nextSlot \in Slots
  BY DEF ThreadsInv, ThreadsTypeOK
<1>2. program.size \in Nat \ {0}
  BY <1>1, ProgramFacts
<1>3. /\ Started(c) /\ Sent(c, 1) /\ Len(splitChunks(Op(c).len, program.size)) = 1
      /\ queue' = [queue EXCEPT ![nextSlot] = Append(@, t)]
      /\ nextSlot' = (nextSlot % program.size) + 1 /\ program' = program
  BY DEF StartSingle, Started
<1>4. /\ c \in Nat /\ Op(c).kernel \in STRING /\ Op(c).a \in Nat /\ Op(c).b \in Nat /\ Op(c).out \in Nat
      /\ Op(c).vp \in Nat /\ Op(c).len \in Nat
  BY <1>1, ProgramFacts
<1>5. t \in Tasks /\ t.call = c /\ t.chunk = 1
  BY <1>4 DEF Tasks, Task
<1>6. PartOf(t)
  <2> DEFINE chunks == splitChunks(Op(c).len, program.size)
  <2>1. Len(chunks) = 1 /\ DOMAIN chunks = 1 .. Len(chunks) /\ chunks[1] = <<0, Op(c).len>>
    <3>1. DOMAIN chunks = 1 .. Len(chunks)
      BY <1>2, <1>4, ChunkFacts
    <3>2. Len(chunks) = 1 => chunks[1] = <<0, Op(c).len>>
      BY <1>2, <1>4, ChunkFacts
    <3> QED BY <1>3, <3>1, <3>2
  <2> QED BY <1>4, <2>1 DEF PartOf, Task
<1> HIDE DEF t
<1>7. queue' \in [Slots -> Seq(Tasks)] /\ Slots' = Slots
  BY <1>1, <1>3, <1>5 DEF Slots
<1>8. nextSlot' \in Slots'
  <2>1. nextSlot \in Nat
    BY <1>1, <1>2 DEF Slots
  <2>2. nextSlot % program.size \in 0 .. program.size - 1
    BY <1>2, <2>1, SlotRemainder
  <2> QED BY <1>2, <1>3, <2>2 DEF Slots
<1>9. \A w \in Slots :
        \/ chunkOf[w] = 0 /\ queue'[w] = queue[w]
        \/ chunkOf[w] # 0 /\ t.call = c /\ t.chunk = chunkOf[w] /\ queue'[w] = Append(queue[w], t)
  BY <1>1, <1>3, <1>5
<1>10. chunkOf \in [Slots -> 0 .. 1] /\ \A w, x \in Slots : chunkOf[w] = chunkOf[x] /\ chunkOf[w] # 0 => w = x
  OBVIOUS
<1> HIDE DEF chunkOf
<1>11. \A w \in Slots :
        \/ chunkOf[w] = 0 /\ queue'[w] = queue[w]
        \/ /\ chunkOf[w] # 0
           /\ \E u \in Tasks : u.call = c /\ u.chunk = chunkOf[w] /\ PartOf(u) /\ queue'[w] = Append(queue[w], u)
  BY <1>5, <1>6, <1>9
<1> QED BY <1>3, <1>7, <1>8, <1>10, <1>11, SendKeeps

LEMMA StartChunksKeeps ==
  ASSUME ThreadsInv, NEW c \in Ops, StartChunks(c)
  PROVE  ThreadsInv'
<1> DEFINE chunks == splitChunks(Op(c).len, program.size)
           n == Len(chunks)
           t(w) == Task(c, w, Offset(Op(c), chunks[w][1]), chunks[w][2] - chunks[w][1])
           chunkOf == [w \in Slots |-> IF w > n THEN 0 ELSE w]
<1>1. /\ program \in Programs /\ queue \in [Slots -> Seq(Tasks)] /\ nextSlot \in Slots
  BY DEF ThreadsInv, ThreadsTypeOK
<1>2. program.size \in Nat \ {0}
  BY <1>1, ProgramFacts
<1>3. /\ Started(c) /\ Sent(c, n) /\ nextSlot' = nextSlot /\ program' = program
      /\ queue' = [w \in Slots |-> IF w > n THEN queue[w] ELSE Append(queue[w], t(w))]
  BY DEF StartChunks, Started
<1>4. /\ c \in Nat /\ Op(c).kernel \in STRING /\ Op(c).a \in Nat /\ Op(c).b \in Nat /\ Op(c).out \in Nat
      /\ Op(c).vp \in Nat /\ Op(c).len \in Nat
  BY <1>1, ProgramFacts
<1>5. n \in Nat /\ DOMAIN chunks = 1 .. n
  BY <1>2, <1>4, ChunkFacts
<1>6. ASSUME NEW w \in 1 .. n
      PROVE  t(w) \in Tasks /\ t(w).call = c /\ t(w).chunk = w /\ PartOf(t(w))
  <2> DEFINE s == chunks[w][1]
             e == chunks[w][2]
  <2>1. s \in Nat /\ e \in Nat /\ s <= e
    BY <1>2, <1>4, <1>5, ChunkFacts
  <2>2. w \in DOMAIN chunks
    BY <1>5
  <2>3. /\ Offset(Op(c), s).kernel = Op(c).kernel
        /\ Offset(Op(c), s).a = Op(c).a + s /\ Offset(Op(c), s).b = Op(c).b + s
        /\ Offset(Op(c), s).out = Op(c).out + s
        /\ Offset(Op(c), s).vp = IF Op(c).vp = 0 THEN 0 ELSE Op(c).vp + s \div 8
    <3>1. Op(c) \in [kind : {"sum", "mean", "min", "max", "reduce", "binary"}, kernel : STRING,
                     a : Nat, b : Nat, out : Nat, vp : Nat, len : Nat, after : Nat]
      <4>1. c \in DOMAIN program.ops
        BY <1>1, ProgramFacts
      <4>2. program.ops \in Seq([kind : {"sum", "mean", "min", "max", "reduce", "binary"}, kernel : STRING,
                                 a : Nat, b : Nat, out : Nat, vp : Nat, len : Nat, after : Nat])
        BY <1>1, ProgramsAssumption
      <4> QED BY <4>1, <4>2, ElementOf DEF Op
    <3> HIDE DEF s
    <3> QED BY <3>1 DEF Offset
  <2>4. Offset(Op(c), s).vp \in Nat
    <3> HIDE DEF s
    <3> QED BY <1>4, <2>1, <2>3
  <2> DEFINE o == Offset(Op(c), s)
  <2>5. /\ t(w).call = c /\ t(w).chunk = w /\ t(w).kernel = o.kernel /\ t(w).a = o.a /\ t(w).b = o.b
        /\ t(w).out = o.out /\ t(w).len = e - s
    BY DEF Task
  <2>6. t(w) = [call |-> c, chunk |-> w, kernel |-> o.kernel, a |-> o.a, b |-> o.b, out |-> o.out, vp |-> o.vp, len |-> e - s]
    BY DEF Task
  <2>7. /\ o.kernel = Op(c).kernel /\ o.a = Op(c).a + s /\ o.b = Op(c).b + s /\ o.out = Op(c).out + s
        /\ o.vp = IF Op(c).vp = 0 THEN 0 ELSE Op(c).vp + s \div 8
        /\ o.vp \in Nat
    BY <2>3, <2>4
  <2> HIDE DEF o
  <2>8. t(w) \in Tasks
    <3> HIDE DEF s, e, t
    <3>1. o.kernel \in STRING /\ o.a \in Nat /\ o.b \in Nat /\ o.out \in Nat /\ e - s \in Nat /\ w \in Nat
      <4>1. o.kernel \in STRING
        BY <1>4, <2>7
      <4>2. o.a \in Nat /\ o.b \in Nat /\ o.out \in Nat /\ e - s \in Nat
        BY <1>4, <2>1, <2>7
      <4> QED BY <1>5, <4>1, <4>2
    <3> QED BY <1>4, <2>6, <2>7, <3>1 DEF Tasks
  <2>9. PartOf(t(w))
    <3> HIDE DEF t
    <3>1. /\ t(w).call = c /\ t(w).chunk = w /\ t(w).kernel = Op(c).kernel
          /\ t(w).a = Op(c).a + s /\ t(w).b = Op(c).b + s /\ t(w).out = Op(c).out + s
          /\ t(w).vp = (IF Op(c).vp = 0 THEN 0 ELSE Op(c).vp + s \div 8) /\ t(w).len = e - s
      BY <2>5, <2>6, <2>7
    <3> QED BY <2>2, <3>1 DEF PartOf
  <2> QED BY <2>5, <2>8, <2>9
<1> HIDE DEF t, n
<1>7. queue' \in [Slots -> Seq(Tasks)] /\ Slots' = Slots
  <2>1. ASSUME NEW w \in Slots PROVE (IF w > n THEN queue[w] ELSE Append(queue[w], t(w))) \in Seq(Tasks)
    <3>1. queue[w] \in Seq(Tasks)
      BY <1>1
    <3>2. w > n \/ w \in 1 .. n
      BY <1>2, <1>5 DEF Slots
    <3> QED BY <1>6, <3>1, <3>2
  <2> QED BY <1>3, <2>1 DEF Slots
<1>8. chunkOf \in [Slots -> 0 .. n] /\ \A w, x \in Slots : chunkOf[w] = chunkOf[x] /\ chunkOf[w] # 0 => w = x
  BY <1>2, <1>5 DEF Slots
<1>9. \A w \in Slots :
        \/ w > n /\ chunkOf[w] = 0 /\ queue'[w] = queue[w]
        \/ w \in 1 .. n /\ chunkOf[w] # 0 /\ chunkOf[w] = w /\ queue'[w] = Append(queue[w], t(w))
  BY <1>2, <1>3, <1>5 DEF Slots
<1> HIDE DEF chunkOf
<1>10. \A w \in Slots :
        \/ chunkOf[w] = 0 /\ queue'[w] = queue[w]
        \/ /\ chunkOf[w] # 0
           /\ \E u \in Tasks : u.call = c /\ u.chunk = chunkOf[w] /\ PartOf(u) /\ queue'[w] = Append(queue[w], u)
  BY <1>6, <1>9
<1>11. nextSlot' \in Slots'
  BY <1>1, <1>3, <1>7
<1> QED BY <1>3, <1>5, <1>7, <1>8, <1>10, <1>11, SendKeeps

\* The first task of a worker is answered and leaves its queue.
LEMMA DoneKeeps ==
  ASSUME ThreadsInv, NEW w \in Slots, queue[w] # << >>, NEW answer, Done(w, answer),
         UNCHANGED <<program, issued, status, nextSlot>>
  PROVE  ThreadsInv'
<1> DEFINE t == First(w)
<1>1. /\ program \in Programs /\ queue \in [Slots -> Seq(Tasks)] /\ DOMAIN partials = Ops
      /\ queue' = [queue EXCEPT ![w] = Tail(@)] /\ partials' = [partials EXCEPT ![t.call][t.chunk] = <<answer>>]
  BY DEF ThreadsInv, ThreadsTypeOK, Done
<1>2. Ops' = Ops /\ Slots' = Slots /\ \A x : Op(x)' = Op(x)
  BY DEF Ops, Slots, Op
<1>3. queue[w] \in Seq(Tasks) /\ Len(queue[w]) \in Nat /\ 1 \in 1 .. Len(queue[w]) /\ t = queue[w][1]
  BY <1>1 DEF First
<1>4. queue' \in [Slots -> Seq(Tasks)] /\ DOMAIN partials' = Ops
  BY <1>1, <1>3
<1>5. ThreadsTypeOK' /\ StartedInOrder'
  BY <1>2, <1>4 DEF ThreadsInv, ThreadsTypeOK, StartedInOrder
\* What is left was there, one place further.
<1>6. ASSUME NEW x \in Slots, NEW j \in 1 .. Len(queue'[x])
      PROVE  \/ x # w /\ j \in 1 .. Len(queue[x]) /\ queue'[x][j] = queue[x][j]
             \/ x = w /\ j + 1 \in 2 .. Len(queue[w]) /\ queue'[x][j] = queue[w][j + 1]
  <2>1. CASE x # w
    BY <1>1, <2>1
  <2>2. CASE x = w
    <3>1. queue'[w] = Tail(queue[w]) /\ Len(Tail(queue[w])) = Len(queue[w]) - 1
      BY <1>1, <1>3
    <3>2. j \in 1 .. Len(queue[w]) - 1
      BY <2>2, <3>1
    <3>3. Tail(queue[w])[j] = queue[w][j + 1]
      BY <1>3, <3>2
    <3> QED BY <1>3, <2>2, <3>1, <3>2, <3>3
  <2> QED BY <2>1, <2>2
<1> HIDE DEF t
<1>7. ASSUME NEW x \in Slots, NEW i \in 1 .. Len(queue[x]), x # w \/ i # 1
      PROVE  /\ queue[x][i].call # t.call \/ queue[x][i].chunk # t.chunk
             /\ partials'[queue[x][i].call][queue[x][i].chunk] = Unanswered
             /\ queue[x][i].chunk \in DOMAIN partials'[queue[x][i].call]
  <2> DEFINE u == queue[x][i]
  <2>1. u.call # t.call \/ u.chunk # t.chunk
    BY <1>3, <1>7 DEF ThreadsInv, SentOnce
  <2>2. u.call \in Ops /\ u.chunk \in DOMAIN partials[u.call] /\ partials[u.call][u.chunk] = Unanswered
    BY QueuedFacts DEF ThreadsInv
  <2> HIDE DEF u
  <2>3. partials'[u.call][u.chunk] = Unanswered /\ u.chunk \in DOMAIN partials'[u.call]
    BY <1>1, <2>1, <2>2
  <2> QED BY <2>1, <2>3 DEF u
<1>8. QueuedOpen'
  <2> SUFFICES ASSUME NEW x \in Slots, NEW u \in Tasks, NEW j \in 1 .. Len(queue'[x]), queue'[x][j] = u
               PROVE  /\ u.call \in 1 .. issued /\ status[u.call] # "resolved"
                      /\ u.chunk \in DOMAIN partials'[u.call] /\ partials'[u.call][u.chunk] = Unanswered
                      /\ PartOf(u)'
    BY <1>2 DEF QueuedOpen
  <2>1. PICK i \in 1 .. Len(queue[x]) : (x # w \/ i # 1) /\ u = queue[x][i]
    <3>1. CASE x # w /\ j \in 1 .. Len(queue[x]) /\ queue'[x][j] = queue[x][j]
      BY <3>1
    <3>2. CASE x = w /\ j + 1 \in 2 .. Len(queue[w]) /\ queue'[x][j] = queue[w][j + 1]
      <4>1. j + 1 \in 1 .. Len(queue[x]) /\ j + 1 # 1
        BY <1>3, <3>2
      <4> QED BY <3>2, <4>1
    <3> QED BY <1>6, <3>1, <3>2
  <2>2. u.call \in 1 .. issued /\ status[u.call] # "resolved" /\ PartOf(u)
    BY <2>1, QueuedFacts DEF ThreadsInv
  <2> QED BY <1>7, <2>1, <2>2, PartStays
<1>9. SentOnce'
  <2> SUFFICES ASSUME NEW x \in Slots, NEW y \in Slots, NEW i \in 1 .. Len(queue'[x]), NEW j \in 1 .. Len(queue'[y]),
                      queue'[x][i].call = queue'[y][j].call, queue'[x][i].chunk = queue'[y][j].chunk
               PROVE  x = y /\ i = j
    BY <1>2 DEF SentOnce
  <2>1. PICK k \in 1 .. Len(queue[x]) : queue'[x][i] = queue[x][k] /\ k = IF x = w THEN i + 1 ELSE i
    BY <1>3, <1>6
  <2>2. PICK l \in 1 .. Len(queue[y]) : queue'[y][j] = queue[y][l] /\ l = IF y = w THEN j + 1 ELSE j
    BY <1>3, <1>6
  <2>3. x = y /\ k = l
    <3>1. queue[x][k].call = queue[y][l].call /\ queue[x][k].chunk = queue[y][l].chunk
      BY <2>1, <2>2
    <3>2. SentOnce
      BY DEF ThreadsInv
    <3> QED BY <3>1, <3>2 DEF SentOnce
  <2>4. i \in Int /\ j \in Int
    BY <2>1, <2>2
  <2> QED BY <2>1, <2>2, <2>3, <2>4
<1> QED BY <1>5, <1>8, <1>9 DEF ThreadsInv

\* A waiting operation whose chunks have all answered has nothing queued.
LEMMA ResolveKeeps ==
  ASSUME ThreadsInv, NEW c \in Ops, Resolve(c)
  PROVE  ThreadsInv'
<1>1. /\ status[c] = "waiting" /\ \A k \in DOMAIN partials[c] : partials[c][k] # Unanswered
      /\ status' = [status EXCEPT ![c] = "resolved"]
      /\ UNCHANGED <<program, issued, partials, nextSlot, queue>>
  BY DEF Resolve, Waiting, pool
<1>2. Ops' = Ops /\ Slots' = Slots /\ \A x : Op(x)' = Op(x)
  BY <1>1 DEF Ops, Slots, Op
<1>3. /\ program \in Programs /\ status \in [Ops -> {"idle", "waiting", "resolved", "rejected"}]
      /\ issued \in 0 .. Len(program.ops) /\ Len(program.ops) \in Nat /\ Ops = 1 .. Len(program.ops)
  BY ProgramFacts DEF ThreadsInv, ThreadsTypeOK, Ops
<1>4. ThreadsTypeOK' /\ SentOnce'
  BY <1>1, <1>2, <1>3 DEF ThreadsInv, ThreadsTypeOK, SentOnce
<1>5. StartedInOrder'
  <2>1. \A x \in 1 .. issued : Op(x).after # 0 => Op(x).after \in Ops
    BY <1>3, ProgramFacts
  <2> QED BY <1>1, <1>2, <1>3, <2>1 DEF ThreadsInv, StartedInOrder
<1>6. QueuedOpen'
  <2> SUFFICES ASSUME NEW w \in Slots, NEW t \in Tasks, NEW j \in 1 .. Len(queue[w]), queue[w][j] = t
               PROVE  /\ t.call \in 1 .. issued /\ status'[t.call] # "resolved"
                      /\ t.chunk \in DOMAIN partials[t.call] /\ partials[t.call][t.chunk] = Unanswered
                      /\ PartOf(t)'
    BY <1>1, <1>2 DEF QueuedOpen
  <2>1. /\ t.call \in 1 .. issued /\ t.call \in Ops /\ status[t.call] # "resolved"
        /\ t.chunk \in DOMAIN partials[t.call] /\ partials[t.call][t.chunk] = Unanswered
        /\ PartOf(t)
    BY QueuedFacts DEF ThreadsInv
  <2>2. t.call # c
    BY <1>1, <2>1
  <2> QED BY <1>1, <1>3, <2>1, <2>2, PartStays
<1> QED BY <1>4, <1>5, <1>6 DEF ThreadsInv

LEMMA HangsKeeps ==
  ASSUME ThreadsInv, NEW w \in Slots, Hangs(w)
  PROVE  ThreadsInv'
<1> DEFINE dropped == {queue[w][j].call : j \in DOMAIN queue[w]}
<1>1. /\ status' = [c \in Ops |-> IF c \in dropped /\ Waiting(c) THEN "rejected" ELSE status[c]]
      /\ queue' = [queue EXCEPT ![w] = << >>]
      /\ UNCHANGED <<program, issued, partials, nextSlot>>
  BY DEF Hangs
<1> HIDE DEF dropped
<1>2. Ops' = Ops /\ Slots' = Slots /\ \A x : Op(x)' = Op(x)
  BY <1>1 DEF Ops, Slots, Op
<1>3. /\ program \in Programs /\ status \in [Ops -> {"idle", "waiting", "resolved", "rejected"}]
      /\ issued \in 0 .. Len(program.ops) /\ Len(program.ops) \in Nat /\ Ops = 1 .. Len(program.ops)
      /\ queue \in [Slots -> Seq(Tasks)]
  BY ProgramFacts DEF ThreadsInv, ThreadsTypeOK, Ops
<1>4. \A c \in Ops :
        /\ status'[c] \in {"idle", "waiting", "resolved", "rejected"}
        /\ status'[c] = "idle" <=> status[c] = "idle"
        /\ status'[c] = "resolved" <=> status[c] = "resolved"
  BY <1>1, <1>3 DEF Waiting
<1>5. status' \in [Ops -> {"idle", "waiting", "resolved", "rejected"}]
  BY <1>1, <1>4
<1>6. queue' \in [Slots -> Seq(Tasks)]
  BY <1>1, <1>3
<1>7. ThreadsTypeOK'
  BY <1>1, <1>2, <1>5, <1>6 DEF ThreadsInv, ThreadsTypeOK
<1>8. StartedInOrder'
  <2>1. \A x \in 1 .. issued : Op(x).after # 0 => Op(x).after \in Ops
    BY <1>3, ProgramFacts
  <2> QED BY <1>1, <1>2, <1>3, <1>4, <2>1 DEF ThreadsInv, StartedInOrder
<1>9. \A x \in Slots : Len(queue'[x]) = 0 \/ queue'[x] = queue[x]
  BY <1>1, <1>3
<1>10. \A x \in Slots : \A j \in 1 .. Len(queue'[x]) : j \in 1 .. Len(queue[x]) /\ queue'[x] = queue[x]
  BY <1>9
<1>11. QueuedOpen'
  <2> SUFFICES ASSUME NEW x \in Slots, NEW t \in Tasks, NEW j \in 1 .. Len(queue'[x]), queue'[x][j] = t
               PROVE  /\ t.call \in 1 .. issued /\ status'[t.call] # "resolved"
                      /\ t.chunk \in DOMAIN partials[t.call] /\ partials[t.call][t.chunk] = Unanswered
                      /\ PartOf(t)'
    BY <1>1, <1>2 DEF QueuedOpen
  <2>1. j \in 1 .. Len(queue[x]) /\ queue[x][j] = t
    BY <1>10
  <2>2. /\ t.call \in 1 .. issued /\ t.call \in Ops /\ status[t.call] # "resolved"
        /\ t.chunk \in DOMAIN partials[t.call] /\ partials[t.call][t.chunk] = Unanswered
        /\ PartOf(t)
    BY <2>1, QueuedFacts DEF ThreadsInv
  <2> QED BY <1>1, <1>4, <2>2, PartStays
<1>12. SentOnce'
  BY <1>2, <1>10 DEF ThreadsInv, SentOnce
<1> QED BY <1>7, <1>8, <1>11, <1>12 DEF ThreadsInv

LEMMA NextKeeps == ThreadsInv /\ [ThreadsNext]_threadsVars => ThreadsInv'
<1> SUFFICES ASSUME ThreadsInv, [ThreadsNext]_threadsVars PROVE ThreadsInv'
  OBVIOUS
<1>1. ASSUME NEW c \in Ops, StartEmpty(c) PROVE ThreadsInv'
  BY <1>1, StartEmptyKeeps
<1>2. ASSUME NEW c \in Ops, StartSingle(c) PROVE ThreadsInv'
  BY <1>2, StartSingleKeeps
<1>3. ASSUME NEW c \in Ops, StartChunks(c) PROVE ThreadsInv'
  BY <1>3, StartChunksKeeps
<1>4. ASSUME NEW c \in Ops, Resolve(c) PROVE ThreadsInv'
  BY <1>4, ResolveKeeps
<1>5. ASSUME NEW w \in Slots, Reduces(w) PROVE ThreadsInv'
  BY <1>5, DoneKeeps DEF Reduces, Busy
<1>6. ASSUME NEW w \in Slots, Stores(w) PROVE ThreadsInv'
  <2>1. UNCHANGED <<program, issued, status, partials, nextSlot, queue>>
    BY <1>6 DEF Stores, Goes
  <2> QED BY <2>1, IdleKeeps
<1>7. ASSUME NEW w \in Slots, StoresReturn(w) PROVE ThreadsInv'
  BY <1>7, DoneKeeps DEF StoresReturn, Busy
<1>8. ASSUME NEW w \in Slots, Counts(w) PROVE ThreadsInv'
  <2>1. UNCHANGED <<program, issued, status, partials, nextSlot, queue>>
    BY <1>8 DEF Counts, Goes
  <2> QED BY <2>1, IdleKeeps
<1>9. ASSUME NEW w \in Slots, CountsReturn(w) PROVE ThreadsInv'
  BY <1>9, DoneKeeps DEF CountsReturn, Busy
<1>10. ASSUME NEW w \in Slots, Hangs(w) PROVE ThreadsInv'
  BY <1>10, HangsKeeps
<1>11. CASE UNCHANGED threadsVars
  BY <1>11, IdleKeeps DEF threadsVars, pool
<1> QED BY <1>1, <1>2, <1>3, <1>4, <1>5, <1>6, <1>7, <1>8, <1>9, <1>10, <1>11 DEF ThreadsNext

LEMMA ThreadsInductive == ThreadsSpec => []ThreadsInv
BY InitKeeps, NextKeeps, PTL DEF ThreadsSpec

\* No worker stores into a cell that the kernel of another worker reads or
\* writes, however many operations are under way, in whichever order the
\* workers take their chunks (parallel.ts, parallelElementwiseBinary) and
\* whichever of them are lost (pool.ts, sendToSlot).
THEOREM WorkersApart == ThreadsSpec => []NoSharedWrites
BY ThreadsInductive, InvGivesApart, PTL

\* An operation that has resolved has no kernel queued or running: its caller may
\* write its columns, or free them.
ResolvedAtRest ==
  \A w \in Slots : \A j \in 1 .. Len(queue[w]) : status[queue[w][j].call] # "resolved"

\* The promise of a broadcast resolves after the last kernel that touches the
\* memory of its operation has returned (pool.ts, broadcastMeta).
THEOREM ResolvedLeavesMemory == ThreadsSpec => []ResolvedAtRest
<1>1. ThreadsInv => ResolvedAtRest
  BY QueuedFacts DEF ThreadsInv, ResolvedAtRest
<1> QED BY <1>1, ThreadsInductive, PTL

-----------------------------------------------------------------------------
(* What one thread leaves.                                                 *)

\* The memory after k operations, from that after k - 1.
AfterFirst(p, f, k) == IF k = 0 THEN p.cells ELSE AfterOp(p.ops[k], f[k - 1])

\* The recursion that defines the serial run has a solution for every prefix.
LEMMA SerialPrefix ==
  ASSUME NEW p, NEW n \in Nat
  PROVE  \E f : f = [k \in 0 .. n |-> AfterFirst(p, f, k)]
<1> DEFINE T == {m \in Nat : ~\E f : f = [k \in 0 .. m |-> AfterFirst(p, f, k)]}
<1>1. SUFFICES ASSUME T # {} PROVE FALSE
  OBVIOUS
<1>2. PICK m \in T : \A l \in T : m <= l
  BY <1>1, LeastElement
<1>3. CASE m = 0
  <2> DEFINE f == [k \in 0 .. 0 |-> p.cells]
  <2>1. f = [k \in 0 .. 0 |-> AfterFirst(p, f, k)]
    BY DEF AfterFirst
  <2> QED BY <1>2, <1>3, <2>1
<1>4. CASE m # 0
  <2>1. m \in Nat /\ m - 1 \in Nat /\ m - 1 \notin T
    BY <1>2, <1>4
  <2>2. PICK g : g = [k \in 0 .. m - 1 |-> AfterFirst(p, g, k)]
    BY <2>1
  <2> DEFINE f == [k \in 0 .. m |-> AfterFirst(p, g, k)]
  <2>3. \A k \in 0 .. m : AfterFirst(p, f, k) = AfterFirst(p, g, k)
    <3>1. ASSUME NEW k \in 0 .. m, k # 0 PROVE f[k - 1] = g[k - 1]
      <4>1. k - 1 \in 0 .. m - 1 /\ k - 1 \in 0 .. m
        BY <2>1, <3>1
      <4>2. g[k - 1] = AfterFirst(p, g, k - 1)
        BY <2>2, <4>1
      <4> QED BY <4>1, <4>2
    <3> HIDE DEF f
    <3> QED BY <3>1 DEF AfterFirst
  <2>4. f = [k \in 0 .. m |-> AfterFirst(p, f, k)]
    <3> HIDE DEF f
    <3>1. f = [k \in 0 .. m |-> AfterFirst(p, g, k)]
      BY DEF f
    <3> QED BY <2>3, <3>1
  <2> QED BY <1>2, <2>4
<1> QED BY <1>3, <1>4

LEMMA SerialFacts ==
  ASSUME program \in Programs
  PROVE  /\ DOMAIN Serial = 0 .. Len(program.ops)
         /\ Serial[0] = program.cells
         /\ \A k \in Ops : k - 1 \in DOMAIN Serial /\ k \in DOMAIN Serial /\ Serial[k] = AfterOp(Op(k), Serial[k - 1])
         /\ \A k \in 0 .. Len(program.ops) : DOMAIN Serial[k] = DOMAIN program.cells
<1> DEFINE n == Len(program.ops)
<1>1. n \in Nat /\ Ops = 1 .. n
  BY ProgramFacts DEF Ops
<1>2. Serial = [k \in 0 .. n |-> AfterFirst(program, Serial, k)]
  <2>1. Serial = CHOOSE f : f = [k \in 0 .. n |-> IF k = 0 THEN program.cells ELSE AfterOp(program.ops[k], f[k - 1])]
    BY DEF Serial, SerialOf
  <2>2. Serial = CHOOSE f : f = [k \in 0 .. n |-> AfterFirst(program, f, k)]
    BY <2>1 DEF AfterFirst
  <2>3. \E f : f = [k \in 0 .. n |-> AfterFirst(program, f, k)]
    BY <1>1, SerialPrefix
  <2> HIDE DEF n
  <2> QED BY <2>2, <2>3
<1> HIDE DEF n
<1>3. DOMAIN Serial = 0 .. n /\ \A k \in 0 .. n : Serial[k] = AfterFirst(program, Serial, k)
  BY <1>2
<1>4. Serial[0] = program.cells
  BY <1>1, <1>3 DEF AfterFirst
<1>5. ASSUME NEW k \in Ops
      PROVE  k - 1 \in DOMAIN Serial /\ k \in DOMAIN Serial /\ Serial[k] = AfterOp(Op(k), Serial[k - 1])
  <2>1. k \in 0 .. n /\ k - 1 \in 0 .. n /\ k # 0
    BY <1>1
  <2> QED BY <1>3, <2>1 DEF AfterFirst, Op
<1>6. \A k \in 0 .. n : DOMAIN Serial[k] = DOMAIN program.cells
  <2> DEFINE T == {k \in 0 .. n : DOMAIN Serial[k] # DOMAIN program.cells}
  <2>1. SUFFICES ASSUME T # {} PROVE FALSE
    OBVIOUS
  <2>2. T \subseteq Nat
    BY <1>1
  <2>3. PICK k \in T : \A l \in T : k <= l
    BY <2>1, <2>2, LeastElement
  <2>4. k # 0
    BY <1>4, <2>3
  <2>5. k \in Ops /\ k - 1 \in 0 .. n /\ k - 1 \notin T
    BY <1>1, <2>2, <2>3, <2>4
  <2>6. DOMAIN Serial[k] = DOMAIN Serial[k - 1]
    BY <1>5, <2>5 DEF AfterOp
  <2> QED BY <2>3, <2>5, <2>6
<1> QED BY <1>3, <1>4, <1>5, <1>6 DEF n

\* One operation of the serial run.
LEMMA SerialStep ==
  ASSUME program \in Programs, NEW c \in Ops, NEW x \in DOMAIN program.cells
  PROVE  Serial[c][x] =
           IF x \in Writes(Op(c))
           THEN ApplyF64(Op(c).kernel, Serial[c - 1][Op(c).a + x - Op(c).out], Serial[c - 1][Op(c).b + x - Op(c).out])
           ELSE Serial[c - 1][x]
<1>1. c - 1 \in 0 .. Len(program.ops)
  BY ProgramFacts DEF Ops
<1>2. DOMAIN Serial[c - 1] = DOMAIN program.cells /\ Serial[c] = AfterOp(Op(c), Serial[c - 1])
  BY <1>1, SerialFacts
<1> QED BY <1>2 DEF AfterOp

\* A cell that no operation after c writes stays as c left it.
LEMMA SerialStays ==
  ASSUME program \in Programs, NEW c \in 0 .. Len(program.ops), NEW k \in c .. Len(program.ops),
         NEW x \in DOMAIN program.cells, \A d \in c + 1 .. k : x \notin Writes(Op(d))
  PROVE  Serial[k][x] = Serial[c][x]
<1> DEFINE T == {m \in c .. k : Serial[m][x] # Serial[c][x]}
<1>1. SUFFICES ASSUME T # {} PROVE FALSE
  <2>1. k \in c .. k
    BY ProgramFacts
  <2> QED BY <2>1
<1>2. Len(program.ops) \in Nat /\ Ops = 1 .. Len(program.ops)
  BY ProgramFacts DEF Ops
<1>3. T \subseteq Nat
  BY <1>2
<1>4. PICK m \in T : \A l \in T : m <= l
  BY <1>1, <1>3, LeastElement
<1>5. m \in c .. k /\ m # c
  BY <1>4
<1>6. m \in Ops /\ m \in c + 1 .. k /\ m - 1 \in c .. k /\ m - 1 \notin T
  BY <1>2, <1>3, <1>4, <1>5
<1>7. Serial[m][x] = Serial[m - 1][x]
  BY <1>6, SerialStep
<1> QED BY <1>4, <1>6, <1>7

-----------------------------------------------------------------------------
(* The memory while operations are under way.                              *)

\* How many rows of a queued task are stored.
Stored(w, j) == IF j = 1 THEN pos[w] ELSE 0

\* Positions are rows of the first task.
Places ==
  /\ DOMAIN cells = DOMAIN program.cells
  /\ pos \in [Slots -> Nat]
  /\ \A w \in Slots : Len(queue[w]) = 0 => pos[w] = 0

\* A waiting operation has an answer, or a place for it, per chunk.
AnswersPlaced ==
  \A c \in Ops : Waiting(c) => DOMAIN partials[c] = DOMAIN splitChunks(Op(c).len, program.size)

\* A queued task has stored its first rows, and its other rows are as they were
\* before its operation.
HalfDone ==
  \A w \in Slots : \A j \in 1 .. Len(queue[w]) :
    LET t == queue[w][j] IN
    t.kernel \in BinaryKernels =>
      \A i \in 0 .. t.len - 1 :
        cells[t.out + i] = Serial[IF i < Stored(w, j) THEN t.call ELSE t.call - 1][t.out + i]

\* The chunks that have answered have stored their rows.
AnsweredDone ==
  \A c \in Ops : Waiting(c) /\ Op(c).kernel \in BinaryKernels =>
    \A k \in DOMAIN partials[c] : partials[c][k] # Unanswered =>
      \A row \in ChunkRows(splitChunks(Op(c).len, program.size)[k]) :
        cells[Op(c).out + row] = Serial[c][Op(c).out + row]

MemoryInv == Places /\ AnswersPlaced /\ HalfDone /\ AnsweredDone /\ MemoryExact

LEMMA InMemory ==
  ASSUME program \in Programs, NEW c \in Ops
  PROVE  /\ DOMAIN program.cells \subseteq Nat
         /\ Reads(Op(c)) \subseteq DOMAIN program.cells /\ Writes(Op(c)) \subseteq DOMAIN program.cells
         /\ Op(c).kernel \in BinaryKernels =>
              \A ptr \in {Op(c).a, Op(c).b} : Op(c).out = ptr \/ Rows(Op(c).out, Op(c).len) \cap Rows(ptr, Op(c).len) = {}
<1>1. c \in DOMAIN program.ops
  BY ProgramFacts
<1>2. Reads(program.ops[c]) \cup Writes(program.ops[c]) \subseteq DOMAIN program.cells
  BY <1>1, ProgramsAssumption
<1> QED BY <1>1, <1>2, ProgramsAssumption DEF Op

LEMMA SomeFacts ==
  ASSUME ThreadsTypeOK
  PROVE  /\ program \in Programs /\ program.size \in Nat \ {0}
         /\ Len(program.ops) \in Nat /\ Ops = 1 .. Len(program.ops) /\ issued \in 0 .. Len(program.ops)
         /\ status \in [Ops -> {"idle", "waiting", "resolved", "rejected"}]
         /\ queue \in [Slots -> Seq(Tasks)] /\ DOMAIN partials = Ops
BY ProgramFacts DEF ThreadsTypeOK, Ops

\* Writers: the operations whose outputs are not settled.
LEMMA OpenFacts ==
  ASSUME ThreadsInv, NEW c \in Ops
  PROVE  /\ Waiting(c) => c \in 1 .. issued /\ status[c] # "resolved"
         /\ status[c] \in {"waiting", "rejected"} <=> c \in 1 .. issued /\ status[c] # "resolved"
BY SomeFacts DEF ThreadsInv, StartedInOrder, Waiting

\* What starts after an operation that has not resolved leaves its cells alone.
LEMMA LaterApart ==
  ASSUME ThreadsInv, NEW c \in 1 .. issued, NEW d \in c + 1 .. issued, status[c] # "resolved"
  PROVE  ~Conflict(Op(c), Op(d))
<1>1. /\ program \in Programs /\ issued \in 0 .. Len(program.ops) /\ Len(program.ops) \in Nat
      /\ Ops = 1 .. Len(program.ops)
  BY SomeFacts DEF ThreadsInv
<1>2. d \in DOMAIN program.ops /\ c \in 1 .. d - 1 /\ d \in 1 .. issued
  BY <1>1, ProgramFacts
<1>3. Conflict(Op(c), Op(d)) => c \in Awaited(program.ops, d)
  BY <1>1, <1>2, ProgramsAssumption DEF Op
<1> QED BY <1>2, <1>3, AwaitedResolved DEF ThreadsInv

\* An operation that may start leaves those under way alone.
LEMMA NewApart ==
  ASSUME ThreadsInv, NEW c \in Ops, c = issued + 1, Op(c).after # 0 => status[Op(c).after] = "resolved",
         NEW d \in 1 .. issued, status[d] # "resolved"
  PROVE  ~Conflict(Op(d), Op(c))
<1> DEFINE S == {x \in Ops : status[x] = "resolved"}
<1>1. /\ program \in Programs /\ issued \in 0 .. Len(program.ops) /\ Len(program.ops) \in Nat
      /\ Ops = 1 .. Len(program.ops) /\ Ops = DOMAIN program.ops
  BY SomeFacts, ProgramFacts DEF ThreadsInv
<1>2. ASSUME NEW x \in S \cup {c}, program.ops[x].after # 0
      PROVE  program.ops[x].after \in S
  <2>1. x \in Ops /\ (x \in 1 .. issued \/ x = c)
    BY <1>1 DEF ThreadsInv, StartedInOrder
  <2>2. Op(x).after \in Ops
    BY <1>1, <1>2, <2>1, ProgramFacts DEF Op
  <2> QED BY <1>2, <2>1, <2>2 DEF ThreadsInv, StartedInOrder, Op
<1>3. S \in SUBSET DOMAIN program.ops
  BY <1>1
<1>4. Awaited(program.ops, c) \subseteq S
  BY <1>2, <1>3 DEF Awaited
<1>5. d \in 1 .. c - 1 /\ c \in DOMAIN program.ops
  BY <1>1
<1>6. Conflict(Op(d), Op(c)) => d \in Awaited(program.ops, c)
  BY <1>1, <1>5, ProgramsAssumption DEF Op
<1> QED BY <1>4, <1>6

\* A cell of an operation that has not resolved, and that it does not write
\* itself, holds what the operation would find if it ran alone.
LEMMA OperandsExact ==
  ASSUME ThreadsInv, Places, MemoryExact, NEW c \in 1 .. issued, status[c] # "resolved",
         NEW x \in Reads(Op(c)), x \notin Writes(Op(c))
  PROVE  cells[x] = Serial[c - 1][x]
<1>1. /\ program \in Programs /\ issued \in 0 .. Len(program.ops) /\ Len(program.ops) \in Nat
      /\ Ops = 1 .. Len(program.ops) /\ c \in Ops
  BY SomeFacts DEF ThreadsInv
<1>2. x \in DOMAIN program.cells /\ x \in DOMAIN cells
  BY <1>1, InMemory DEF Places
<1>3. ASSUME NEW d \in Ops, status[d] \in {"waiting", "rejected"} PROVE x \notin Writes(Op(d))
  <2>1. d \in 1 .. issued /\ status[d] # "resolved"
    BY <1>3, OpenFacts
  <2>2. d # c => ~Conflict(Op(d), Op(c))
    BY <2>1, OpenTogether
  <2> QED BY <2>2 DEF Conflict
<1>4. cells[x] = Serial[issued][x]
  BY <1>2, <1>3 DEF MemoryExact
<1>5. ASSUME NEW d \in c .. issued PROVE x \notin Writes(Op(d))
  <2>1. d = c \/ d \in c + 1 .. issued
    BY <1>1
  <2>2. d \in c + 1 .. issued => ~Conflict(Op(c), Op(d))
    BY LaterApart
  <2> QED BY <2>1, <2>2 DEF Conflict
<1>6. c - 1 \in 0 .. Len(program.ops) /\ issued \in c - 1 .. Len(program.ops) /\ (c - 1) + 1 = c
  BY <1>1
<1>7. Serial[issued][x] = Serial[c - 1][x]
  BY <1>1, <1>2, <1>5, <1>6, SerialStays
<1> QED BY <1>4, <1>7

\* A cell that an operation which has not resolved writes is the operation's.
LEMMA OutputsStay ==
  ASSUME ThreadsInv, NEW c \in 1 .. issued, status[c] # "resolved", NEW x \in Writes(Op(c))
  PROVE  x \in DOMAIN program.cells /\ Serial[issued][x] = Serial[c][x]
<1>1. /\ program \in Programs /\ issued \in 0 .. Len(program.ops) /\ Len(program.ops) \in Nat
      /\ Ops = 1 .. Len(program.ops) /\ c \in Ops /\ c \in 0 .. Len(program.ops) /\ issued \in c .. Len(program.ops)
  BY SomeFacts DEF ThreadsInv
<1>2. x \in DOMAIN program.cells
  BY <1>1, InMemory
<1>3. \A d \in c + 1 .. issued : x \notin Writes(Op(d))
  BY LaterApart DEF Conflict
<1> QED BY <1>1, <1>2, <1>3, SerialStays

-----------------------------------------------------------------------------
(* Every step keeps what the memory holds.                                 *)

LEMMA SameProgram ==
  ASSUME program' = program
  PROVE  Serial' = Serial /\ Ops' = Ops /\ Slots' = Slots /\ \A x : Op(x)' = Op(x)
BY DEF Serial, Ops, Slots, Op

\* What is left to show of the memory when the program stays.
LEMMA ExactAfter ==
  ASSUME program' = program,
         \A x \in DOMAIN cells' :
           (\A d \in Ops : status'[d] \in {"waiting", "rejected"} => x \notin Writes(Op(d)))
             => cells'[x] = Serial[issued'][x]
  PROVE  MemoryExact'
BY SameProgram DEF MemoryExact

LEMMA InitMemory == ThreadsInit => MemoryInv
<1> SUFFICES ASSUME ThreadsInit PROVE MemoryInv
  OBVIOUS
<1>1. program \in Programs
  BY DEF ThreadsInit
<1>2. Places /\ AnswersPlaced
  BY DEF ThreadsInit, Places, AnswersPlaced, Waiting
<1>3. \A w \in Slots : Len(queue[w]) = 0
  BY DEF ThreadsInit
<1>4. HalfDone
  BY <1>3 DEF HalfDone
<1>5. AnsweredDone
  BY DEF ThreadsInit, AnsweredDone, Waiting
<1>6. MemoryExact
  BY <1>1, SerialFacts DEF ThreadsInit, MemoryExact
<1> QED BY <1>2, <1>4, <1>5, <1>6 DEF MemoryInv

\* An operation without rows writes nothing.
LEMMA StartEmptyMemory ==
  ASSUME ThreadsInv, MemoryInv, NEW c \in Ops, StartEmpty(c)
  PROVE  MemoryInv'
<1>1. /\ program' = program /\ issued' = c /\ c = issued + 1 /\ queue' = queue /\ partials' = partials
      /\ status' = [status EXCEPT ![c] = "resolved"] /\ pos' = pos /\ cells' = cells
      /\ splitChunks(Op(c).len, program.size) = << >>
  BY DEF StartEmpty, Started
<1>2. /\ Serial' = Serial /\ Ops' = Ops /\ Slots' = Slots /\ \A x : Op(x)' = Op(x)
  BY <1>1, SameProgram
<1>3. /\ program \in Programs /\ program.size \in Nat \ {0} /\ Op(c).len \in Nat
      /\ status \in [Ops -> {"idle", "waiting", "resolved", "rejected"}]
      /\ status[c] = "idle"
  BY <1>1, SomeFacts, ProgramFacts DEF ThreadsInv, StartedInOrder
<1>4. \A d \in Ops : Waiting(d)' <=> Waiting(d)
  BY <1>1, <1>3 DEF Waiting
<1>5. Places' /\ AnswersPlaced' /\ AnsweredDone' /\ HalfDone'
  BY <1>1, <1>2, <1>4 DEF MemoryInv, Places, AnswersPlaced, AnsweredDone, HalfDone, Stored
<1>6. Writes(Op(c)) = {}
  <2>1. Op(c).len = 0
    <3>1. \A row \in 0 .. Op(c).len - 1 : row \notin 0 .. Op(c).len - 1
      <4>1. DOMAIN splitChunks(Op(c).len, program.size) = {}
        BY <1>1
      <4> QED BY <1>3, <4>1, ChunksPartition
    <3> QED BY <1>3, <3>1
  <2>2. Op(c).out \in Nat
    BY <1>3, ProgramFacts
  <2>3. Rows(Op(c).out, Op(c).len) = {}
    BY <2>1, <2>2 DEF Rows
  <2> QED BY <2>3 DEF Writes
<1>7. MemoryExact'
  <2> SUFFICES ASSUME NEW x \in DOMAIN cells,
                      \A d \in Ops : status'[d] \in {"waiting", "rejected"} => x \notin Writes(Op(d))
               PROVE  cells[x] = Serial[c][x]
    BY <1>1, ExactAfter
  <2>1. \A d \in Ops : status[d] \in {"waiting", "rejected"} => x \notin Writes(Op(d))
    BY <1>1, <1>3
  <2>2. cells[x] = Serial[issued][x]
    BY <2>1 DEF MemoryInv, MemoryExact
  <2>3. x \in DOMAIN program.cells
    BY DEF MemoryInv, Places
  <2>4. Serial[c][x] = Serial[c - 1][x]
    BY <1>3, <1>6, <2>3, SerialStep
  <2>5. issued \in Int
    BY SomeFacts DEF ThreadsInv
  <2> QED BY <1>1, <2>2, <2>4, <2>5
<1> QED BY <1>5, <1>7 DEF MemoryInv

\* The tasks of a new operation find the cells they store as it would.
LEMMA StartMemory ==
  ASSUME ThreadsInv, ThreadsInv', MemoryInv, NEW c \in Ops, Started(c),
         Sent(c, Len(splitChunks(Op(c).len, program.size))),
         \A w \in Slots : queue'[w] = queue[w] \/ \E t : t.call = c /\ queue'[w] = Append(queue[w], t)
  PROVE  MemoryInv'
<1> DEFINE n == Len(splitChunks(Op(c).len, program.size))
<1>1. /\ program' = program /\ issued' = c /\ c = issued + 1 /\ pos' = pos /\ cells' = cells
      /\ status' = [status EXCEPT ![c] = "waiting"]
      /\ partials' = [partials EXCEPT ![c] = [k \in 1 .. n |-> Unanswered]]
      /\ Op(c).after # 0 => status[Op(c).after] = "resolved"
  BY DEF Started, Sent
<1>2. /\ Serial' = Serial /\ Ops' = Ops /\ Slots' = Slots /\ \A x : Op(x)' = Op(x)
  BY <1>1, SameProgram
<1>3. /\ program \in Programs /\ program.size \in Nat \ {0} /\ Op(c).len \in Nat
      /\ Len(program.ops) \in Nat /\ Ops = 1 .. Len(program.ops) /\ issued \in 0 .. Len(program.ops)
      /\ status \in [Ops -> {"idle", "waiting", "resolved", "rejected"}] /\ DOMAIN partials = Ops
      /\ queue \in [Slots -> Seq(Tasks)] /\ queue' \in [Slots -> Seq(Tasks)]
  <2>1. queue' \in [Slots -> Seq(Tasks)]
    BY <1>2 DEF ThreadsInv, ThreadsTypeOK
  <2> QED BY <2>1, SomeFacts, ProgramFacts DEF ThreadsInv
<1>4. n \in Nat /\ DOMAIN splitChunks(Op(c).len, program.size) = 1 .. n
  BY <1>3, ChunkFacts
<1> HIDE DEF n
<1>5. \A d \in Ops : d # c => (Waiting(d)' <=> Waiting(d)) /\ partials'[d] = partials[d]
  BY <1>1, <1>3 DEF Waiting
<1>6. AnswersPlaced'
  <2>1. DOMAIN partials'[c] = DOMAIN splitChunks(Op(c).len, program.size)
    BY <1>1, <1>3, <1>4
  <2> QED BY <1>1, <1>2, <1>5, <2>1 DEF MemoryInv, AnswersPlaced
<1>7. AnsweredDone'
  <2>1. \A k \in DOMAIN partials'[c] : partials'[c][k] = Unanswered
    BY <1>1, <1>3
  <2> QED BY <1>1, <1>2, <1>5, <2>1 DEF MemoryInv, AnsweredDone
<1>8. ASSUME NEW x \in DOMAIN cells, \A d \in Ops : status[d] \in {"waiting", "rejected"} => x \notin Writes(Op(d))
      PROVE  cells[x] = Serial[c - 1][x]
  <2>1. issued = c - 1
    BY <1>1, <1>3
  <2> QED BY <1>8, <2>1 DEF MemoryInv, MemoryExact
<1>9. MemoryExact'
  <2> SUFFICES ASSUME NEW x \in DOMAIN cells,
                      \A d \in Ops : status'[d] \in {"waiting", "rejected"} => x \notin Writes(Op(d))
               PROVE  cells[x] = Serial[c][x]
    BY <1>1, ExactAfter
  <2>1. x \notin Writes(Op(c)) /\ \A d \in Ops : status[d] \in {"waiting", "rejected"} => x \notin Writes(Op(d))
    BY <1>1, <1>3
  <2>2. x \in DOMAIN program.cells
    BY DEF MemoryInv, Places
  <2> QED BY <1>3, <1>8, <2>1, <2>2, SerialStep
<1>10. ASSUME NEW w \in Slots, NEW j \in 1 .. Len(queue'[w])
       PROVE  \/ j \in 1 .. Len(queue[w]) /\ queue'[w][j] = queue[w][j]
              \/ j = Len(queue[w]) + 1 /\ queue'[w][j].call = c
  <2>1. queue[w] \in Seq(Tasks) /\ Len(queue[w]) \in Nat
    BY <1>3
  <2>2. CASE queue'[w] = queue[w]
    BY <2>2
  <2>3. ASSUME NEW t, t.call = c, queue'[w] = Append(queue[w], t)
        PROVE  \/ j \in 1 .. Len(queue[w]) /\ queue'[w][j] = queue[w][j]
               \/ j = Len(queue[w]) + 1 /\ queue'[w][j].call = c
    <3>1. /\ Len(queue'[w]) = Len(queue[w]) + 1
          /\ \A i \in 1 .. Len(queue[w]) : queue'[w][i] = queue[w][i]
          /\ queue'[w][Len(queue[w]) + 1] = t
      BY <2>1, <2>3
    <3> QED BY <2>1, <2>3, <3>1
  <2> QED BY <2>2, <2>3
<1>11. HalfDone'
  <2> SUFFICES ASSUME NEW w \in Slots, NEW j \in 1 .. Len(queue'[w]), queue'[w][j].kernel \in BinaryKernels,
                      NEW i \in 0 .. queue'[w][j].len - 1
               PROVE  LET t == queue'[w][j] IN
                      cells[t.out + i] = Serial[IF i < Stored(w, j) THEN t.call ELSE t.call - 1][t.out + i]
    BY <1>1, <1>2 DEF HalfDone, Stored
  <2>1. CASE j \in 1 .. Len(queue[w]) /\ queue'[w][j] = queue[w][j]
    BY <2>1 DEF MemoryInv, HalfDone
  <2>2. CASE j = Len(queue[w]) + 1 /\ queue'[w][j].call = c
    <3> DEFINE t == queue'[w][j]
               y == t.out + i
    <3>1. queue'[w] \in Seq(Tasks) /\ t \in Tasks
      BY <1>3, ElementOf
    <3>2. PartOf(t)
      BY <1>1, <1>2, <3>1, PartStays DEF ThreadsInv, QueuedOpen
    <3>3. y \in Writes(t) /\ t.call = c
      <4>1. t.kernel \in BinaryKernels /\ i \in 0 .. t.len - 1 /\ t.call = c
        BY <2>2
      <4> HIDE DEF t
      <4>2. t.out \in Nat /\ t.len \in Nat
        BY <3>1 DEF Tasks
      <4> QED BY <4>1, <4>2 DEF Writes, Rows
    <3>4. y \in Writes(Op(c))
      BY <3>1, <3>2, <3>3, PartRows DEF ThreadsInv
    <3>5. ASSUME NEW d \in Ops, status[d] \in {"waiting", "rejected"} PROVE y \notin Writes(Op(d))
      <4>1. d \in 1 .. issued /\ status[d] # "resolved"
        BY <3>5, OpenFacts
      <4>2. ~Conflict(Op(d), Op(c))
        BY <1>1, <4>1, NewApart
      <4> QED BY <3>4, <4>2 DEF Conflict
    <3>6. y \in DOMAIN cells
      BY <1>3, <3>4, InMemory DEF MemoryInv, Places
    <3>7. cells[y] = Serial[c - 1][y]
      BY <1>8, <3>5, <3>6
    <3>8. Stored(w, j) = 0
      BY <1>3, <2>2 DEF MemoryInv, Places, Stored
    <3> HIDE DEF t
    <3> QED BY <3>3, <3>7, <3>8 DEF t
  <2> QED BY <1>10, <2>1, <2>2
<1>12. Places'
  <2>1. ASSUME NEW w \in Slots, Len(queue'[w]) = 0 PROVE Len(queue[w]) = 0
    <3>1. queue[w] \in Seq(Tasks)
      BY <1>3
    <3>2. ASSUME NEW t, queue'[w] = Append(queue[w], t) PROVE FALSE
      <4>1. Len(queue'[w]) = Len(queue[w]) + 1 /\ Len(queue[w]) \in Nat
        BY <3>1, <3>2
      <4> QED BY <2>1, <4>1
    <3> QED BY <2>1, <3>2
  <2> QED BY <1>1, <1>2, <2>1 DEF MemoryInv, Places
<1> QED BY <1>6, <1>7, <1>9, <1>11, <1>12 DEF MemoryInv

LEMMA StartSingleMemory ==
  ASSUME ThreadsInv, MemoryInv, NEW c \in Ops, StartSingle(c)
  PROVE  MemoryInv'
<1>1. ThreadsInv'
  BY StartSingleKeeps
<1>2. /\ Started(c) /\ Sent(c, Len(splitChunks(Op(c).len, program.size)))
      /\ queue' = [queue EXCEPT ![nextSlot] = Append(@, Task(c, 1, Op(c), Op(c).len))]
  BY DEF StartSingle
<1>3. \A o, len : Task(c, 1, o, len).call = c
  BY DEF Task
<1>4. queue \in [Slots -> Seq(Tasks)]
  BY SomeFacts DEF ThreadsInv
<1>5. \A w \in Slots : queue'[w] = queue[w] \/ \E t : t.call = c /\ queue'[w] = Append(queue[w], t)
  BY <1>2, <1>3, <1>4
<1> QED BY <1>1, <1>2, <1>5, StartMemory

LEMMA StartChunksMemory ==
  ASSUME ThreadsInv, MemoryInv, NEW c \in Ops, StartChunks(c)
  PROVE  MemoryInv'
<1> DEFINE chunks == splitChunks(Op(c).len, program.size)
           t(w) == Task(c, w, Offset(Op(c), chunks[w][1]), chunks[w][2] - chunks[w][1])
<1>1. ThreadsInv'
  BY StartChunksKeeps
<1>2. /\ Started(c) /\ Sent(c, Len(splitChunks(Op(c).len, program.size)))
      /\ queue' = [w \in Slots |-> IF w > Len(chunks) THEN queue[w] ELSE Append(queue[w], t(w))]
  BY DEF StartChunks
<1>3. \A w : t(w).call = c
  BY DEF Task
<1> HIDE DEF t
<1>4. \A w \in Slots : queue'[w] = queue[w] \/ \E u : u.call = c /\ queue'[w] = Append(queue[w], u)
  BY <1>2, <1>3
<1> QED BY <1>1, <1>2, <1>4, StartMemory

\* A task that leaves its queue has stored all its rows.
LEMMA DoneMemory ==
  ASSUME ThreadsInv, MemoryInv, NEW w \in Slots, queue[w] # << >>, NEW answer, Done(w, answer),
         First(w).kernel \in BinaryKernels => pos[w] = First(w).len,
         UNCHANGED <<program, issued, status, nextSlot, cells>>
  PROVE  MemoryInv'
<1> DEFINE t == First(w)
<1>1. /\ program \in Programs /\ queue \in [Slots -> Seq(Tasks)] /\ DOMAIN partials = Ops
      /\ queue' = [queue EXCEPT ![w] = Tail(@)] /\ partials' = [partials EXCEPT ![t.call][t.chunk] = <<answer>>]
      /\ pos' = [pos EXCEPT ![w] = 0] /\ pos \in [Slots -> Nat]
  BY SomeFacts DEF ThreadsInv, Done, MemoryInv, Places
<1>2. /\ Serial' = Serial /\ Ops' = Ops /\ Slots' = Slots /\ \A x : Op(x)' = Op(x)
  BY SameProgram
<1>3. queue[w] \in Seq(Tasks) /\ Len(queue[w]) \in Nat /\ 1 \in 1 .. Len(queue[w]) /\ t = queue[w][1]
  BY <1>1 DEF First
<1>4. /\ t \in Tasks /\ t.call \in Ops /\ PartOf(t)
  BY <1>3, QueuedFacts DEF ThreadsInv
<1>5. ASSUME NEW x \in Slots, NEW j \in 1 .. Len(queue'[x])
      PROVE  \/ x # w /\ j \in 1 .. Len(queue[x]) /\ queue'[x][j] = queue[x][j]
             \/ x = w /\ j + 1 \in 2 .. Len(queue[w]) /\ queue'[x][j] = queue[w][j + 1]
  <2>1. CASE x # w
    BY <1>1, <2>1
  <2>2. CASE x = w
    <3>1. queue'[w] = Tail(queue[w]) /\ Len(Tail(queue[w])) = Len(queue[w]) - 1
      BY <1>1, <1>3
    <3>2. j \in 1 .. Len(queue[w]) - 1
      BY <2>2, <3>1
    <3>3. Tail(queue[w])[j] = queue[w][j + 1]
      BY <1>3, <3>2
    <3> QED BY <1>3, <2>2, <3>1, <3>2, <3>3
  <2> QED BY <2>1, <2>2
<1>6. Places'
  <2>1. ASSUME NEW x \in Slots, Len(queue'[x]) = 0 PROVE pos'[x] = 0
    BY <1>1, <2>1 DEF MemoryInv, Places
  <2>2. pos' \in [Slots -> Nat]
    BY <1>1
  <2> QED BY <1>2, <2>1, <2>2 DEF MemoryInv, Places
<1> HIDE DEF t
<1>7. \A c \in Ops : DOMAIN partials'[c] = DOMAIN partials[c]
  BY <1>1
<1>8. AnswersPlaced'
  BY <1>2, <1>7 DEF MemoryInv, AnswersPlaced, Waiting
<1>9. HalfDone'
  <2> SUFFICES ASSUME NEW x \in Slots, NEW j \in 1 .. Len(queue'[x]), queue'[x][j].kernel \in BinaryKernels,
                      NEW i \in 0 .. queue'[x][j].len - 1
               PROVE  LET u == queue'[x][j] IN
                      cells[u.out + i] = Serial[IF i < Stored(x, j)' THEN u.call ELSE u.call - 1][u.out + i]
    BY <1>2 DEF HalfDone
  <2>1. CASE x # w /\ j \in 1 .. Len(queue[x]) /\ queue'[x][j] = queue[x][j]
    <3>1. Stored(x, j)' = Stored(x, j)
      BY <1>1, <2>1 DEF Stored
    <3> QED BY <2>1, <3>1 DEF MemoryInv, HalfDone
  <2>2. CASE x = w /\ j + 1 \in 2 .. Len(queue[w]) /\ queue'[x][j] = queue[w][j + 1]
    <3>1. Stored(x, j)' = 0 /\ Stored(w, j + 1) = 0
      BY <1>1, <2>2 DEF Stored
    <3>2. j + 1 \in 1 .. Len(queue[w])
      BY <1>3, <2>2
    <3> QED BY <2>2, <3>1, <3>2 DEF MemoryInv, HalfDone
  <2> QED BY <1>5, <2>1, <2>2
<1>10. AnsweredDone'
  <2> SUFFICES ASSUME NEW c \in Ops, Waiting(c), Op(c).kernel \in BinaryKernels, NEW k \in DOMAIN partials[c],
                      partials'[c][k] # Unanswered, NEW row \in ChunkRows(splitChunks(Op(c).len, program.size)[k])
               PROVE  cells[Op(c).out + row] = Serial[c][Op(c).out + row]
    BY <1>2, <1>7 DEF AnsweredDone, Waiting
  <2>1. CASE c # t.call \/ k # t.chunk
    <3>1. partials'[c][k] = partials[c][k]
      BY <1>1, <2>1
    <3> QED BY <3>1 DEF MemoryInv, AnsweredDone
  <2>2. CASE c = t.call /\ k = t.chunk
    <3> DEFINE s == splitChunks(Op(c).len, program.size)[k][1]
               e == splitChunks(Op(c).len, program.size)[k][2]
    <3>1. /\ t.kernel = Op(c).kernel /\ t.out = Op(c).out + s /\ t.len = e - s
          /\ k \in DOMAIN splitChunks(Op(c).len, program.size)
      BY <1>4, <2>2 DEF PartOf
    <3>2. Op(c).out \in Nat /\ s \in Nat /\ e \in Nat
      BY <1>1, <3>1, ProgramFacts, ChunkFacts
    <3>3. row \in s .. e - 1
      BY DEF ChunkRows
    <3> HIDE DEF s, e
    <3>4. row - s \in 0 .. t.len - 1 /\ t.out + (row - s) = Op(c).out + row
      BY <3>1, <3>2, <3>3
    <3>5. Stored(w, 1) = t.len /\ t.kernel \in BinaryKernels
      BY <3>1 DEF Stored, t
    <3>6. row - s < Stored(w, 1)
      BY <3>1, <3>2, <3>3, <3>4, <3>5
    <3>7. cells[t.out + (row - s)] = Serial[t.call][t.out + (row - s)]
      BY <1>3, <3>4, <3>5, <3>6 DEF MemoryInv, HalfDone
    <3> QED BY <2>2, <3>4, <3>7
  <2> QED BY <2>1, <2>2
<1>11. MemoryExact'
  BY <1>2 DEF MemoryInv, MemoryExact
<1> QED BY <1>6, <1>8, <1>9, <1>10, <1>11 DEF MemoryInv

\* An operation resolves when its chunks, which are all its rows, have answered.
LEMMA ResolveMemory ==
  ASSUME ThreadsInv, MemoryInv, NEW c \in Ops, Resolve(c)
  PROVE  MemoryInv'
<1>1. /\ Waiting(c) /\ \A k \in DOMAIN partials[c] : partials[c][k] # Unanswered
      /\ status' = [status EXCEPT ![c] = "resolved"]
      /\ UNCHANGED <<program, issued, partials, queue, pos, cells>>
  BY DEF Resolve, pool
<1>2. /\ Serial' = Serial /\ Ops' = Ops /\ Slots' = Slots /\ \A x : Op(x)' = Op(x)
  BY <1>1, SameProgram
<1>3. /\ program \in Programs /\ program.size \in Nat \ {0} /\ Op(c).len \in Nat /\ Op(c).out \in Nat
      /\ status \in [Ops -> {"idle", "waiting", "resolved", "rejected"}]
      /\ c \in 1 .. issued /\ status[c] # "resolved"
  BY <1>1, SomeFacts, ProgramFacts, OpenFacts DEF ThreadsInv
<1>4. \A d \in Ops : Waiting(d)' => Waiting(d)
  BY <1>1, <1>3 DEF Waiting
<1>5. Places' /\ AnswersPlaced' /\ AnsweredDone' /\ HalfDone'
  BY <1>1, <1>2, <1>4 DEF MemoryInv, Places, AnswersPlaced, AnsweredDone, HalfDone, Stored
<1>6. ASSUME NEW x \in Writes(Op(c)) PROVE cells[x] = Serial[c][x]
  <2> DEFINE row == x - Op(c).out
             chunks == splitChunks(Op(c).len, program.size)
  <2>1. Op(c).kernel \in BinaryKernels /\ row \in 0 .. Op(c).len - 1 /\ x = Op(c).out + row
    BY <1>3, <1>6 DEF Writes, Rows
  <2>2. PICK k \in DOMAIN chunks : row \in ChunkRows(chunks[k])
    BY <1>3, <2>1, ChunksPartition
  <2>3. k \in DOMAIN partials[c]
    BY <1>1, <2>2 DEF MemoryInv, AnswersPlaced
  <2> HIDE DEF row
  <2> QED BY <1>1, <2>1, <2>2, <2>3 DEF MemoryInv, AnsweredDone
<1>7. MemoryExact'
  <2> SUFFICES ASSUME NEW x \in DOMAIN cells,
                      \A d \in Ops : status'[d] \in {"waiting", "rejected"} => x \notin Writes(Op(d))
               PROVE  cells[x] = Serial[issued][x]
    BY <1>1, ExactAfter
  <2>1. CASE x \in Writes(Op(c))
    BY <1>3, <1>6, <2>1, OutputsStay
  <2>2. CASE x \notin Writes(Op(c))
    <3>1. \A d \in Ops : status[d] \in {"waiting", "rejected"} => x \notin Writes(Op(d))
      BY <1>1, <1>3, <2>2
    <3> QED BY <3>1 DEF MemoryInv, MemoryExact
  <2> QED BY <2>1, <2>2
<1> QED BY <1>5, <1>7 DEF MemoryInv

\* A lost worker leaves the outputs of its operations unsettled.
LEMMA HangsMemory ==
  ASSUME ThreadsInv, MemoryInv, NEW w \in Slots, Hangs(w)
  PROVE  MemoryInv'
<1> DEFINE dropped == {queue[w][j].call : j \in DOMAIN queue[w]}
<1>1. /\ status' = [c \in Ops |-> IF c \in dropped /\ Waiting(c) THEN "rejected" ELSE status[c]]
      /\ queue' = [queue EXCEPT ![w] = << >>] /\ pos' = [pos EXCEPT ![w] = 0]
      /\ UNCHANGED <<program, issued, partials, cells>>
  BY DEF Hangs
<1> HIDE DEF dropped
<1>2. /\ Serial' = Serial /\ Ops' = Ops /\ Slots' = Slots /\ \A x : Op(x)' = Op(x)
  BY <1>1, SameProgram
<1>3. queue \in [Slots -> Seq(Tasks)] /\ pos \in [Slots -> Nat]
  BY SomeFacts DEF ThreadsInv, MemoryInv, Places
<1>4. \A c \in Ops :
        /\ Waiting(c)' => Waiting(c)
        /\ status'[c] \in {"waiting", "rejected"} <=> status[c] \in {"waiting", "rejected"}
  BY <1>1 DEF Waiting
<1>5. AnswersPlaced' /\ AnsweredDone'
  BY <1>1, <1>2, <1>4 DEF MemoryInv, AnswersPlaced, AnsweredDone
<1>6. MemoryExact'
  <2> SUFFICES ASSUME NEW x \in DOMAIN cells,
                      \A d \in Ops : status'[d] \in {"waiting", "rejected"} => x \notin Writes(Op(d))
               PROVE  cells[x] = Serial[issued][x]
    BY <1>1, ExactAfter
  <2> QED BY <1>4 DEF MemoryInv, MemoryExact
<1>7. \A x \in Slots : \/ x = w /\ Len(queue'[x]) = 0 /\ pos'[x] = 0
                       \/ x # w /\ queue'[x] = queue[x] /\ pos'[x] = pos[x]
  BY <1>1, <1>3
<1>8. Places'
  BY <1>1, <1>2, <1>3, <1>7 DEF MemoryInv, Places
<1>9. HalfDone'
  <2>1. \A x \in Slots : \A j \in 1 .. Len(queue'[x]) :
          j \in 1 .. Len(queue[x]) /\ queue'[x] = queue[x] /\ Stored(x, j)' = Stored(x, j)
    BY <1>7 DEF Stored
  <2> QED BY <1>1, <1>2, <2>1 DEF MemoryInv, HalfDone
<1> QED BY <1>5, <1>6, <1>8, <1>9 DEF MemoryInv

\* A kernel that stores nothing goes on.
LEMMA CountsMemory ==
  ASSUME ThreadsInv, MemoryInv, NEW w \in Slots, Counts(w)
  PROVE  MemoryInv'
<1>1. /\ queue[w] # << >> /\ First(w).kernel = "nunique_f64_null" /\ pos' = [pos EXCEPT ![w] = @ + 1]
      /\ UNCHANGED <<program, issued, status, partials, queue, cells>>
  BY DEF Counts, Busy, Goes
<1>2. /\ Serial' = Serial /\ Ops' = Ops /\ Slots' = Slots /\ \A x : Op(x)' = Op(x)
  BY <1>1, SameProgram
<1>3. queue \in [Slots -> Seq(Tasks)] /\ pos \in [Slots -> Nat]
  BY SomeFacts DEF ThreadsInv, MemoryInv, Places
<1>4. Len(queue[w]) # 0 /\ queue[w][1].kernel \notin BinaryKernels
  BY <1>1, <1>3 DEF First, BinaryKernels
<1>5. Places'
  BY <1>1, <1>2, <1>3, <1>4 DEF MemoryInv, Places
<1>6. AnswersPlaced' /\ AnsweredDone' /\ MemoryExact'
  BY <1>1, <1>2 DEF MemoryInv, AnswersPlaced, AnsweredDone, MemoryExact, Waiting
<1>7. HalfDone'
  <2>1. \A x \in Slots : \A j \in 1 .. Len(queue[x]) : queue[x][j].kernel \in BinaryKernels => Stored(x, j)' = Stored(x, j)
    BY <1>1, <1>3, <1>4 DEF Stored
  <2> QED BY <1>1, <1>2, <2>1 DEF MemoryInv, HalfDone
<1> QED BY <1>5, <1>6, <1>7 DEF MemoryInv

LEMMA MinOfTwo ==
  ASSUME NEW n \in Nat \ {0}
  PROVE  Min({2, n}) \in 1 .. n /\ Min({2, n}) \in Nat
<1>1. \E x \in {2, n} : \A y \in {2, n} : x <= y
  <2>1. CASE 2 <= n
    BY <2>1
  <2>2. CASE n <= 2
    BY <2>2
  <2> QED BY <2>1, <2>2
<1>2. Min({2, n}) \in {2, n} /\ \A y \in {2, n} : Min({2, n}) <= y
  BY <1>1 DEF Min
<1> QED BY <1>2

\* A worker stores the next rows of its task, each from its operands.
LEMMA StoresMemory ==
  ASSUME ThreadsInv, MemoryInv, NEW w \in Slots, Stores(w)
  PROVE  MemoryInv'
<1> DEFINE t == First(w)
           c == t.call
           o == Op(c)
           p == pos[w]
           lanes == Min({2, t.len - p})
<1>1. /\ queue[w] # << >> /\ t.kernel \in BinaryKernels /\ p < t.len
      /\ cells' = [x \in DOMAIN cells |->
           IF x - t.out - p \in 0 .. lanes - 1
           THEN ApplyF64(t.kernel, cells[t.a + x - t.out], cells[t.b + x - t.out]) ELSE cells[x]]
      /\ pos' = [pos EXCEPT ![w] = @ + lanes]
      /\ UNCHANGED <<program, issued, status, partials, queue>>
  BY DEF Stores, Busy, Goes
<1>2. /\ Serial' = Serial /\ Ops' = Ops /\ Slots' = Slots /\ \A x : Op(x)' = Op(x)
  BY <1>1, SameProgram
<1>3. /\ program \in Programs /\ queue \in [Slots -> Seq(Tasks)] /\ pos \in [Slots -> Nat]
      /\ DOMAIN cells = DOMAIN program.cells /\ ThreadsTypeOK
  BY SomeFacts DEF ThreadsInv, MemoryInv, Places
<1>4. 1 \in 1 .. Len(queue[w]) /\ t = queue[w][1]
  BY <1>1, <1>3 DEF First
<1>5. /\ t \in Tasks /\ c \in 1 .. issued /\ c \in Ops /\ status[c] # "resolved" /\ PartOf(t)
      /\ t.chunk \in DOMAIN partials[c] /\ partials[c][t.chunk] = Unanswered
  BY <1>3, <1>4, QueuedFacts DEF ThreadsInv
<1> DEFINE s == splitChunks(o.len, program.size)[t.chunk][1]
           e == splitChunks(o.len, program.size)[t.chunk][2]
<1>6. /\ t.kernel = o.kernel /\ t.a = o.a + s /\ t.b = o.b + s /\ t.out = o.out + s /\ t.len = e - s
      /\ t.chunk \in DOMAIN splitChunks(o.len, program.size)
  BY <1>5 DEF PartOf
<1>7. s \in Nat /\ e \in Nat /\ o.a \in Nat /\ o.b \in Nat /\ o.out \in Nat /\ e <= o.len /\ o.len \in Nat
  BY <1>3, <1>5, <1>6, ProgramFacts, ChunkFacts
<1>8. t.a \in Nat /\ t.b \in Nat /\ t.out \in Nat /\ t.len \in Nat /\ p \in Nat
  BY <1>3, <1>5 DEF Tasks
<1>9. lanes \in Nat /\ p + lanes <= t.len /\ lanes \in 1 .. t.len - p
  <2>1. t.len - p \in Nat \ {0}
    BY <1>1, <1>8
  <2> HIDE DEF t, p
  <2> QED BY <1>8, <2>1, MinOfTwo
<1>10. Writes(t) \subseteq Writes(o) /\ Reads(t) \subseteq Reads(o)
  BY <1>3, <1>5, PartRows
<1>11. /\ Writes(o) \subseteq DOMAIN cells /\ Writes(o) = Rows(o.out, o.len) /\ Writes(t) = Rows(t.out, t.len)
       /\ o.out = o.a \/ Rows(o.out, o.len) \cap Rows(o.a, o.len) = {}
       /\ o.out = o.b \/ Rows(o.out, o.len) \cap Rows(o.b, o.len) = {}
  <2>1. t.kernel \in BinaryKernels /\ o.kernel \in BinaryKernels
    BY <1>1, <1>6
  <2>2. Writes(o) \subseteq DOMAIN cells
    BY <1>3, <1>5, InMemory
  <2>3. \A ptr \in {o.a, o.b} : o.out = ptr \/ Rows(o.out, o.len) \cap Rows(ptr, o.len) = {}
    BY <1>3, <1>5, <2>1, InMemory
  <2>4. Writes(o) = Rows(o.out, o.len) /\ Writes(t) = Rows(t.out, t.len)
    BY <2>1 DEF Writes
  <2> QED BY <2>2, <2>3, <2>4
<1>12. \A i \in 0 .. t.len - 1 : cells[t.out + i] = Serial[IF i < p THEN c ELSE c - 1][t.out + i]
  BY <1>1, <1>4 DEF MemoryInv, HalfDone, Stored
\* The operands of a row that is still to be stored are as the operation finds them.
<1>13. ASSUME NEW i \in p .. t.len - 1, NEW ptr \in {t.a, t.b}
       PROVE  cells[ptr + i] = Serial[c - 1][ptr + i]
  <2> DEFINE q == IF ptr = t.a THEN o.a ELSE o.b
  <2>1. ptr = q + s /\ q \in Nat /\ (o.out = q \/ Rows(o.out, o.len) \cap Rows(q, o.len) = {})
    BY <1>6, <1>7, <1>11
  <2>2. Rows(q, o.len) \subseteq Reads(o)
    BY <1>1, <1>6 DEF Reads
  <2> HIDE DEF q, t, o, s, e, p
  <2>3. ptr + i \in Rows(q, o.len)
    BY <1>6, <1>7, <1>8, <2>1 DEF Rows
  <2>4. CASE o.out = q
    <3>1. ptr = t.out /\ i \in 0 .. t.len - 1 /\ ~(i < p)
      BY <1>6, <1>8, <2>1, <2>4
    <3> QED BY <1>12, <3>1
  <2>5. CASE Rows(o.out, o.len) \cap Rows(q, o.len) = {}
    <3>1. ptr + i \in Reads(o) /\ ptr + i \notin Writes(o)
      BY <1>11, <2>2, <2>3, <2>5
    <3> HIDE DEF c
    <3> QED BY <1>5, <3>1, OperandsExact DEF MemoryInv, o
  <2> QED BY <2>1, <2>4, <2>5
<1> HIDE DEF lanes, s, e
\* What is stored is what the operation stores when it runs alone.
<1>14. ASSUME NEW i \in p .. p + lanes - 1 PROVE cells'[t.out + i] = Serial[c][t.out + i]
  <2> DEFINE x == t.out + i
  <2>1. i \in 0 .. t.len - 1 /\ i \in p .. t.len - 1 /\ i \in Nat
    BY <1>8, <1>9
  <2>2. x \in Writes(o) /\ x \in DOMAIN cells /\ x \in DOMAIN program.cells /\ x \in Nat
    <3>1. x \in Rows(t.out, t.len)
      BY <1>8, <2>1 DEF Rows
    <3> HIDE DEF x, t, o
    <3>2. x \in Writes(o) /\ x \in DOMAIN cells
      BY <1>10, <1>11, <3>1
    <3>3. x \in Nat
      BY <1>8, <2>1 DEF x
    <3> QED BY <1>3, <3>2, <3>3
  <2>3. /\ x - t.out - p \in 0 .. lanes - 1
        /\ t.a + x - t.out = t.a + i /\ t.b + x - t.out = t.b + i
        /\ o.a + x - o.out = t.a + i /\ o.b + x - o.out = t.b + i
    <3> HIDE DEF t, o, p
    <3> QED BY <1>6, <1>7, <1>8, <1>9, <2>1 DEF x
  <2> HIDE DEF x
  <2>4. cells'[x] = ApplyF64(t.kernel, cells[t.a + i], cells[t.b + i])
    BY <1>1, <2>2, <2>3
  <2>5. cells[t.a + i] = Serial[c - 1][t.a + i] /\ cells[t.b + i] = Serial[c - 1][t.b + i]
    BY <1>13, <2>1
  <2>6. Serial[c][x] = ApplyF64(o.kernel, Serial[c - 1][t.a + i], Serial[c - 1][t.b + i])
    <3>1. Serial[c][x] = IF x \in Writes(o)
            THEN ApplyF64(o.kernel, Serial[c - 1][o.a + x - o.out], Serial[c - 1][o.b + x - o.out]) ELSE Serial[c - 1][x]
      BY <1>3, <1>5, <2>2, SerialStep
    <3> QED BY <2>2, <2>3, <3>1
  <2>7. cells'[x] = Serial[c][x]
    BY <1>6, <2>4, <2>5, <2>6
  <2> QED BY <2>7 DEF x
<1>15. ASSUME NEW x \in DOMAIN cells, x \notin Writes(t) \/ ~(x - t.out \in p .. p + lanes - 1)
       PROVE  cells'[x] = cells[x]
  <2>1. x \in Nat
    BY <1>3, <1>5, InMemory
  <2>2. ~(x - t.out - p \in 0 .. lanes - 1)
    <3> HIDE DEF t, p
    <3>1. x - t.out - p \in 0 .. lanes - 1 => x \in Rows(t.out, t.len) /\ x - t.out \in p .. p + lanes - 1
      BY <1>8, <1>9, <2>1 DEF Rows
    <3> QED BY <1>11, <1>15, <3>1
  <2> QED BY <1>1, <2>2
<1>16. Places'
  <2>1. pos' \in [Slots -> Nat]
    BY <1>1, <1>3, <1>9
  <2>2. \A x \in Slots : x # w => pos'[x] = pos[x]
    BY <1>1, <1>3
  <2>3. Len(queue[w]) # 0
    BY <1>4
  <2> QED BY <1>1, <1>2, <1>3, <2>1, <2>2, <2>3 DEF MemoryInv, Places
<1>17. AnswersPlaced'
  BY <1>1, <1>2 DEF MemoryInv, AnswersPlaced, Waiting
<1>18. MemoryExact'
  <2> SUFFICES ASSUME NEW x \in DOMAIN cells,
                      \A d \in Ops : status[d] \in {"waiting", "rejected"} => x \notin Writes(Op(d))
               PROVE  cells'[x] = Serial[issued][x]
    BY <1>1, <1>2 DEF MemoryExact
  <2>1. x \notin Writes(t)
    BY <1>5, <1>10, OpenFacts
  <2> QED BY <1>15, <2>1 DEF MemoryInv, MemoryExact
<1>19. AnsweredDone'
  <2> SUFFICES ASSUME NEW d \in Ops, Waiting(d), Op(d).kernel \in BinaryKernels, NEW k \in DOMAIN partials[d],
                      partials[d][k] # Unanswered, NEW row \in ChunkRows(splitChunks(Op(d).len, program.size)[k])
               PROVE  cells'[Op(d).out + row] = Serial[d][Op(d).out + row]
    BY <1>1, <1>2 DEF AnsweredDone, Waiting
  <2> DEFINE y == Op(d).out + row
  <2>1. /\ program.size \in Nat \ {0} /\ Op(d).len \in Nat /\ Op(d).out \in Nat
        /\ k \in DOMAIN splitChunks(Op(d).len, program.size)
    BY <1>3, SomeFacts, ProgramFacts DEF MemoryInv, AnswersPlaced
  <2>2. row \in 0 .. Op(d).len - 1 /\ row \in Int
    BY <2>1, ChunksPartition
  <2>3. y \in Writes(Op(d)) /\ y \in Int
    BY <2>1, <2>2 DEF Writes, Rows
  <2>4. y \in DOMAIN cells
    BY <1>3, <2>3, InMemory
  <2>5. y \notin Writes(t)
    <3>1. CASE d # c
      <4>1. d \in 1 .. issued /\ status[d] # "resolved"
        BY OpenFacts
      <4>2. ~Conflict(Op(d), o)
        BY <1>5, <3>1, <4>1, OpenTogether
      <4> QED BY <1>10, <2>3, <4>2 DEF Conflict
    <3>2. CASE d = c
      <4>1. k # t.chunk
        BY <1>5, <3>2
      <4>2. row \notin ChunkRows(splitChunks(o.len, program.size)[t.chunk])
        BY <1>6, <2>1, <2>2, <3>2, <4>1, ChunksApart
      <4>3. row \notin s .. e - 1
        BY <4>2 DEF ChunkRows, s, e
      <4> HIDE DEF t, o
      <4>4. y - o.out = row
        BY <1>7, <2>2, <3>2 DEF o
      <4> HIDE DEF y
      <4> QED BY <1>6, <1>7, <1>11, <2>3, <4>3, <4>4 DEF Rows
    <3> QED BY <3>1, <3>2
  <2>6. cells[y] = Serial[d][y]
    BY DEF MemoryInv, AnsweredDone
  <2>7. cells'[y] = cells[y]
    BY <1>15, <2>4, <2>5
  <2> QED BY <2>6, <2>7
<1>20. HalfDone'
  <2> SUFFICES ASSUME NEW x \in Slots, NEW j \in 1 .. Len(queue[x]), queue[x][j].kernel \in BinaryKernels,
                      NEW i \in 0 .. queue[x][j].len - 1
               PROVE  LET u == queue[x][j] IN
                      cells'[u.out + i] = Serial[IF i < Stored(x, j)' THEN u.call ELSE u.call - 1][u.out + i]
    <3>1. queue' = queue /\ Slots' = Slots /\ Serial' = Serial
      BY <1>1, <1>2
    <3> HIDE DEF t, c, o, p
    <3> QED BY <3>1 DEF HalfDone
  <2> DEFINE u == queue[x][j]
             y == u.out + i
  <2>1. u \in Tasks /\ u.call \in Ops /\ PartOf(u)
    BY <1>3, QueuedFacts DEF ThreadsInv
  <2>2. y \in Writes(u) /\ i \in Nat /\ u.out \in Nat
    <3> HIDE DEF u
    <3>1. u.kernel \in BinaryKernels /\ i \in 0 .. u.len - 1
      BY DEF u
    <3> QED BY <2>1, <3>1 DEF Writes, Rows, Tasks
  <2>3. y \in DOMAIN cells
    <3>1. y \in Writes(Op(u.call))
      BY <1>3, <2>1, <2>2, PartRows
    <3> QED BY <1>3, <2>1, <3>1, InMemory
  <2>4. cells[y] = Serial[IF i < Stored(x, j) THEN u.call ELSE u.call - 1][y]
    BY DEF MemoryInv, HalfDone
  <2>5. CASE x # w \/ j # 1
    <3>1. y \notin Writes(t)
      BY <1>4, <2>2, <2>5, TasksApart
    <3>2. cells'[y] = cells[y]
      BY <1>15, <2>3, <3>1
    <3>3. Stored(x, j)' = Stored(x, j)
      BY <1>1, <1>3, <2>5 DEF Stored
    <3> QED BY <2>4, <3>2, <3>3
  <2>6. CASE x = w /\ j = 1
    <3>1. u = t /\ Stored(x, j)' = p + lanes /\ Stored(x, j) = p
      BY <1>1, <1>3, <1>4, <2>6 DEF Stored
    <3> HIDE DEF u, t, p
    <3>2. CASE i \in p .. p + lanes - 1
      <4>1. i < p + lanes
        BY <1>8, <1>9, <2>2, <3>2
      <4> QED BY <1>14, <3>1, <3>2, <4>1 DEF u
    <3>3. CASE i \notin p .. p + lanes - 1
      <4>1. y - t.out = i
        BY <1>8, <2>2, <3>1
      <4>2. cells'[y] = cells[y]
        BY <1>15, <2>3, <3>3, <4>1
      <4>3. i < p + lanes <=> i < p
        BY <1>8, <1>9, <2>2, <3>3
      <4> QED BY <2>4, <3>1, <4>2, <4>3 DEF u
    <3> QED BY <3>2, <3>3
  <2> QED BY <2>5, <2>6
<1> QED BY <1>16, <1>17, <1>18, <1>19, <1>20 DEF MemoryInv

LEMMA NextMemory == ThreadsInv /\ MemoryInv /\ [ThreadsNext]_threadsVars => MemoryInv'
<1> SUFFICES ASSUME ThreadsInv, MemoryInv, [ThreadsNext]_threadsVars PROVE MemoryInv'
  OBVIOUS
<1>1. ASSUME NEW c \in Ops, StartEmpty(c) PROVE MemoryInv'
  BY <1>1, StartEmptyMemory
<1>2. ASSUME NEW c \in Ops, StartSingle(c) PROVE MemoryInv'
  BY <1>2, StartSingleMemory
<1>3. ASSUME NEW c \in Ops, StartChunks(c) PROVE MemoryInv'
  BY <1>3, StartChunksMemory
<1>4. ASSUME NEW c \in Ops, Resolve(c) PROVE MemoryInv'
  BY <1>4, ResolveMemory
<1>5. ASSUME NEW w \in Slots, Reduces(w) PROVE MemoryInv'
  <2>1. /\ queue[w] # << >> /\ Done(w, Answer(First(w))) /\ UNCHANGED <<program, issued, status, nextSlot, cells>>
        /\ First(w).kernel \notin BinaryKernels
    BY <1>5 DEF Reduces, Busy, BinaryKernels
  <2> QED BY <2>1, DoneMemory
<1>6. ASSUME NEW w \in Slots, Stores(w) PROVE MemoryInv'
  BY <1>6, StoresMemory
<1>7. ASSUME NEW w \in Slots, StoresReturn(w) PROVE MemoryInv'
  BY <1>7, DoneMemory DEF StoresReturn, Busy
<1>8. ASSUME NEW w \in Slots, Counts(w) PROVE MemoryInv'
  BY <1>8, CountsMemory
<1>9. ASSUME NEW w \in Slots, CountsReturn(w) PROVE MemoryInv'
  <2>1. /\ queue[w] # << >> /\ UNCHANGED <<program, issued, status, nextSlot, cells>>
        /\ First(w).kernel \notin BinaryKernels
    BY <1>9 DEF CountsReturn, Busy, BinaryKernels
  <2>2. PICK answer : Done(w, answer)
    BY <1>9 DEF CountsReturn
  <2> QED BY <2>1, <2>2, DoneMemory
<1>10. ASSUME NEW w \in Slots, Hangs(w) PROVE MemoryInv'
  BY <1>10, HangsMemory
<1>11. CASE UNCHANGED threadsVars
  <2>1. UNCHANGED <<program, issued, status, partials, queue, pos, cells>>
    BY <1>11 DEF threadsVars, pool
  <2>2. /\ Serial' = Serial /\ Ops' = Ops /\ Slots' = Slots /\ \A x : Op(x)' = Op(x)
    BY <2>1, SameProgram
  <2> QED BY <2>1, <2>2 DEF MemoryInv, Places, AnswersPlaced, HalfDone, AnsweredDone, MemoryExact, Stored, Waiting
<1> QED BY <1>1, <1>2, <1>3, <1>4, <1>5, <1>6, <1>7, <1>8, <1>9, <1>10, <1>11 DEF ThreadsNext

LEMMA MemoryInductive == ThreadsSpec => [](ThreadsInv /\ MemoryInv)
<1>1. ThreadsInit => ThreadsInv /\ MemoryInv
  BY InitKeeps, InitMemory
<1>2. ThreadsInv /\ MemoryInv /\ [ThreadsNext]_threadsVars => (ThreadsInv /\ MemoryInv)'
  BY NextKeeps, NextMemory
<1> QED BY <1>1, <1>2, PTL DEF ThreadsSpec

\* Outside the outputs of what is under way or has failed, the shared memory is
\* what one thread would have left, whatever the number of workers, the chunks
\* (parallel.ts, splitChunks), the order in which they ran and those that were
\* lost: the elementwise operations of the handle compute what the kernel does.
THEOREM MemoryAsOfOneThread == ThreadsSpec => []MemoryExact
BY MemoryInductive, PTL DEF MemoryInv

\* What a queued reduction reads is what it would find if it ran alone.
ReadsSettled ==
  \A w \in Slots : \A j \in 1 .. Len(queue[w]) :
    queue[w][j].kernel \notin BinaryKernels =>
      \A x \in Reads(queue[w][j]) : cells[x] = Serial[queue[w][j].call - 1][x]

LEMMA InvSettles ==
  ASSUME ThreadsInv, MemoryInv
  PROVE  ReadsSettled
<1> SUFFICES ASSUME NEW w \in Slots, NEW j \in 1 .. Len(queue[w]),
                    queue[w][j].kernel \notin BinaryKernels, NEW x \in Reads(queue[w][j])
             PROVE  cells[x] = Serial[queue[w][j].call - 1][x]
  BY DEF ReadsSettled
<1> DEFINE t == queue[w][j]
<1>1. /\ ThreadsTypeOK /\ t \in Tasks /\ t.call \in 1 .. issued /\ t.call \in Ops /\ status[t.call] # "resolved"
      /\ PartOf(t)
  BY QueuedFacts DEF ThreadsInv
<1>2. Writes(Op(t.call)) = {} /\ x \in Reads(Op(t.call))
  <2>1. t.kernel = Op(t.call).kernel /\ t.kernel \notin BinaryKernels
    BY <1>1 DEF PartOf
  <2> QED BY <1>1, <2>1, PartRows DEF Writes
<1> HIDE DEF t
<1> QED BY <1>1, <1>2, OperandsExact DEF MemoryInv, t

\* The memory under a reduction does not move while its chunks wait and run
\* (sumF64 to nuniqueF64 of parallel.ts): it may take several steps, or one.
THEOREM ReductionsReadSettled == ThreadsSpec => []ReadsSettled
<1>1. ThreadsInv /\ MemoryInv => ReadsSettled
  BY InvSettles
<1> QED BY <1>1, MemoryInductive, PTL

-----------------------------------------------------------------------------
(* A kernel over some rows of a column.                                    *)

\* a is n of the len rows of the column W, from row s.
Shows(a, W, len, s, n) ==
  /\ len \in Nat /\ s \in Nat /\ n \in Nat /\ s + n <= len
  /\ \A i \in 0 .. n - 1 : a.data[i] = W.data[s + i] /\ (Bit(a.vp, i) <=> Bit(W.vp, s + i))
  /\ a.vp # NullPtr => FilledBy(a.vp, n)

\* The valid rows of W from s up to e.
Between(W, s, e) == {r \in s .. e - 1 : Bit(W.vp, r)}

LEMMA ShownRows ==
  ASSUME NEW a, NEW W, NEW len, NEW s, NEW n, Shows(a, W, len, s, n)
  PROVE  /\ Known(a, n) \subseteq 0 .. n - 1
         /\ Between(W, s, s + n) \subseteq Known(W, len) /\ Between(W, s, s + n) \subseteq s .. s + n - 1
         /\ \A i \in 0 .. n - 1 : i \in Known(a, n) <=> s + i \in Between(W, s, s + n)
         /\ \A i \in Known(a, n) : i \in 0 .. n - 1 /\ s + i \in Between(W, s, s + n) /\ a.data[i] = W.data[s + i]
         /\ \A r \in Between(W, s, s + n) : r - s \in Known(a, n) /\ a.data[r - s] = W.data[r]
<1>1. /\ len \in Nat /\ s \in Nat /\ n \in Nat /\ s + n <= len
      /\ \A i \in 0 .. n - 1 : a.data[i] = W.data[s + i] /\ (Bit(a.vp, i) <=> Bit(W.vp, s + i))
  BY DEF Shows
<1>2. \A i \in 0 .. n - 1 : s + i \in s .. s + n - 1
  BY <1>1
<1>3. Known(a, n) \subseteq 0 .. n - 1 /\ \A i \in 0 .. n - 1 : i \in Known(a, n) <=> s + i \in Between(W, s, s + n)
  BY <1>1, <1>2 DEF Known, Between
<1>4. Between(W, s, s + n) \subseteq Known(W, len) /\ Between(W, s, s + n) \subseteq s .. s + n - 1
  BY <1>1 DEF Known, Between
<1>5. \A i \in Known(a, n) : i \in 0 .. n - 1 /\ s + i \in Between(W, s, s + n) /\ a.data[i] = W.data[s + i]
  BY <1>1, <1>3
<1>6. ASSUME NEW r \in Between(W, s, s + n) PROVE r - s \in Known(a, n) /\ a.data[r - s] = W.data[r]
  <2>1. r \in s .. s + n - 1
    BY <1>4
  <2>2. r - s \in 0 .. n - 1 /\ s + (r - s) = r
    BY <1>1, <2>1
  <2> QED BY <1>1, <1>3, <2>2
<1> QED BY <1>3, <1>4, <1>5, <1>6

\* The terms of f are those of g from row s, and g has no others.
Moved(f, n, g, len, s) ==
  /\ len \in Nat /\ s \in Nat /\ n \in Nat /\ s + n <= len /\ Terms(f, n) /\ Terms(g, len)
  /\ \A i \in 0 .. n - 1 : Term(f, i) = Term(g, s + i)
  /\ \A r \in 0 .. len - 1 : r < s \/ r >= s + n => Term(g, r) = 0

LEMMA SumMoved ==
  ASSUME NEW f, NEW n, NEW g, NEW len, NEW s, Moved(f, n, g, len, s)
  PROVE  SumOver(f, n) = SumOver(g, len)
<1>0. /\ len \in Nat /\ s \in Nat /\ n \in Nat /\ s + n <= len /\ Terms(f, n) /\ Terms(g, len)
      /\ \A i \in 0 .. n - 1 : Term(f, i) = Term(g, s + i)
      /\ \A r \in 0 .. len - 1 : r < s \/ r >= s + n => Term(g, r) = 0
  BY DEF Moved
<1>1. PICK F : Sums(F, f, n) /\ SumOver(f, n) = F[n]
  BY <1>0, SumOverIs DEF Terms
<1>2. /\ F \in [0 .. n -> Int] /\ F[0] = 0
      /\ \A i \in 1 .. n : F[i] = F[i - 1] + Term(f, i - 1)
  BY <1>1 DEF Sums
<1> DEFINE at(i) == IF i <= s THEN 0 ELSE IF i <= s + n THEN i - s ELSE n
           H == [i \in 0 .. len |-> F[at(i)]]
<1>3. \A i \in 0 .. len : at(i) \in 0 .. n
  BY <1>0
<1>4. H \in [0 .. len -> Int] /\ H[0] = 0
  BY <1>0, <1>2, <1>3
<1>5. ASSUME NEW i \in 1 .. len PROVE H[i] = H[i - 1] + Term(g, i - 1)
  <2>1. H[i] = F[at(i)] /\ H[i - 1] = F[at(i - 1)] /\ i \in 0 .. len /\ i - 1 \in 0 .. len /\ i - 1 \in 0 .. len - 1
    BY <1>0
  <2> HIDE DEF H
  <2>2. CASE i - 1 < s \/ i - 1 >= s + n
    <3>1. at(i) = at(i - 1)
      BY <1>0, <2>2
    <3>2. Term(g, i - 1) = 0
      BY <1>0, <2>1, <2>2
    <3>3. F[at(i - 1)] \in Int
      BY <1>2, <1>3, <2>1
    <3> HIDE DEF at
    <3> QED BY <2>1, <3>1, <3>2, <3>3
  <2>3. CASE ~(i - 1 < s \/ i - 1 >= s + n)
    <3>1. at(i) = i - s /\ at(i - 1) = i - s - 1 /\ i - s \in 1 .. n /\ i - s - 1 \in 0 .. n - 1 /\ s + (i - s - 1) = i - 1
      BY <1>0, <2>3
    <3>2. F[i - s] = F[i - s - 1] + Term(f, i - s - 1)
      BY <1>2, <3>1
    <3>3. Term(f, i - s - 1) = Term(g, i - 1)
      BY <1>0, <3>1
    <3> HIDE DEF at
    <3> QED BY <2>1, <3>1, <3>2, <3>3
  <2> QED BY <2>2, <2>3
<1>6. Sums(H, g, len)
  <2> HIDE DEF H
  <2> QED BY <1>4, <1>5 DEF Sums
<1>7. H[len] = F[n]
  <2>1. at(len) = n
    BY <1>0
  <2> QED BY <1>0, <2>1
<1> HIDE DEF H
<1>8. SumOver(g, len) = H[len]
  BY <1>0, <1>6, SumIs
<1> QED BY <1>1, <1>7, <1>8

LEMMA TotalShown ==
  ASSUME NEW a, NEW W, NEW len, NEW s, NEW n, Shows(a, W, len, s, n),
         NEW b, Bounded(W.data, Known(W, len), len, b)
  PROVE  /\ Bounded(a.data, Known(a, n), n, b)
         /\ Total(Part(a.data, Known(a, n)), n) = Total(Part(W.data, Between(W, s, s + n)), len)
<1> DEFINE A == Known(a, n)
           B == Between(W, s, s + n)
           K == Known(W, len)
<1>0. len \in Nat /\ s \in Nat /\ n \in Nat /\ s + n <= len
  BY DEF Shows
<1>1. /\ A \subseteq 0 .. n - 1 /\ B \subseteq K /\ B \subseteq s .. s + n - 1
      /\ \A i \in 0 .. n - 1 : i \in A <=> s + i \in B
      /\ \A i \in A : i \in 0 .. n - 1 /\ s + i \in B /\ a.data[i] = W.data[s + i]
      /\ \A r \in B : r - s \in A /\ a.data[r - s] = W.data[r]
  BY ShownRows
<1> HIDE DEF A, B, K
<1>2. /\ b \in Nat /\ len * b < PosInf /\ \A i \in K : W.data[i] \in NegInf .. NaN
      /\ \A i \in K : Finite(W.data[i]) => -b <= W.data[i] /\ W.data[i] <= b
  BY DEF Bounded, K
<1>3. n * b < PosInf
  <2>1. b * n <= b * len /\ b * n \in Int /\ b * len \in Int
    BY <1>0, <1>2, Products
  <2>2. b * n = n * b /\ b * len = len * b
    BY <1>0, <1>2
  <2> QED BY <1>0, <1>2, <2>1, <2>2, PosInfAssumption
<1>4. Bounded(a.data, A, n, b)
  <2>1. \A i \in A : a.data[i] \in NegInf .. NaN /\ (Finite(a.data[i]) => -b <= a.data[i] /\ a.data[i] <= b)
    BY <1>1, <1>2
  <2> QED BY <1>1, <1>2, <1>3, <2>1 DEF Bounded
<1>5. \A v : Occurs(a.data, A, v) <=> Occurs(W.data, B, v)
  BY <1>1 DEF Occurs
<1>6. CASE AllFinite(a.data, A)
  <2>1. AllFinite(W.data, B)
    BY <1>1, <1>6 DEF AllFinite
  <2> DEFINE f == Part(a.data, A)
             g == Part(W.data, B)
  <2>2. /\ Terms(f, n) /\ Total(f, n) = SumOver(f, n)
    BY <1>0, <1>4, <1>6, FiniteSum, FiniteTotal
  <2>3. Terms(g, len) /\ Total(g, len) = SumOver(g, len)
    BY <1>0, <1>1, <2>1, FiniteSum, FiniteTotal DEF K
  <2>4. \A i \in 0 .. n - 1 : Term(f, i) = Term(g, s + i)
    BY <1>0, <1>1 DEF Term, Part
  <2>5. \A r \in 0 .. len - 1 : r < s \/ r >= s + n => Term(g, r) = 0
    BY <1>0, <1>1 DEF Term, Part
  <2> HIDE DEF f, g
  <2>6. Moved(f, n, g, len, s)
    BY <1>0, <2>2, <2>3, <2>4, <2>5 DEF Moved
  <2>7. SumOver(f, n) = SumOver(g, len)
    BY <2>6, SumMoved
  <2> QED BY <1>4, <2>2, <2>3, <2>7 DEF f, g, A, B
<1>7. CASE ~AllFinite(a.data, A)
  <2>1. Occurs(a.data, A, NaN) \/ Occurs(a.data, A, PosInf) \/ Occurs(a.data, A, NegInf)
    BY <1>0, <1>4, <1>7, FiniteRows
  <2>2. Total(Part(a.data, A), n) = Total(Part(W.data, B), len)
    <3> DEFINE x == SumOver(Part(a.data, A), n)
               y == SumOver(Part(W.data, B), len)
               Is(t, z, X, S) == t = IF Occurs(X, S, NaN) \/ (Occurs(X, S, PosInf) /\ Occurs(X, S, NegInf)) THEN NaN
                        ELSE IF Occurs(X, S, PosInf) THEN PosInf ELSE IF Occurs(X, S, NegInf) THEN NegInf ELSE z
    <3>1. Is(Total(Part(a.data, A), n), x, a.data, A) /\ Is(Total(Part(W.data, B), len), y, W.data, B)
      BY <1>0, TotalCases
    <3> QED BY <1>5, <2>1, <3>1
  <2> QED BY <1>4, <2>2 DEF A, B
<1> QED BY <1>6, <1>7

LEMMA CountShown ==
  ASSUME NEW a, NEW W, NEW len, NEW s, NEW n, Shows(a, W, len, s, n)
  PROVE  Cardinality(Known(a, n)) = Cardinality(Between(W, s, s + n))
<1> DEFINE A == Known(a, n)
           B == Between(W, s, s + n)
           f == [i \in A |-> 1]
           g == [i \in B |-> 1]
<1>0. len \in Nat /\ s \in Nat /\ n \in Nat /\ s + n <= len
  BY DEF Shows
<1>1. /\ A \subseteq 0 .. n - 1 /\ B \subseteq s .. s + n - 1 /\ \A i \in 0 .. n - 1 : i \in A <=> s + i \in B
  BY ShownRows
<1> HIDE DEF A, B
<1>2. B \subseteq 0 .. len - 1
  BY <1>0, <1>1
<1>3. /\ Terms(f, n) /\ SumOver(f, n) = Cardinality(A)
      /\ Terms(g, len) /\ SumOver(g, len) = Cardinality(B)
  BY <1>0, <1>1, <1>2, SumOfOnes
<1>4. /\ \A i \in 0 .. n - 1 : Term(f, i) = Term(g, s + i)
      /\ \A r \in 0 .. len - 1 : r < s \/ r >= s + n => Term(g, r) = 0
  <2>1. \A i : Term(f, i) = IF i \in A THEN 1 ELSE 0
    BY DEF Term
  <2>2. \A i : Term(g, i) = IF i \in B THEN 1 ELSE 0
    BY DEF Term
  <2> HIDE DEF f, g
  <2> QED BY <1>0, <1>1, <2>1, <2>2
<1> HIDE DEF f, g
<1>5. SumOver(f, n) = SumOver(g, len)
  <2>1. Moved(f, n, g, len, s)
    BY <1>0, <1>3, <1>4 DEF Moved
  <2> QED BY <2>1, SumMoved
<1> QED BY <1>3, <1>5 DEF A, B

LEMMA ExtremesShown ==
  ASSUME NEW a, NEW W, NEW len, NEW s, NEW n, Shows(a, W, len, s, n)
  PROVE  Extremes(Part(a.data, Known(a, n))) = Extremes(Part(W.data, Between(W, s, s + n)))
<1> DEFINE A == Known(a, n)
           B == Between(W, s, s + n)
<1>1. /\ \A i \in A : s + i \in B /\ a.data[i] = W.data[s + i]
      /\ \A r \in B : r - s \in A /\ a.data[r - s] = W.data[r]
  BY ONLY ShownRows, Shows(a, W, len, s, n)
<1> HIDE DEF A, B
<1>2. \A v : Occurs(a.data, A, v) <=> Occurs(W.data, B, v)
  BY <1>1 DEF Occurs
<1>3. ValuesIn(Part(a.data, A)) = ValuesIn(Part(W.data, B))
  <2>1. \A v : v \in ValuesIn(Part(a.data, A)) <=> v \in ValuesIn(Part(W.data, B))
    BY <1>2, ValuesOfPart
  <2> QED BY <2>1
<1> QED BY <1>3 DEF Extremes, A, B

\* What the kernel of a reduction returns for the rows T of W.
Reduced(name, W, len, T) ==
  CASE name = "sum_f64_null" -> Total(Part(W.data, T), len)
    [] name = "mean_f64_null" -> IF T = {} THEN NoRatio ELSE <<Total(Part(W.data, T), len), Cardinality(T)>>
    [] name = "min_f64_null" -> Extremes(Part(W.data, T))[1]
    [] name = "max_f64_null" -> Extremes(Part(W.data, T))[2]
    [] name = "count_null" -> Cardinality(T)

LEMMA KernelShown ==
  ASSUME NEW name \in Reductions \ {"nunique_f64_null"}, NEW a, NEW W, NEW len, NEW s, NEW n,
         Shows(a, W, len, s, n), NEW b, Bounded(W.data, Known(W, len), len, b)
  PROVE  /\ Kernel(name, a, n) = Reduced(name, W, len, Between(W, s, s + n))
         /\ sum_f64_null(a, n) = Total(Part(W.data, Between(W, s, s + n)), len)
         /\ count_null(a, n) = Cardinality(Between(W, s, s + n))
<1> DEFINE A == Known(a, n)
           B == Between(W, s, s + n)
<1>0. len \in Nat /\ s \in Nat /\ n \in Nat /\ s + n <= len
  BY DEF Shows
<1>1. Bounded(a.data, A, n, b) /\ Total(Part(a.data, A), n) = Total(Part(W.data, B), len)
  BY ONLY TotalShown, Shows(a, W, len, s, n), Bounded(W.data, Known(W, len), len, b)
<1>2. Cardinality(A) = Cardinality(B)
  BY ONLY CountShown, Shows(a, W, len, s, n)
<1>3. Extremes(Part(a.data, A)) = Extremes(Part(W.data, B))
  BY ExtremesShown
<1>4. A = {} <=> B = {}
  BY ShownRows
<1>5. a.vp # NullPtr => FilledBy(a.vp, n)
  BY DEF Shows
<1>6. 2 \in Nat \ {0} /\ \A i \in A : a.data[i] \in NegInf .. NaN
  BY <1>1 DEF Bounded
<1>7. sum_f64_null(a, n) = Total(Part(a.data, A), n)
  BY <1>0, <1>1, <1>6, StripedSum DEF sum_f64_null
<1>8. count_null(a, n) = Cardinality(A)
  BY <1>0, <1>5, CountExact
<1>9. mean_null(a, n, 2) = IF A = {} THEN NoRatio ELSE <<Total(Part(a.data, A), n), Cardinality(A)>>
  BY <1>0, <1>1, <1>5, <1>6, MeanComputes
<1>10. min_f64_null(a, n) = Extremes(Part(a.data, A))[1] /\ max_f64_null(a, n) = Extremes(Part(a.data, A))[2]
  <2>1. \A least \in BOOLEAN : FloatExtreme(a, n, 2, least) = Extremes(Part(a.data, A))[IF least THEN 1 ELSE 2]
    <3> SUFFICES ASSUME NEW least \in BOOLEAN
                 PROVE  FloatExtreme(a, n, 2, least) = Extremes(Part(a.data, A))[IF least THEN 1 ELSE 2]
      OBVIOUS
    <3> QED BY <1>0, <1>6, FloatExtremeComputes
  <2> HIDE DEF A
  <2> QED BY <2>1 DEF min_f64_null, max_f64_null
<1> HIDE DEF A, B
<1>11. Kernel(name, a, n) = Reduced(name, W, len, B)
  <2>1. CASE name = "sum_f64_null"
    BY <1>1, <1>7, <2>1 DEF Kernel, Reduced
  <2>2. CASE name = "mean_f64_null"
    BY <1>1, <1>2, <1>4, <1>9, <2>2 DEF Kernel, Reduced
  <2>3. CASE name = "min_f64_null"
    BY <1>3, <1>10, <2>3 DEF Kernel, Reduced
  <2>4. CASE name = "max_f64_null"
    BY <1>3, <1>10, <2>4 DEF Kernel, Reduced
  <2>5. CASE name = "count_null"
    BY <1>2, <1>8, <2>5 DEF Kernel, Reduced
  <2> QED BY <2>1, <2>2, <2>3, <2>4, <2>5 DEF Reductions
<1> QED BY <1>1, <1>2, <1>7, <1>8, <1>11 DEF B

-----------------------------------------------------------------------------
(* What the main thread makes of the answers of the chunks.                *)

\* The rows of T that are of class k.
Class(T, of, k) == {r \in T : of[r] = k}
Upto(T, of, k) == {r \in T : of[r] <= k}

\* Every row of T is in one of m classes.
Classified(T, of, m) == m \in Nat /\ of \in [T -> 1 .. m]

LEMMA ClassesGrow ==
  ASSUME NEW T, NEW of, NEW m, Classified(T, of, m)
  PROVE  /\ Upto(T, of, 0) = {} /\ Upto(T, of, m) = T
         /\ \A k \in 1 .. m :
              /\ Upto(T, of, k) = Upto(T, of, k - 1) \cup Class(T, of, k)
              /\ Upto(T, of, k - 1) \cap Class(T, of, k) = {}
         /\ \A k : Upto(T, of, k) \subseteq T /\ Class(T, of, k) \subseteq T
<1>1. m \in Nat /\ \A r \in T : of[r] \in 1 .. m
  BY DEF Classified
<1>2. Upto(T, of, 0) = {} /\ Upto(T, of, m) = T
  BY <1>1 DEF Upto
<1>3. ASSUME NEW k \in 1 .. m
      PROVE  /\ Upto(T, of, k) = Upto(T, of, k - 1) \cup Class(T, of, k)
             /\ Upto(T, of, k - 1) \cap Class(T, of, k) = {}
  BY <1>1 DEF Upto, Class
<1> QED BY <1>2, <1>3 DEF Upto, Class

\* The counts of the classes add up.
Counted(count, sizes, m) ==
  /\ count \in [0 .. m -> Int] /\ count[0] = 0
  /\ \A k \in 1 .. m : count[k] = count[k - 1] + sizes[k]

LEMMA ClassesCounted ==
  ASSUME NEW T, IsFiniteSet(T), NEW of, NEW m, Classified(T, of, m), NEW sizes, NEW count, Counted(count, sizes, m),
         \A k \in 1 .. m : sizes[k] = Cardinality(Class(T, of, k))
  PROVE  count[m] = Cardinality(T)
<1>1. m \in Nat /\ count[0] = 0 /\ \A k \in 1 .. m : count[k] = count[k - 1] + sizes[k]
  BY DEF Classified, Counted
<1> DEFINE G == {k \in 0 .. m : count[k] = Cardinality(Upto(T, of, k))}
<1>2. 0 \in G
  BY <1>1, ClassesGrow, FS_EmptySet
<1>3. ASSUME NEW k \in 1 .. m, k - 1 \in G PROVE k \in G
  <2> DEFINE A == Upto(T, of, k - 1)
             B == Class(T, of, k)
  <2>1. /\ Upto(T, of, k) = A \cup B /\ A \cap B = {} /\ A \subseteq T /\ B \subseteq T
        /\ count[k] = count[k - 1] + Cardinality(B) /\ count[k - 1] = Cardinality(A)
    BY <1>1, <1>3, ClassesGrow
  <2> HIDE DEF A, B
  <2>2. IsFiniteSet(A) /\ IsFiniteSet(B)
    BY <2>1, FS_Subset
  <2>3. Cardinality(A \cup B) = Cardinality(A) + Cardinality(B)
    <3>1. Cardinality(A \cup B) = Cardinality(A) + Cardinality(B) - Cardinality(A \cap B)
      BY <2>2, FS_Union
    <3>2. Cardinality(A \cap B) = 0 /\ Cardinality(A) \in Nat /\ Cardinality(B) \in Nat
      BY <2>1, <2>2, FS_EmptySet, FS_CardinalityType
    <3> QED BY <3>1, <3>2
  <2> QED BY <1>1, <2>1, <2>3
<1> HIDE DEF G
<1>4. \A k \in 0 .. m : k \in G
  BY <1>1, <1>2, <1>3, StepByStep
<1>5. count[m] = Cardinality(Upto(T, of, m))
  BY <1>1, <1>4 DEF G
<1> QED BY <1>5, ClassesGrow

\* The extreme of the values at T; NaN where there is no number.
IsExtreme(v, data, T, least) ==
  IF \A i \in T : data[i] = NaN THEN v = NaN
  ELSE /\ v \in NegInf .. PosInf /\ \E i \in T : data[i] = v
       /\ \A j \in T : data[j] # NaN => IF least THEN v <= data[j] ELSE data[j] <= v

ExtremeOf(data, T, least) == Extremes(Part(data, T))[IF least THEN 1 ELSE 2]

Numbers(data, T) == \A i \in T : data[i] \in NegInf .. NaN

LEMMA ExtremeFits ==
  ASSUME NEW data, NEW T, Numbers(data, T), NEW least \in BOOLEAN
  PROVE  IsExtreme(ExtremeOf(data, T, least), data, T, least)
<1> DEFINE side == IF least THEN 1 ELSE 2
           Best(i) == /\ data[i] # NaN
                      /\ \A j \in T : data[j] # NaN => IF least THEN data[i] <= data[j] ELSE data[j] <= data[i]
<1>1. \A i \in T : data[i] \in NegInf .. NaN /\ data[i] \in Int
  BY FloatBounds DEF Numbers
<1>2. /\ (\A i \in T : data[i] = NaN) => ExtremeOf(data, T, least) = NaN
      /\ \A i \in T : Best(i) => ExtremeOf(data, T, least) = data[i]
  BY <1>1, ExtremeIs DEF ExtremeOf
<1> DEFINE R == {x \in 0 .. 2 * PosInf : \E i \in T : data[i] # NaN /\ x = data[i] + PosInf}
<1>3. CASE \A i \in T : data[i] = NaN
  BY <1>2, <1>3 DEF IsExtreme
<1>4. CASE ~\A i \in T : data[i] = NaN
  <2>1. \A i \in T : data[i] # NaN => data[i] \in NegInf .. PosInf
    BY <1>1, FloatBounds
  <2>2. \A i \in T : data[i] # NaN => data[i] + PosInf \in R
    BY <2>1, FloatBounds
  <2>3. R \subseteq 0 .. 2 * PosInf /\ R \subseteq Nat /\ R # {} /\ 2 * PosInf \in Nat
    BY <1>4, <2>2, FloatBounds
  <2>4. PICK x \in R : \A y \in R : IF least THEN x <= y ELSE y <= x
    <3>1. \E z \in R : \A y \in R : z <= y
      BY <2>3, LeastElement
    <3>2. \E z \in R : \A y \in R : y <= z
      BY <2>3, GreatestElement
    <3> QED BY <3>1, <3>2
  <2>5. PICK i \in T : data[i] # NaN /\ x = data[i] + PosInf
    OBVIOUS
  <2>6. ASSUME NEW j \in T, data[j] # NaN PROVE IF least THEN data[i] <= data[j] ELSE data[j] <= data[i]
    <3>1. IF least THEN x <= data[j] + PosInf ELSE data[j] + PosInf <= x
      BY <2>2, <2>4, <2>6
    <3> QED BY <1>1, <2>5, <3>1, FloatBounds
  <2>7. ExtremeOf(data, T, least) = data[i]
    BY <1>2, <2>5, <2>6
  <2> QED BY <1>4, <2>1, <2>5, <2>6, <2>7 DEF IsExtreme
<1> QED BY <1>3, <1>4

LEMMA ExtremeOnly ==
  ASSUME NEW data, NEW T, Numbers(data, T), NEW least \in BOOLEAN, NEW v, IsExtreme(v, data, T, least)
  PROVE  v = ExtremeOf(data, T, least)
<1>1. \A i \in T : data[i] \in Int
  BY FloatBounds DEF Numbers
<1>2. /\ (\A i \in T : data[i] = NaN) => ExtremeOf(data, T, least) = NaN
      /\ \A i \in T :
           /\ data[i] # NaN
           /\ \A j \in T : data[j] # NaN => IF least THEN data[i] <= data[j] ELSE data[j] <= data[i]
           => ExtremeOf(data, T, least) = data[i]
  BY <1>1, ExtremeIs DEF ExtremeOf
<1>3. v \in NegInf .. PosInf => v # NaN
  BY FloatBounds
<1> QED BY <1>2, <1>3 DEF IsExtreme

\* What a best value so far gives way to.
Better(least, v, x) == v # NaN /\ (x = NaN \/ Improves(least, v, x))

\* The better of two extremes is that of the rows together.
LEMMA ExtremeOfBoth ==
  ASSUME NEW data, NEW A, NEW B, Numbers(data, A), Numbers(data, B), NEW least \in BOOLEAN,
         NEW x, IsExtreme(x, data, A, least), NEW y, IsExtreme(y, data, B, least),
         NEW z, z = IF Better(least, y, x) THEN y ELSE x
  PROVE  IsExtreme(z, data, A \cup B, least)
<1>1. /\ \A i \in A : data[i] \in Int /\ (data[i] = NaN \/ data[i] \in NegInf .. PosInf)
      /\ \A i \in B : data[i] \in Int /\ (data[i] = NaN \/ data[i] \in NegInf .. PosInf)
      /\ \A v \in NegInf .. PosInf : v # NaN /\ v \in Int
  BY FloatBounds DEF Numbers
<1>2. CASE \A i \in B : data[i] = NaN
  <2>1. y = NaN
    BY <1>2 DEF IsExtreme
  <2>2. z = x
    BY <2>1 DEF Better
  <2> QED BY <1>2, <2>2 DEF IsExtreme
<1>3. CASE (~\A i \in B : data[i] = NaN) /\ \A i \in A : data[i] = NaN
  <2>1. x = NaN /\ y # NaN
    BY <1>1, <1>3 DEF IsExtreme
  <2>2. z = y
    BY <2>1 DEF Better
  <2> QED BY <1>3, <2>2 DEF IsExtreme
<1>4. CASE (~\A i \in B : data[i] = NaN) /\ ~\A i \in A : data[i] = NaN
  <2>1. /\ x \in NegInf .. PosInf /\ \E i \in A : data[i] = x
        /\ \A j \in A : data[j] # NaN => IF least THEN x <= data[j] ELSE data[j] <= x
        /\ y \in NegInf .. PosInf /\ \E i \in B : data[i] = y
        /\ \A j \in B : data[j] # NaN => IF least THEN y <= data[j] ELSE data[j] <= y
    BY <1>4 DEF IsExtreme
  <2>2. Improves(least, y, x) <=> IF least THEN y < x ELSE x < y
    BY <2>1, ImprovesIs
  <2>3. x # NaN /\ y # NaN /\ x \in Int /\ y \in Int
    BY <1>1, <2>1
  <2>4. z = IF Improves(least, y, x) THEN y ELSE x
    BY <2>3 DEF Better
  <2>5. z \in NegInf .. PosInf /\ \E i \in A \cup B : data[i] = z
    BY <2>1, <2>4
  <2>6. ASSUME NEW j \in A \cup B, data[j] # NaN PROVE IF least THEN z <= data[j] ELSE data[j] <= z
    <3>1. data[j] \in Int
      BY <1>1
    <3>2. CASE j \in A
      BY <2>1, <2>2, <2>3, <2>6, <2>4, <3>1, <3>2
    <3>3. CASE j \in B
      BY <2>1, <2>2, <2>3, <2>6, <2>4, <3>1, <3>3
    <3> QED BY <3>2, <3>3
  <2> QED BY <1>4, <2>5, <2>6 DEF IsExtreme
<1> QED BY <1>2, <1>3, <1>4

\* best[k] is the best of the first k values that are numbers.
PicksBest(best, values, m, least) ==
  /\ best[0] = NaN
  /\ \A k \in 1 .. m : best[k] = IF Better(least, values[k], best[k - 1]) THEN values[k] ELSE best[k - 1]

LEMMA CombineExtremeIs ==
  ASSUME NEW m \in Nat, NEW ps \in [1 .. m -> Int], Len(ps) = m, NEW kind
  PROVE  \E best : PicksBest(best, ps, m, kind = "min") /\ CombineExtreme(kind, ps) = best[m]
<1> DEFINE least == kind = "min"
           Next1(x, v) == IF Better(least, v, x) THEN v ELSE x
           step == [x \in (1 .. m) \X Int |-> Next1(x[2], ps[x[1]])]
           IsLoop(f) == f = [k \in 0 .. m |->
                IF k = 0 THEN NaN
                ELSE IF ps[k] # NaN /\ (f[k - 1] = NaN \/ Improves(kind = "min", ps[k], f[k - 1]))
                     THEN ps[k] ELSE f[k - 1]]
           best == CHOOSE f : IsLoop(f)
<1>1. step \in [(1 .. m) \X Int -> Int] /\ \A k \in 1 .. m, x \in Int : step[<<k, x>>] = Next1(x, ps[k])
  OBVIOUS
<1> HIDE DEF step
<1>2. PICK f : Follows(f, m, Int, NaN, step)
  BY <1>1, LoopExists, FloatBounds
<1>3. /\ f = [k \in 0 .. m |-> IF k = 0 THEN NaN ELSE step[<<k, f[k - 1]>>]]
      /\ \A k \in 0 .. m : f[k] \in Int
  BY <1>2 DEF Follows
<1>4. \A k \in 0 .. m : (IF k = 0 THEN NaN ELSE step[<<k, f[k - 1]>>])
                          = IF k = 0 THEN NaN
                            ELSE IF ps[k] # NaN /\ (f[k - 1] = NaN \/ Improves(kind = "min", ps[k], f[k - 1]))
                                 THEN ps[k] ELSE f[k - 1]
  <2> SUFFICES ASSUME NEW k \in 0 .. m, k # 0 PROVE step[<<k, f[k - 1]>>] = Next1(f[k - 1], ps[k])
    BY DEF Better
  <2>1. k \in 1 .. m /\ k - 1 \in 0 .. m
    OBVIOUS
  <2> QED BY <1>1, <1>3, <2>1
<1>5. IsLoop(f)
  BY <1>3, <1>4
<1>6. IsLoop(best)
  <2>1. \E g : IsLoop(g)
    BY <1>5
  <2> HIDE DEF IsLoop
  <2> QED BY <2>1
<1>7. CombineExtreme(kind, ps) = best[m]
  BY DEF CombineExtreme
<1> HIDE DEF best
<1>8. PicksBest(best, ps, m, least)
  BY <1>6 DEF PicksBest, Better
<1> QED BY <1>7, <1>8

\* The best of the extremes of the classes is that of all rows.
LEMMA ExtremesCombine ==
  ASSUME NEW data, NEW T, Numbers(data, T), NEW of, NEW m, Classified(T, of, m), NEW least \in BOOLEAN,
         NEW values, NEW best, PicksBest(best, values, m, least),
         \A k \in 1 .. m : values[k] = ExtremeOf(data, Class(T, of, k), least)
  PROVE  best[m] = ExtremeOf(data, T, least)
<1>1. /\ m \in Nat /\ best[0] = NaN
      /\ \A k \in 1 .. m : best[k] = IF Better(least, values[k], best[k - 1]) THEN values[k] ELSE best[k - 1]
  BY DEF Classified, PicksBest
<1> DEFINE G == {k \in 0 .. m : IsExtreme(best[k], data, Upto(T, of, k), least)}
<1>2. 0 \in G
  BY <1>1, ClassesGrow DEF IsExtreme
<1>3. ASSUME NEW k \in 1 .. m, k - 1 \in G PROVE k \in G
  <2> DEFINE A == Upto(T, of, k - 1)
             B == Class(T, of, k)
  <2>1. Upto(T, of, k) = A \cup B /\ A \subseteq T /\ B \subseteq T /\ k \in 0 .. m
    BY <1>1, ClassesGrow
  <2>2. IsExtreme(best[k - 1], data, A, least) /\ values[k] = ExtremeOf(data, B, least)
    BY <1>3
  <2> HIDE DEF A, B
  <2>3. Numbers(data, A) /\ Numbers(data, B)
    BY <2>1 DEF Numbers
  <2>4. IsExtreme(values[k], data, B, least)
    BY <2>2, <2>3, ExtremeFits
  <2>5. best[k] = IF Better(least, values[k], best[k - 1]) THEN values[k] ELSE best[k - 1]
    BY <1>1
  <2>6. IsExtreme(best[k], data, A \cup B, least)
    BY ONLY <2>2, <2>3, <2>4, <2>5, ExtremeOfBoth, least \in BOOLEAN
  <2> QED BY <2>1, <2>6
<1> HIDE DEF G
<1>4. \A k \in 0 .. m : k \in G
  BY <1>1, <1>2, <1>3, StepByStep
<1>5. IsExtreme(best[m], data, T, least)
  BY <1>1, <1>4, ClassesGrow DEF G
<1> QED BY <1>5, ExtremeOnly

\* The counts of means.
LEMMA CombineMeanIs ==
  ASSUME NEW m \in Nat, NEW ps, Len(ps) = m, DOMAIN ps = 1 .. m, \A k \in 1 .. m : ps[k][2] \in Int
  PROVE  \E count :
           /\ Counted(count, [k \in 1 .. m |-> ps[k][2]], m)
           /\ CombineMean(ps) = IF count[m] = 0 THEN NoRatio ELSE <<AddUp([k \in 1 .. m |-> ps[k][1]], m), count[m]>>
<1> DEFINE step == [x \in (1 .. m) \X Int |-> x[2] + ps[x[1]][2]]
           IsLoop(f) == f = [k \in 0 .. m |-> IF k = 0 THEN 0 ELSE f[k - 1] + ps[k][2]]
           count == CHOOSE f : IsLoop(f)
<1>1. step \in [(1 .. m) \X Int -> Int] /\ \A k \in 1 .. m, x \in Int : step[<<k, x>>] = x + ps[k][2]
  OBVIOUS
<1> HIDE DEF step
<1>2. PICK f : Follows(f, m, Int, 0, step)
  <2>1. 0 \in Int /\ step \in [(1 .. m) \X Int -> Int]
    BY <1>1
  <2> QED BY ONLY <2>1, m \in Nat, LoopExists
<1>3. /\ f = [k \in 0 .. m |-> IF k = 0 THEN 0 ELSE step[<<k, f[k - 1]>>]]
      /\ \A k \in 0 .. m : f[k] \in Int
  BY <1>2 DEF Follows
<1>4. \A k \in 0 .. m : (IF k = 0 THEN 0 ELSE step[<<k, f[k - 1]>>]) = IF k = 0 THEN 0 ELSE f[k - 1] + ps[k][2]
  <2> SUFFICES ASSUME NEW k \in 0 .. m, k # 0 PROVE step[<<k, f[k - 1]>>] = f[k - 1] + ps[k][2]
    OBVIOUS
  <2>1. k \in 1 .. m /\ k - 1 \in 0 .. m
    OBVIOUS
  <2> QED BY <1>1, <1>3, <2>1
<1>5. IsLoop(f)
  BY <1>3, <1>4
<1>6. IsLoop(count)
  <2>1. \E g : IsLoop(g)
    BY <1>5
  <2> HIDE DEF IsLoop
  <2> QED BY <2>1
<1>7. CombineMean(ps) = IF count[m] = 0 THEN NoRatio ELSE <<AddUp([k \in 1 .. m |-> ps[k][1]], m), count[m]>>
  BY DEF CombineMean
<1> HIDE DEF count
<1>8. count[0] = 0 /\ DOMAIN count = 0 .. m /\ \A k \in 1 .. m : count[k] = count[k - 1] + ps[k][2]
  BY <1>6
<1>9. \A k \in 0 .. m : count[k] \in Int
  <2> DEFINE G == {k \in 0 .. m : count[k] \in Int}
  <2>1. 0 \in G /\ \A k \in 1 .. m : k - 1 \in G => k \in G
    BY <1>8
  <2> HIDE DEF G
  <2>2. \A k \in 0 .. m : k \in G
    BY <2>1, StepByStep
  <2> QED BY <2>2 DEF G
<1>10. Counted(count, [k \in 1 .. m |-> ps[k][2]], m)
  BY <1>6, <1>8, <1>9 DEF Counted
<1> QED BY <1>7, <1>10

\* The chunks of a column as classes of its valid rows.
LEMMA ChunkClasses ==
  ASSUME NEW W, NEW len \in Nat, NEW w \in Nat \ {0}
  PROVE  \E of :
           /\ Classified(Known(W, len), of, Len(splitChunks(len, w)))
           /\ \A k \in 1 .. Len(splitChunks(len, w)) :
                Between(W, splitChunks(len, w)[k][1], splitChunks(len, w)[k][2]) = Class(Known(W, len), of, k)
<1> DEFINE chunks == splitChunks(len, w)
           m == Len(chunks)
           K == Known(W, len)
           of == [r \in K |-> CHOOSE k \in 1 .. m : r \in ChunkRows(chunks[k])]
<1>1. m \in Nat /\ DOMAIN chunks = 1 .. m
  BY ChunkFacts
<1>2. /\ \A r \in 0 .. len - 1 : \E k \in 1 .. m : r \in ChunkRows(chunks[k])
      /\ \A j, k \in 1 .. m : j # k => ChunkRows(chunks[j]) \cap ChunkRows(chunks[k]) = {}
      /\ \A k \in 1 .. m : ChunkRows(chunks[k]) \subseteq 0 .. len - 1
  BY <1>1, ChunksPartition
<1>3. K \subseteq 0 .. len - 1 /\ \A r \in 0 .. len - 1 : r \in K <=> Bit(W.vp, r)
  BY DEF Known
<1>4. \A k \in 1 .. m : Between(W, chunks[k][1], chunks[k][2]) = {r \in ChunkRows(chunks[k]) : Bit(W.vp, r)}
  BY DEF Between, ChunkRows
<1> HIDE DEF chunks, m, K
<1>5. \A r \in K : of[r] \in 1 .. m /\ r \in ChunkRows(chunks[of[r]])
  BY <1>2, <1>3
<1>6. of \in [K -> 1 .. m]
  BY <1>5
<1> HIDE DEF of
<1>7. ASSUME NEW k \in 1 .. m PROVE Between(W, chunks[k][1], chunks[k][2]) = Class(K, of, k)
  <2>1. \A r : r \in Between(W, chunks[k][1], chunks[k][2]) <=> r \in ChunkRows(chunks[k]) /\ Bit(W.vp, r)
    BY <1>4
  <2>2. \A r \in ChunkRows(chunks[k]) : r \in 0 .. len - 1
    BY <1>2
  <2>3. ASSUME NEW r \in K PROVE r \in ChunkRows(chunks[k]) <=> of[r] = k
    BY <1>2, <1>5
  <2>4. \A r : r \in Between(W, chunks[k][1], chunks[k][2]) <=> r \in K /\ of[r] = k
    BY <1>3, <2>1, <2>2, <2>3
  <2> QED BY <2>4 DEF Class
<1>8. Classified(K, of, m)
  BY <1>1, <1>6 DEF Classified
<1> QED BY <1>7, <1>8 DEF chunks, m, K

\* What the worker of a chunk answers: for a mean of several, the sum and the count.
ChunkAnswer(kind, name, W, len, T, m) ==
  IF kind = "mean" /\ m > 1 THEN <<Total(Part(W.data, T), len), Cardinality(T)>> ELSE Reduced(name, W, len, T)

\* The answers of m classes of the valid rows of W.
AnswersOf(ps, kind, name, W, len, of, m) ==
  /\ Classified(Known(W, len), of, m) /\ m # 0
  /\ ps = [k \in 1 .. m |-> ps[k]]
  /\ \A k \in 1 .. m : ps[k] = ChunkAnswer(kind, name, W, len, Class(Known(W, len), of, k), m)

LEMMA KindKernels ==
  /\ KernelsOf("sum") = {"sum_f64_null"} /\ KernelsOf("mean") = {"mean_f64_null"}
  /\ KernelsOf("min") = {"min_f64_null"} /\ KernelsOf("max") = {"max_f64_null"}
  /\ KernelsOf("binary") = BinaryKernels /\ KernelsOf("reduce") = Reductions
BY DEF KernelsOf

\* The answers of the chunks make what the kernel returns for all rows at once.
LEMMA CombinedWhole ==
  ASSUME NEW W, NEW len \in Nat, NEW b, Bounded(W.data, Known(W, len), len, b),
         NEW kind \in {"sum", "mean", "min", "max"}, NEW name \in KernelsOf(kind),
         NEW of, NEW m, NEW ps, AnswersOf(ps, kind, name, W, len, of, m)
  PROVE  Combined(kind, ps) = Reduced(name, W, len, Known(W, len))
<1> DEFINE K == Known(W, len)
           C(k) == Class(K, of, k)
           Sum(T) == Total(Part(W.data, T), len)
<1>1. /\ Classified(K, of, m) /\ m \in Nat \ {0} /\ ps = [k \in 1 .. m |-> ps[k]]
      /\ \A k \in 1 .. m : ps[k] = ChunkAnswer(kind, name, W, len, C(k), m)
      /\ of \in [K -> 1 .. m]
  BY DEF AnswersOf, Classified
<1>2. Len(ps) = m /\ DOMAIN ps = 1 .. m
  BY <1>1
<1>3. K \subseteq 0 .. len - 1 /\ K \subseteq K /\ \A k \in 1 .. m : C(k) \subseteq K
  BY DEF Known, Class
<1>4. IsFiniteSet(K) /\ \A k \in 1 .. m : IsFiniteSet(C(k)) /\ Cardinality(C(k)) \in Nat
  <2>1. IsFiniteSet(0 .. len - 1)
    BY FS_Interval
  <2>2. \A S \in SUBSET (0 .. len - 1) : IsFiniteSet(S)
    BY <2>1, FS_Subset
  <2> HIDE DEF K, C
  <2> QED BY <1>3, <2>2, FS_CardinalityType
<1> HIDE DEF K
\* The sums of the classes make that of all rows.
<1>5. ASSUME NEW values, DOMAIN values = 1 .. m, values = [k \in 1 .. m |-> values[k]], \A k \in 1 .. m : values[k] = Sum(C(k))
      PROVE  AddUp(values, m) = Sum(K)
  <2>1. \A k \in 1 .. m : Sum(C(k)) \in Int
    BY <1>3, TotalTypes DEF K
  <2>2. values \in [1 .. m -> Int]
    BY <1>5, <2>1
  <2>3. TotalsBy(values, m, W.data, K, of, len)
    BY <1>1, <1>5, <2>2 DEF TotalsBy, Class
  <2> QED BY <1>1, <1>3, <2>3, AddUpTotals DEF K
<1>6. CASE m = 1
  <2>1. C(1) = K
    BY <1>1, <1>6 DEF Class
  <2>2. Combined(kind, ps) = ps[1]
    BY <1>2, <1>6 DEF Combined
  <2> QED BY <1>1, <1>6, <2>1, <2>2 DEF ChunkAnswer, K
<1>7. CASE m # 1 /\ kind = "sum"
  <2>1. m > 1 /\ name = "sum_f64_null"
    BY <1>1, <1>7, KindKernels
  <2>2. \A k \in 1 .. m : ps[k] = Sum(C(k))
    BY <1>1, <1>7, <2>1 DEF ChunkAnswer, Reduced
  <2>3. Combined(kind, ps) = AddUp(ps, m)
    BY <1>2, <1>7, <2>1 DEF Combined
  <2>4. AddUp(ps, m) = Sum(K)
    BY <1>1, <1>2, <1>5, <2>2
  <2> QED BY <2>1, <2>3, <2>4 DEF Reduced, K
<1>8. CASE m # 1 /\ kind = "mean"
  <2>1. m > 1 /\ name = "mean_f64_null"
    BY <1>1, <1>8, KindKernels
  <2>2. \A k \in 1 .. m : ps[k] = <<Sum(C(k)), Cardinality(C(k))>>
    BY <1>1, <1>8, <2>1 DEF ChunkAnswer
  <2>3. Combined(kind, ps) = CombineMean(ps)
    BY <1>2, <1>8, <2>1 DEF Combined
  <2> HIDE DEF C, Sum
  <2> DEFINE sizes == [k \in 1 .. m |-> ps[k][2]]
             sums == [k \in 1 .. m |-> ps[k][1]]
  <2>4. \A k \in 1 .. m : ps[k][1] = Sum(C(k)) /\ ps[k][2] = Cardinality(C(k)) /\ ps[k][2] \in Int
    BY <1>4, <2>2
  <2>5. PICK count : /\ Counted(count, sizes, m)
                     /\ CombineMean(ps) = IF count[m] = 0 THEN NoRatio ELSE <<AddUp(sums, m), count[m]>>
    BY <1>1, <1>2, <2>4, CombineMeanIs
  <2>6. \A k \in 1 .. m : sizes[k] = Cardinality(C(k)) /\ sums[k] = Sum(C(k))
    BY <2>4
  <2>7. DOMAIN sums = 1 .. m /\ sums = [k \in 1 .. m |-> sums[k]]
    OBVIOUS
  <2> HIDE DEF sizes, sums
  <2>8. count[m] = Cardinality(K)
    <3>1. \A k \in 1 .. m : sizes[k] = Cardinality(Class(K, of, k))
      BY <2>6 DEF C
    <3> QED BY <1>1, <1>4, <2>5, <3>1, ClassesCounted
  <2>9. AddUp(sums, m) = Sum(K)
    BY <1>5, <2>6, <2>7
  <2>10. Cardinality(K) = 0 <=> K = {}
    BY <1>4, FS_EmptySet
  <2> QED BY <2>1, <2>3, <2>5, <2>8, <2>9, <2>10 DEF Reduced, K, Sum
<1>9. CASE m # 1 /\ kind \in {"min", "max"}
  <2> DEFINE least == kind = "min"
  <2>1. m > 1 /\ name = IF least THEN "min_f64_null" ELSE "max_f64_null"
    BY <1>1, <1>9, KindKernels
  <2>2. \A T : Reduced(name, W, len, T) = ExtremeOf(W.data, T, least)
    BY <2>1 DEF Reduced, ExtremeOf
  <2>3. \A k \in 1 .. m : ps[k] = ExtremeOf(W.data, C(k), least)
    BY <1>1, <1>9, <2>2 DEF ChunkAnswer
  <2>4. Combined(kind, ps) = CombineExtreme(kind, ps)
    BY <1>2, <1>9, <2>1 DEF Combined
  <2>5. Numbers(W.data, K)
    BY DEF Numbers, Bounded, K
  <2> HIDE DEF C
  <2>6. ASSUME NEW k \in 1 .. m PROVE ps[k] \in Int
    <3>1. Numbers(W.data, C(k))
      BY <1>3, <2>5 DEF Numbers
    <3>2. IsExtreme(ps[k], W.data, C(k), least)
      BY <2>3, <3>1, ExtremeFits
    <3> QED BY <3>2, FloatBounds DEF IsExtreme
  <2>7. ps \in [1 .. m -> Int]
    BY <1>1, <1>2, <2>6
  <2>8. PICK best : PicksBest(best, ps, m, least) /\ CombineExtreme(kind, ps) = best[m]
    BY <1>1, <1>2, <2>7, CombineExtremeIs
  <2>9. best[m] = ExtremeOf(W.data, K, least)
    <3>1. \A k \in 1 .. m : ps[k] = ExtremeOf(W.data, Class(K, of, k), least)
      BY <2>3 DEF C
    <3>2. least \in BOOLEAN
      OBVIOUS
    <3> HIDE DEF least
    <3> QED BY ONLY <1>1, <2>5, <2>8, <3>1, <3>2, ExtremesCombine
  <2> QED BY <2>2, <2>4, <2>8, <2>9 DEF K
<1> QED BY <1>6, <1>7, <1>8, <1>9

-----------------------------------------------------------------------------
(* What a worker reads.                                                    *)

\* The eighth byte on, for a shift by whole bytes.
LEMMA ShiftedByte ==
  ASSUME NEW s \in Nat, s % 8 = 0, NEW i \in Nat
  PROVE  (s + i) \div 8 = s \div 8 + i \div 8 /\ (s + i) % 8 = i % 8 /\ s \div 8 \in Nat /\ i \div 8 \in Nat
OBVIOUS

LEMMA ByteInside ==
  ASSUME NEW s \in Nat, NEW n \in Nat, NEW len \in Nat, s % 8 = 0, s + n <= len, NEW k \in 0 .. BytesFor(n) - 1
  PROVE  s \div 8 + k \in 0 .. BytesFor(len) - 1 /\ k \in Nat
BY DEF BytesFor

\* t is rows of o, from row s.
PartFrom(t, o, s) ==
  /\ s \in Nat /\ s % 8 = 0 /\ t.len \in Nat /\ o.len \in Nat /\ s + t.len <= o.len
  /\ o.a \in Nat /\ t.a = o.a + s
  /\ o.vp \in Nat /\ t.vp = IF o.vp = 0 THEN 0 ELSE o.vp + s \div 8

LEMMA PartShows ==
  ASSUME NEW m, NEW serial, NEW bytes, NEW t, NEW o, NEW s, PartFrom(t, o, s),
         \A i \in 0 .. t.len - 1 : m[t.a + i] = serial[t.a + i],
         o.vp # 0 => \A k \in 0 .. BytesFor(o.len) - 1 : bytes[o.vp + k] \in ByteValues
  PROVE  Shows(ColumnAt(m, bytes, t), ColumnAt(serial, bytes, o), o.len, s, t.len)
<1> DEFINE a == ColumnAt(m, bytes, t)
           W == ColumnAt(serial, bytes, o)
           n == t.len
<1>1. /\ s \in Nat /\ s % 8 = 0 /\ n \in Nat /\ o.len \in Nat /\ s + n <= o.len
      /\ o.a \in Nat /\ t.a = o.a + s
      /\ o.vp \in Nat /\ t.vp = IF o.vp = 0 THEN 0 ELSE o.vp + s \div 8
  BY DEF PartFrom
<1>2. /\ a.data = [i \in 0 .. n - 1 |-> m[t.a + i]]
      /\ a.vp = IF t.vp = 0 THEN NullPtr ELSE [k \in 0 .. BytesFor(n) - 1 |-> bytes[t.vp + k]]
  BY DEF ColumnAt, Column
<1>3. /\ W.data = [i \in 0 .. o.len - 1 |-> serial[o.a + i]]
      /\ W.vp = IF o.vp = 0 THEN NullPtr ELSE [k \in 0 .. BytesFor(o.len) - 1 |-> bytes[o.vp + k]]
  BY DEF ColumnAt, Column
<1> HIDE DEF a, W, n
<1>4. s \div 8 \in Nat /\ (t.vp = 0 <=> o.vp = 0)
  BY <1>1
<1>5. ASSUME NEW i \in 0 .. n - 1 PROVE a.data[i] = W.data[s + i]
  <2>1. s + i \in 0 .. o.len - 1 /\ o.a + (s + i) = t.a + i
    BY <1>1
  <2>2. a.data[i] = m[t.a + i] /\ W.data[s + i] = serial[t.a + i]
    BY <1>2, <1>3, <2>1
  <2> QED BY <2>2 DEF n
<1>6. ASSUME NEW i \in 0 .. n - 1 PROVE Bit(a.vp, i) <=> Bit(W.vp, s + i)
  <2>1. CASE o.vp = 0
    BY <1>2, <1>3, <1>4, <2>1 DEF Bit
  <2>2. CASE o.vp # 0
    <3>1. /\ (s + i) \div 8 = s \div 8 + i \div 8 /\ (s + i) % 8 = i % 8 /\ i \div 8 \in Nat
          /\ i \div 8 \in 0 .. BytesFor(n) - 1 /\ s + i \in 0 .. o.len - 1
      BY <1>1, ShiftedByte, BytesOfRows
    <3>2. (s + i) \div 8 \in 0 .. BytesFor(o.len) - 1
      BY <1>1, <3>1, BytesOfRows
    <3>3. o.vp + (s + i) \div 8 = t.vp + i \div 8
      BY <1>1, <1>4, <2>2, <3>1
    <3>4. a.vp[i \div 8] = bytes[t.vp + i \div 8] /\ W.vp[(s + i) \div 8] = bytes[t.vp + i \div 8]
      BY <1>2, <1>3, <1>4, <2>2, <3>1, <3>2, <3>3
    <3>5. i \div 8 \in DOMAIN a.vp /\ (s + i) \div 8 \in DOMAIN W.vp
      BY <1>2, <1>3, <1>4, <2>2, <3>1, <3>2
    <3>6. a.vp # NullPtr /\ W.vp # NullPtr
      BY <3>5 DEF NullPtr
    <3> QED BY <3>1, <3>4, <3>6 DEF Bit
  <2> QED BY <2>1, <2>2
<1>7. ASSUME a.vp # NullPtr PROVE FilledBy(a.vp, n)
  <2>1. o.vp # 0 /\ a.vp = [k \in 0 .. BytesFor(n) - 1 |-> bytes[t.vp + k]]
    BY <1>2, <1>4, <1>7
  <2>2. ASSUME NEW k \in 0 .. BytesFor(n) - 1 PROVE a.vp[k] \in ByteValues
    <3>1. s \div 8 + k \in 0 .. BytesFor(o.len) - 1 /\ k \in Nat
      BY <1>1, ByteInside
    <3>2. o.vp + (s \div 8 + k) = t.vp + k
      BY <1>1, <1>4, <2>1, <3>1
    <3>3. bytes[o.vp + (s \div 8 + k)] \in ByteValues
      BY <2>1, <3>1
    <3> QED BY <2>1, <3>2, <3>3
  <2> QED BY <2>2 DEF FilledBy
<1> QED BY <1>1, <1>5, <1>6, <1>7 DEF Shows, a, W, n

\* What SerialValue reads of an operation are rows of its column.
RowsAt(W, s, e) ==
  Column([i \in 0 .. e - s - 1 |-> W.data[s + i]], Packed(e - s, {i \in 0 .. e - s - 1 : Bit(W.vp, s + i)}))

LEMMA RowsShow ==
  ASSUME NEW W, NEW len \in Nat, NEW s \in Nat, NEW e \in Nat, s <= e, e <= len
  PROVE  Shows(RowsAt(W, s, e), W, len, s, e - s)
<1> DEFINE n == e - s
           set == {i \in 0 .. e - s - 1 : Bit(W.vp, s + i)}
           a == Column([i \in 0 .. e - s - 1 |-> W.data[s + i]], Packed(e - s, set))
<1>1. n \in Nat /\ s + n <= len
  OBVIOUS
<1>2. a.data = [i \in 0 .. n - 1 |-> W.data[s + i]] /\ a.vp = Packed(n, set)
  BY DEF Column
<1>3. \A i \in 0 .. n - 1 : i \in set <=> Bit(W.vp, s + i)
  OBVIOUS
<1>4. ASSUME NEW i \in 0 .. n - 1 PROVE Bit(a.vp, i) <=> Bit(W.vp, s + i)
  <2> HIDE DEF n, set, a
  <2>1. Bit(Packed(n, set), i) <=> i \in set
    BY <1>1, PackedBits
  <2> QED BY <1>2, <1>3, <2>1
<1> HIDE DEF set
<1>5. FilledBy(a.vp, n)
  <2> HIDE DEF a, n
  <2> QED BY <1>2 DEF FilledBy, Packed, ByteValues
<1> HIDE DEF a
<1>6. \A i \in 0 .. n - 1 : a.data[i] = W.data[s + i]
  BY <1>2
<1>7. Shows(a, W, len, s, n)
  <2> HIDE DEF n
  <2> QED BY <1>1, <1>4, <1>5, <1>6 DEF Shows
<1> QED BY <1>7 DEF a, set, RowsAt

-----------------------------------------------------------------------------
(* What a chunk and an operation have to answer.                           *)

\* No operation counts distinct values.
NoDistinctCounts == \A p \in Programs : \A c \in DOMAIN p.ops : p.ops[c].kernel # "nunique_f64_null"

\* The column of the operation c, its chunks, the valid rows of one of them and
\* its answer.
Whole(c) == SerialColumn(program, c)
ChunksOf(c) == splitChunks(Op(c).len, program.size)
RowsOfChunk(c, k) == Between(Whole(c), ChunksOf(c)[k][1], ChunksOf(c)[k][2])
Due(c, k) ==
  IF Op(c).kind = "binary" THEN 0
  ELSE ChunkAnswer(Op(c).kind, Op(c).kernel, Whole(c), Op(c).len, RowsOfChunk(c, k), Len(ChunksOf(c)))

\* A list of an answer or none for each of m chunks.
Listed(ps, m) == ps = [k \in 1 .. m |-> ps[k]]

\* Every answer of a waiting operation is the one due, and an operation that has
\* resolved has the value of one thread.
AnswersDue ==
  \A c \in Ops : Waiting(c) =>
    /\ Len(ChunksOf(c)) # 0
    /\ Listed(partials[c], Len(ChunksOf(c)))
    /\ \A k \in 1 .. Len(ChunksOf(c)) : partials[c][k] = Unanswered \/ partials[c][k] = <<Due(c, k)>>
ValuesDue ==
  DOMAIN value = Ops /\ \A c \in Ops : status[c] = "resolved" => value[c] = SerialValue(c)
AnswerInv == AnswersDue /\ ValuesDue

LEMMA OpKind ==
  ASSUME program \in Programs, NEW c \in Ops
  PROVE  /\ Op(c).kind \in {"sum", "mean", "min", "max", "reduce", "binary"}
         /\ Op(c).kernel \in KernelsOf(Op(c).kind)
         /\ Op(c).vp # 0 => \A k \in 0 .. BytesFor(Op(c).len) - 1 : program.bytes[Op(c).vp + k] \in ByteValues
<1>1. c \in DOMAIN program.ops
  BY ProgramFacts
<1>2. program.ops \in Seq([kind : {"sum", "mean", "min", "max", "reduce", "binary"}, kernel : STRING,
                           a : Nat, b : Nat, out : Nat, vp : Nat, len : Nat, after : Nat])
  BY ProgramsAssumption
<1>3. program.ops[c] \in [kind : {"sum", "mean", "min", "max", "reduce", "binary"}, kernel : STRING,
                          a : Nat, b : Nat, out : Nat, vp : Nat, len : Nat, after : Nat]
  BY <1>1, <1>2, ElementOf
<1>4. /\ program.ops[c].kernel \in KernelsOf(program.ops[c].kind)
      /\ program.ops[c].vp # 0 =>
           \A k \in 0 .. BytesFor(program.ops[c].len) - 1 : program.bytes[program.ops[c].vp + k] \in ByteValues
  BY <1>1, ProgramsAssumption
<1> QED BY <1>3, <1>4 DEF Op

\* A kernel stores or reduces, as its operation's kind has it.
LEMMA KindOf ==
  ASSUME program \in Programs, NEW c \in Ops
  PROVE  /\ Op(c).kind = "binary" <=> Op(c).kernel \in BinaryKernels
         /\ Op(c).kind # "binary" => Op(c).kernel \in Reductions
         /\ NoDistinctCounts => Op(c).kernel # "nunique_f64_null"
<1>1. Op(c).kind \in {"sum", "mean", "min", "max", "reduce", "binary"} /\ Op(c).kernel \in KernelsOf(Op(c).kind)
  BY OpKind
<1>2. c \in DOMAIN program.ops
  BY ProgramFacts
<1>3. NoDistinctCounts => Op(c).kernel # "nunique_f64_null"
  BY <1>2 DEF NoDistinctCounts, Op
<1> QED BY <1>1, <1>3, KindKernels DEF BinaryKernels, Reductions

\* The largest magnitude of which len have a sum below Infinity.
LEMMA BoundBelow ==
  ASSUME NEW len \in Nat \ {0}
  PROVE  \E b \in Nat : len * b < PosInf /\ \A x \in Nat : len * x < PosInf => x <= b
<1> DEFINE b == (PosInf - 1) \div len
<1>1. PosInf - 1 \in Nat /\ PosInf \in Nat
  BY FloatBounds
<1>2. b \in Nat /\ len * b <= PosInf - 1 /\ PosInf - 1 < len * b + len
  BY <1>1, QuotientFacts
<1> HIDE DEF b
<1>3. len * b \in Nat /\ len * (b + 1) = len * b + len
  BY <1>2
<1>4. ASSUME NEW x \in Nat, len * x < PosInf, ~(x <= b) PROVE FALSE
  <2>1. len * (b + 1) <= len * x /\ len * x \in Int
    BY <1>2, <1>4, Products
  <2> QED BY <1>1, <1>2, <1>3, <1>4, <2>1
<1>5. len * b < PosInf
  BY <1>1, <1>2, <1>3
<1> QED BY <1>2, <1>4, <1>5

LEMMA WholeBounded ==
  ASSUME program \in Programs, NEW c \in Ops, Op(c).kind # "binary"
  PROVE  \E b : Bounded(Whole(c).data, Known(Whole(c), Op(c).len), Op(c).len, b)
<1> DEFINE W == Whole(c)
           len == Op(c).len
<1>1. len \in Nat /\ c \in DOMAIN program.ops
  BY ProgramFacts
<1>2. \A i \in Known(W, len) : W.data[i] \in NegInf .. NaN /\ (Finite(W.data[i]) => len * Magnitude(W.data[i]) < PosInf)
  BY <1>1, SumsAssumption DEF Whole, Op, Known, Valid
<1>3. Known(W, len) \subseteq 0 .. len - 1
  BY DEF Known
<1> HIDE DEF W, len
<1>4. CASE len = 0
  <2>1. Known(W, len) = {}
    BY <1>1, <1>3, <1>4
  <2>2. Bounded(W.data, Known(W, len), len, 0)
    BY <1>1, <1>4, <2>1, FloatBounds DEF Bounded
  <2> QED BY <2>2 DEF W, len
<1>5. CASE len # 0
  <2>1. PICK b \in Nat : len * b < PosInf /\ \A x \in Nat : len * x < PosInf => x <= b
    BY <1>1, <1>5, BoundBelow
  <2>2. ASSUME NEW i \in Known(W, len), Finite(W.data[i]) PROVE -b <= W.data[i] /\ W.data[i] <= b
    <3>1. W.data[i] \in Int /\ len * Magnitude(W.data[i]) < PosInf
      BY <1>2, <2>2, FloatBounds
    <3>2. Magnitude(W.data[i]) \in Nat
      BY <3>1 DEF Magnitude
    <3>3. Magnitude(W.data[i]) <= b
      BY <2>1, <3>1, <3>2
    <3> QED BY <3>1, <3>3 DEF Magnitude
  <2>3. Bounded(W.data, Known(W, len), len, b)
    BY <1>2, <1>3, <2>1, <2>2 DEF Bounded
  <2> QED BY <2>3 DEF W, len
<1> QED BY <1>4, <1>5

\* A reduction kernel over the rows of a chunk, in the memory of the serial run.
LEMMA RowsReduced ==
  ASSUME program \in Programs, NoDistinctCounts, NEW c \in Ops, Op(c).kind # "binary",
         NEW s \in Nat, NEW e \in Nat, s <= e, e <= Op(c).len
  PROVE  Kernel(Op(c).kernel, ColumnRows(Serial[c - 1], Op(c), s, e), e - s)
           = Reduced(Op(c).kernel, Whole(c), Op(c).len, Between(Whole(c), s, e))
<1> DEFINE W == Whole(c)
           len == Op(c).len
           name == Op(c).kernel
           a == ColumnRows(Serial[c - 1], Op(c), s, e)
           n == e - s
<1>1. len \in Nat /\ e <= len
  BY ProgramFacts
<1>2. Read(Serial[c - 1], Op(c)) = W
  BY DEF Read, Whole, SerialColumn, Serial, Op
<1>3. a = RowsAt(W, s, e)
  BY <1>2 DEF ColumnRows, RowsAt
<1>4. PICK b : Bounded(W.data, Known(W, len), len, b)
  BY WholeBounded
<1>5. name \in Reductions \ {"nunique_f64_null"}
  BY KindOf
<1> HIDE DEF W, len, name, a
<1>6. Shows(a, W, len, s, n)
  BY <1>1, <1>3, RowsShow
<1>7. s + n = e
  OBVIOUS
<1> HIDE DEF n
<1>8. Kernel(name, a, n) = Reduced(name, W, len, Between(W, s, s + n))
  BY ONLY <1>4, <1>5, <1>6, KernelShown
<1> QED BY <1>7, <1>8 DEF W, len, name, a, n

LEMMA SerialValueIs ==
  ASSUME program \in Programs, NoDistinctCounts, NEW c \in Ops
  PROVE  /\ Op(c).kind = "binary" => SerialValue(c) = << >>
         /\ Op(c).kind = "reduce" =>
              SerialValue(c) = [k \in DOMAIN ChunksOf(c) |-> Reduced(Op(c).kernel, Whole(c), Op(c).len, RowsOfChunk(c, k))]
         /\ Op(c).kind \notin {"reduce", "binary"} =>
              SerialValue(c) = Reduced(Op(c).kernel, Whole(c), Op(c).len, Known(Whole(c), Op(c).len))
<1> DEFINE On(s, e) == Kernel(Op(c).kernel, ColumnRows(Serial[c - 1], Op(c), s, e), e - s)
           Is(s, e) == Reduced(Op(c).kernel, Whole(c), Op(c).len, Between(Whole(c), s, e))
<1>1. program.size \in Nat \ {0} /\ Op(c).len \in Nat
  BY ProgramFacts
<1>2. SerialValue(c) = CASE Op(c).kind = "binary" -> << >>
                         [] Op(c).kind = "reduce" -> [k \in DOMAIN ChunksOf(c) |-> On(ChunksOf(c)[k][1], ChunksOf(c)[k][2])]
                         [] OTHER -> On(0, Op(c).len)
  BY DEF SerialValue, ChunksOf
<1>3. \A k \in DOMAIN ChunksOf(c) :
        /\ ChunksOf(c)[k][1] \in Nat /\ ChunksOf(c)[k][2] \in Nat
        /\ ChunksOf(c)[k][1] <= ChunksOf(c)[k][2] /\ ChunksOf(c)[k][2] <= Op(c).len
  BY <1>1, ChunkFacts DEF ChunksOf
<1>4. Op(c).kind # "binary" => \A s, e \in Nat : s <= e /\ e <= Op(c).len => On(s, e) = Is(s, e)
  BY RowsReduced
<1>5. Between(Whole(c), 0, Op(c).len) = Known(Whole(c), Op(c).len)
  BY DEF Between, Known
<1> HIDE DEF On
<1>6. CASE Op(c).kind = "binary"
  BY <1>2, <1>6
<1>7. CASE Op(c).kind = "reduce"
  <2>1. SerialValue(c) = [k \in DOMAIN ChunksOf(c) |-> On(ChunksOf(c)[k][1], ChunksOf(c)[k][2])]
    BY <1>2, <1>7
  <2>2. \A k \in DOMAIN ChunksOf(c) : On(ChunksOf(c)[k][1], ChunksOf(c)[k][2]) = Reduced(Op(c).kernel, Whole(c), Op(c).len, RowsOfChunk(c, k))
    BY <1>3, <1>4, <1>7 DEF RowsOfChunk
  <2> QED BY <1>7, <2>1, <2>2
<1>8. CASE Op(c).kind \notin {"reduce", "binary"}
  <2>1. SerialValue(c) = On(0, Op(c).len)
    BY <1>2, <1>8
  <2>2. On(0, Op(c).len) = Is(0, Op(c).len)
    BY <1>1, <1>4, <1>8
  <2> QED BY <1>5, <1>8, <2>1, <2>2
<1> QED BY <1>6, <1>7, <1>8

\* SerialValue, of the program p.
ValueOf(p, c) ==
  LET o == p.ops[c]
      On(s, e) == Kernel(o.kernel, RowsAt(SerialColumn(p, c), s, e), e - s)
      chunks == splitChunks(o.len, p.size) IN
  CASE o.kind = "binary" -> << >>
    [] o.kind = "reduce" -> [k \in DOMAIN chunks |-> On(chunks[k][1], chunks[k][2])]
    [] OTHER -> On(0, o.len)

LEMMA SameDue ==
  ASSUME program' = program
  PROVE  \A c : /\ ChunksOf(c)' = ChunksOf(c) /\ SerialValue(c)' = SerialValue(c)
                /\ \A k : Due(c, k)' = Due(c, k)
<1>1. Serial' = Serial /\ \A x : Op(x)' = Op(x)
  BY SameProgram
<1>2. \A c : ChunksOf(c)' = ChunksOf(c) /\ Whole(c)' = Whole(c)
  BY <1>1 DEF ChunksOf, Whole
<1>3. \A c, k : RowsOfChunk(c, k)' = RowsOfChunk(c, k)
  BY <1>2 DEF RowsOfChunk
<1>4. \A c, k : Due(c, k)' = Due(c, k)
  BY <1>1, <1>2, <1>3 DEF Due
<1>5. \A c : SerialValue(c)' = SerialValue(c)
  <2>1. \A c : SerialValue(c) = ValueOf(program, c)
    BY DEF SerialValue, ValueOf, Op, ColumnRows, RowsAt, Read, SerialColumn, Serial
  <2>2. \A c : SerialValue(c)' = ValueOf(program', c)
    BY DEF SerialValue, ValueOf, Op, ColumnRows, RowsAt, Read, SerialColumn, Serial
  <2> QED BY <2>1, <2>2
<1> QED BY <1>2, <1>4, <1>5

\* Without rows there is one value to return, whatever the kernel.
LEMMA EmptyIs ==
  ASSUME program \in Programs, NoDistinctCounts, NEW c \in Ops, ChunksOf(c) = << >>
  PROVE  EmptyValue(Op(c).kind) = SerialValue(c)
<1> DEFINE W == Whole(c)
           len == Op(c).len
           name == Op(c).kernel
<1>1. program.size \in Nat \ {0} /\ len \in Nat
  BY ProgramFacts
<1>2. len = 0
  <2>1. \A row \in 0 .. len - 1 : \E k \in DOMAIN ChunksOf(c) : row \in ChunkRows(ChunksOf(c)[k])
    BY <1>1, ChunksPartition DEF ChunksOf
  <2>2. DOMAIN ChunksOf(c) = {}
    OBVIOUS
  <2>3. 0 \notin 0 .. len - 1
    BY <2>1, <2>2
  <2> QED BY <1>1, <2>3
<1>3. Known(W, len) = {}
  BY <1>2 DEF Known
<1>4. /\ Op(c).kind \in {"sum", "mean", "min", "max", "reduce", "binary"} /\ name \in KernelsOf(Op(c).kind)
  BY OpKind
<1>5. /\ Op(c).kind = "binary" => SerialValue(c) = << >>
      /\ Op(c).kind = "reduce" => SerialValue(c) = [k \in DOMAIN ChunksOf(c) |-> Reduced(name, W, len, RowsOfChunk(c, k))]
      /\ Op(c).kind \notin {"reduce", "binary"} => SerialValue(c) = Reduced(name, W, len, Known(W, len))
  BY SerialValueIs
<1>6. Op(c).kind = "reduce" => SerialValue(c) = << >>
  BY <1>5
<1> HIDE DEF W, name, len
<1>7. ValuesIn(Part(W.data, {})) = {}
  BY DEF ValuesIn, Part
<1>8. Extremes(Part(W.data, {})) = <<NaN, NaN>>
  BY <1>7 DEF Extremes
<1>9. Total(Part(W.data, {}), 0) = 0
  <2>1. PICK F : Sums(F, Part(W.data, {}), 0) /\ SumOver(Part(W.data, {}), 0) = F[0]
    BY SumOverIs
  <2> QED BY <1>7, <2>1 DEF Total, Sums
<1>10. CASE Op(c).kind = "sum"
  BY <1>2, <1>3, <1>4, <1>5, <1>9, <1>10, KindKernels DEF Reduced, EmptyValue
<1>11. CASE Op(c).kind = "mean"
  BY <1>3, <1>4, <1>5, <1>11, KindKernels DEF Reduced, EmptyValue
<1>12. CASE Op(c).kind = "min"
  BY <1>3, <1>4, <1>5, <1>8, <1>12, KindKernels DEF Reduced, EmptyValue
<1>13. CASE Op(c).kind = "max"
  BY <1>3, <1>4, <1>5, <1>8, <1>13, KindKernels DEF Reduced, EmptyValue
<1>14. CASE Op(c).kind \in {"reduce", "binary"}
  BY <1>5, <1>6, <1>14 DEF EmptyValue
<1> QED BY <1>4, <1>10, <1>11, <1>12, <1>13, <1>14

\* What is combined is what was due.
DueList(c, ps, m) ==
  m = Len(ChunksOf(c)) /\ m # 0 /\ Listed(ps, m) /\ \A k \in 1 .. m : ps[k] = Due(c, k)

LEMMA CombinedIs ==
  ASSUME program \in Programs, NoDistinctCounts, NEW c \in Ops, NEW ps, NEW m, DueList(c, ps, m)
  PROVE  Combined(Op(c).kind, ps) = SerialValue(c)
<1> DEFINE W == Whole(c)
           len == Op(c).len
           name == Op(c).kernel
           kind == Op(c).kind
<1>1. program.size \in Nat \ {0} /\ len \in Nat
  BY ProgramFacts
<1>2. /\ m = Len(ChunksOf(c)) /\ m # 0 /\ ps = [k \in 1 .. m |-> ps[k]] /\ \A k \in 1 .. m : ps[k] = Due(c, k)
  BY DEF DueList, Listed
<1>3. m \in Nat /\ DOMAIN ChunksOf(c) = 1 .. m
  BY <1>1, <1>2, ChunkFacts DEF ChunksOf
<1>4. kind \in {"sum", "mean", "min", "max", "reduce", "binary"} /\ name \in KernelsOf(kind)
  BY OpKind
<1>5. /\ kind = "binary" => SerialValue(c) = << >>
      /\ kind = "reduce" => SerialValue(c) = [k \in DOMAIN ChunksOf(c) |-> Reduced(name, W, len, RowsOfChunk(c, k))]
      /\ kind \notin {"reduce", "binary"} => SerialValue(c) = Reduced(name, W, len, Known(W, len))
  BY SerialValueIs
<1>6. kind # "binary" => \A k \in 1 .. m : ps[k] = ChunkAnswer(kind, name, W, len, RowsOfChunk(c, k), m)
  BY <1>2 DEF Due
<1>7. CASE kind = "binary"
  BY <1>5, <1>7 DEF Combined
<1>8. CASE kind = "reduce"
  <2>1. \A k \in 1 .. m : ps[k] = Reduced(name, W, len, RowsOfChunk(c, k))
    BY <1>6, <1>8 DEF ChunkAnswer
  <2>2. Combined(kind, ps) = ps
    BY <1>8 DEF Combined
  <2> HIDE DEF W, len, name, kind
  <2>3. SerialValue(c) = [k \in 1 .. m |-> ps[k]]
    BY <1>3, <1>5, <1>8, <2>1
  <2> QED BY <1>2, <2>2, <2>3 DEF kind
<1>9. CASE kind \in {"sum", "mean", "min", "max"}
  <2>1. PICK of : /\ Classified(Known(W, len), of, Len(splitChunks(len, program.size)))
                  /\ \A k \in 1 .. Len(splitChunks(len, program.size)) :
                       Between(W, splitChunks(len, program.size)[k][1], splitChunks(len, program.size)[k][2])
                         = Class(Known(W, len), of, k)
    BY <1>1, ChunkClasses
  <2>2. Classified(Known(W, len), of, m) /\ \A k \in 1 .. m : RowsOfChunk(c, k) = Class(Known(W, len), of, k)
    BY <1>2, <2>1 DEF ChunksOf, RowsOfChunk
  <2>3. kind # "binary" /\ kind \notin {"reduce", "binary"}
    BY <1>9
  <2>4. PICK b : Bounded(W.data, Known(W, len), len, b)
    BY <2>3, WholeBounded
  <2> HIDE DEF W, len, name, kind
  <2>5. \A k \in 1 .. m : ps[k] = ChunkAnswer(kind, name, W, len, Class(Known(W, len), of, k), m)
    BY <1>6, <2>2, <2>3
  <2>6. AnswersOf(ps, kind, name, W, len, of, m)
    BY <1>2, <2>2, <2>5 DEF AnswersOf
  <2>7. Combined(kind, ps) = Reduced(name, W, len, Known(W, len))
    BY ONLY <1>1, <1>4, <1>9, <2>4, <2>6, CombinedWhole
  <2> QED BY <1>5, <2>3, <2>7 DEF kind
<1> QED BY <1>4, <1>7, <1>8, <1>9

\* What the worker of a chunk sees is the rows of the chunk in the column of the
\* serial run.
LEMMA TaskShows ==
  ASSUME ThreadsInv, MemoryInv, NEW w \in Slots, queue[w] # << >>, First(w).kernel \notin BinaryKernels,
         NEW t, t = First(w), NEW c, c = t.call, NEW s, s = ChunksOf(c)[t.chunk][1]
  PROVE  /\ Shows(Read(cells, t), Whole(c), Op(c).len, s, t.len)
         /\ c \in Ops /\ s + t.len = ChunksOf(c)[t.chunk][2] /\ t.kernel = Op(c).kernel
<1> DEFINE o == Op(c)
           e == ChunksOf(c)[t.chunk][2]
<1>1. program \in Programs /\ queue \in [Slots -> Seq(Tasks)]
  BY SomeFacts DEF ThreadsInv
<1>2. 1 \in 1 .. Len(queue[w]) /\ t = queue[w][1]
  BY <1>1 DEF First
<1>3. t \in Tasks /\ c \in Ops /\ PartOf(t)
  BY <1>2, QueuedFacts DEF ThreadsInv
<1>4. /\ t.chunk \in DOMAIN ChunksOf(c) /\ t.kernel = o.kernel
      /\ t.a = o.a + s /\ t.len = e - s
      /\ t.vp = IF o.vp = 0 THEN 0 ELSE o.vp + s \div 8
  BY <1>3 DEF PartOf, ChunksOf
<1>5. program.size \in Nat \ {0} /\ program.size \in Nat /\ o.len \in Nat /\ o.a \in Nat /\ o.vp \in Nat
  BY <1>1, <1>3, ProgramFacts
<1>6. s \in Nat /\ e \in Nat /\ s <= e /\ e <= o.len
  BY <1>4, <1>5, ChunkFacts DEF ChunksOf
<1>7. s % 8 = 0
  BY <1>4, <1>5, ChunksAligned DEF ChunksOf
<1>8. \A x \in Reads(t) : cells[x] = Serial[c - 1][x]
  BY <1>2, InvSettles DEF ReadsSettled
<1>9. o.vp # 0 => \A k \in 0 .. BytesFor(o.len) - 1 : program.bytes[o.vp + k] \in ByteValues
  BY <1>1, <1>3, OpKind
<1> HIDE DEF o, e
<1>10. PartFrom(t, o, s) /\ s + t.len = e
  BY <1>4, <1>5, <1>6, <1>7 DEF PartFrom
<1>11. \A i \in 0 .. t.len - 1 : cells[t.a + i] = Serial[c - 1][t.a + i]
  <2> SUFFICES ASSUME NEW i \in 0 .. t.len - 1 PROVE t.a + i \in Reads(t)
    BY <1>8
  <2>1. t.a \in Nat /\ t.len \in Nat
    BY <1>4, <1>5, <1>6
  <2> QED BY <2>1 DEF Reads, Rows
<1>12. Shows(ColumnAt(cells, program.bytes, t), ColumnAt(Serial[c - 1], program.bytes, o), o.len, s, t.len)
  BY <1>9, <1>10, <1>11, PartShows
<1>13. Whole(c) = ColumnAt(Serial[c - 1], program.bytes, o) /\ Read(cells, t) = ColumnAt(cells, program.bytes, t)
  BY DEF Whole, SerialColumn, Serial, Op, o, Read
<1> QED BY <1>3, <1>4, <1>10, <1>12, <1>13 DEF o, e

\* A worker answers what is due of its chunk.
LEMMA AnswerIs ==
  ASSUME ThreadsInv, MemoryInv, NoDistinctCounts, NEW w \in Slots, queue[w] # << >>,
         First(w).kernel \notin BinaryKernels,
         Listed(partials[First(w).call], Len(ChunksOf(First(w).call)))
  PROVE  Answer(First(w)) = Due(First(w).call, First(w).chunk)
<1> DEFINE t == First(w)
           c == t.call
           k == t.chunk
           s == ChunksOf(c)[k][1]
           W == Whole(c)
           len == Op(c).len
           name == Op(c).kernel
           col == Read(cells, t)
           T == Between(W, s, s + t.len)
           m == Len(ChunksOf(c))
<1>1. Shows(col, W, len, s, t.len) /\ c \in Ops /\ s + t.len = ChunksOf(c)[k][2] /\ t.kernel = name
  BY TaskShows
<1>2. program \in Programs /\ program.size \in Nat \ {0} /\ len \in Nat
  BY <1>1, SomeFacts, ProgramFacts DEF ThreadsInv
<1>3. Op(c).kind # "binary" /\ name \in Reductions \ {"nunique_f64_null"}
  BY <1>1, <1>2, KindOf
<1>4. PICK b : Bounded(W.data, Known(W, len), len, b)
  BY <1>1, <1>2, <1>3, WholeBounded
<1>5. m \in Nat
  BY <1>2, ChunkFacts DEF ChunksOf
<1>6. Len(partials[c]) = m
  <2>1. partials[c] = [j \in 1 .. m |-> partials[c][j]]
    BY DEF Listed
  <2> HIDE DEF m
  <2> QED BY <1>5, <2>1
<1>7. T = RowsOfChunk(c, k)
  BY <1>1 DEF RowsOfChunk
<1>8. Answer(t) = IF Op(c).kind = "mean" /\ m > 1 THEN <<sum_f64_null(col, t.len), count_null(col, t.len)>>
                  ELSE Kernel(name, col, t.len)
  <2> HIDE DEF m
  <2> QED BY <1>1, <1>6 DEF Answer
<1>9. Due(c, k) = ChunkAnswer(Op(c).kind, name, W, len, T, m)
  BY <1>3, <1>7 DEF Due
<1> DEFINE n == t.len
<1>10. Shows(col, W, len, s, n)
  BY <1>1
<1> HIDE DEF t, c, k, s, W, len, name, col, m, n
<1>11. /\ Kernel(name, col, n) = Reduced(name, W, len, Between(W, s, s + n))
       /\ sum_f64_null(col, n) = Total(Part(W.data, Between(W, s, s + n)), len)
       /\ count_null(col, n) = Cardinality(Between(W, s, s + n))
  BY ONLY <1>3, <1>4, <1>10, KernelShown
<1>12. T = Between(W, s, s + n)
  BY DEF n
<1> HIDE DEF T
<1>13. Answer(t) = Due(c, k)
  BY <1>8, <1>9, <1>11, <1>12 DEF ChunkAnswer, n
<1> QED BY <1>13 DEF t, c, k

-----------------------------------------------------------------------------
(* Every step keeps the answers and the values.                            *)

\* What is left to show when the program stays.
LEMMA AnswersAfter ==
  ASSUME program' = program,
         \A c \in Ops : status'[c] = "waiting" =>
           /\ Len(ChunksOf(c)) # 0 /\ Listed(partials'[c], Len(ChunksOf(c)))
           /\ \A k \in 1 .. Len(ChunksOf(c)) : partials'[c][k] = Unanswered \/ partials'[c][k] = <<Due(c, k)>>,
         DOMAIN value' = Ops,
         \A c \in Ops : status'[c] = "resolved" => value'[c] = SerialValue(c)
  PROVE  AnswerInv'
<1>1. Ops' = Ops /\ \A c : ChunksOf(c)' = ChunksOf(c) /\ SerialValue(c)' = SerialValue(c) /\ \A k : Due(c, k)' = Due(c, k)
  BY SameProgram, SameDue
<1>2. AnswersDue'
  BY <1>1 DEF AnswersDue, Waiting, Listed
<1>3. ValuesDue'
  BY <1>1 DEF ValuesDue
<1> QED BY <1>2, <1>3 DEF AnswerInv

\* Answers and values stay, and no operation begins to wait or resolves.
LEMMA AnswersStay ==
  ASSUME AnswerInv, UNCHANGED <<program, partials, value>>,
         \A c \in Ops : status'[c] \in {"waiting", "resolved"} => status'[c] = status[c]
  PROVE  AnswerInv'
<1>1. \A c \in Ops : (status'[c] = "waiting" => Waiting(c)) /\ (status'[c] = "resolved" => status[c] = "resolved")
  BY DEF Waiting
<1> QED BY <1>1, AnswersAfter DEF AnswerInv, AnswersDue, ValuesDue

LEMMA InitAnswers == ThreadsInit => AnswerInv
BY DEF ThreadsInit, AnswerInv, AnswersDue, ValuesDue, Waiting

LEMMA StartEmptyAnswers ==
  ASSUME ThreadsInv, NoDistinctCounts, AnswerInv, NEW c \in Ops, StartEmpty(c)
  PROVE  AnswerInv'
<1>1. /\ status' = [status EXCEPT ![c] = "resolved"] /\ value' = [value EXCEPT ![c] = EmptyValue(Op(c).kind)]
      /\ UNCHANGED <<program, partials>> /\ ChunksOf(c) = << >>
  BY DEF StartEmpty, Started, ChunksOf
<1>2. program \in Programs /\ DOMAIN status = Ops /\ DOMAIN value = Ops
  BY SomeFacts DEF ThreadsInv, AnswerInv, ValuesDue
<1>3. EmptyValue(Op(c).kind) = SerialValue(c)
  BY <1>1, <1>2, EmptyIs
<1>4. DOMAIN value' = Ops /\ \A d \in Ops : status'[d] = "resolved" => value'[d] = SerialValue(d)
  BY <1>1, <1>2, <1>3 DEF AnswerInv, ValuesDue
<1>5. \A d \in Ops : status'[d] = "waiting" => Waiting(d) /\ partials'[d] = partials[d]
  BY <1>1, <1>2 DEF Waiting
<1> QED BY <1>1, <1>4, <1>5, AnswersAfter DEF AnswerInv, AnswersDue

\* An operation that has been sent has no answers.
LEMMA SentAnswers ==
  ASSUME ThreadsInv, AnswerInv, NEW c \in Ops, NEW n, Sent(c, n), n = Len(ChunksOf(c)), n # 0, program' = program
  PROVE  AnswerInv'
<1>1. /\ status' = [status EXCEPT ![c] = "waiting"] /\ partials' = [partials EXCEPT ![c] = [k \in 1 .. n |-> Unanswered]]
      /\ value' = value
  BY DEF Sent
<1>2. DOMAIN status = Ops /\ DOMAIN partials = Ops /\ DOMAIN value = Ops
  BY SomeFacts DEF ThreadsInv, AnswerInv, ValuesDue
<1>3. \A d \in Ops : status'[d] = "resolved" => value'[d] = SerialValue(d)
  BY <1>1, <1>2 DEF AnswerInv, ValuesDue
<1>4. ASSUME NEW d \in Ops, status'[d] = "waiting"
      PROVE  /\ Len(ChunksOf(d)) # 0 /\ Listed(partials'[d], Len(ChunksOf(d)))
             /\ \A k \in 1 .. Len(ChunksOf(d)) : partials'[d][k] = Unanswered \/ partials'[d][k] = <<Due(d, k)>>
  <2>1. CASE d = c
    <3>1. partials'[c] = [k \in 1 .. n |-> Unanswered]
      BY <1>1, <1>2
    <3> QED BY <2>1, <3>1 DEF Listed
  <2>2. CASE d # c
    <3>1. Waiting(d) /\ partials'[d] = partials[d]
      BY <1>1, <1>2, <1>4, <2>2 DEF Waiting
    <3> QED BY <3>1 DEF AnswerInv, AnswersDue
  <2> QED BY <2>1, <2>2
<1> QED BY <1>1, <1>2, <1>3, <1>4, AnswersAfter

LEMMA ResolveAnswers ==
  ASSUME ThreadsInv, NoDistinctCounts, AnswerInv, NEW c \in Ops, Resolve(c)
  PROVE  AnswerInv'
<1> DEFINE ps == [k \in DOMAIN partials[c] |-> partials[c][k][1]]
           m == Len(ChunksOf(c))
<1>1. /\ Waiting(c) /\ \A k \in DOMAIN partials[c] : partials[c][k] # Unanswered
      /\ status' = [status EXCEPT ![c] = "resolved"] /\ value' = [value EXCEPT ![c] = Combined(Op(c).kind, ps)]
      /\ UNCHANGED <<program, partials>>
  BY DEF Resolve
<1>2. program \in Programs /\ DOMAIN status = Ops /\ DOMAIN value = Ops
  BY SomeFacts DEF ThreadsInv, AnswerInv, ValuesDue
<1>3. /\ m # 0 /\ Listed(partials[c], m)
      /\ \A k \in 1 .. m : partials[c][k] = Unanswered \/ partials[c][k] = <<Due(c, k)>>
  BY <1>1 DEF AnswerInv, AnswersDue
<1> HIDE DEF m
<1>4. DOMAIN partials[c] = 1 .. m
  <2>1. partials[c] = [k \in 1 .. m |-> partials[c][k]]
    BY <1>3 DEF Listed
  <2>2. DOMAIN [k \in 1 .. m |-> partials[c][k]] = 1 .. m
    OBVIOUS
  <2> QED BY ONLY <2>1, <2>2
<1>5. \A k \in 1 .. m : partials[c][k] = <<Due(c, k)>>
  BY <1>1, <1>3, <1>4
<1>6. ps = [k \in 1 .. m |-> ps[k]] /\ \A k \in 1 .. m : ps[k] = Due(c, k)
  BY <1>4, <1>5
<1> HIDE DEF ps
<1>7. DueList(c, ps, m)
  BY <1>3, <1>6 DEF DueList, Listed, m
<1>8. Combined(Op(c).kind, ps) = SerialValue(c)
  BY <1>2, <1>7, CombinedIs
<1>9. DOMAIN value' = Ops /\ \A d \in Ops : status'[d] = "resolved" => value'[d] = SerialValue(d)
  BY <1>1, <1>2, <1>8 DEF AnswerInv, ValuesDue
<1>10. \A d \in Ops : status'[d] = "waiting" => Waiting(d) /\ partials'[d] = partials[d]
  BY <1>1, <1>2 DEF Waiting
<1> QED BY <1>1, <1>9, <1>10, AnswersAfter DEF AnswerInv, AnswersDue

\* A worker answers what is due.
LEMMA DoneAnswers ==
  ASSUME ThreadsInv, AnswerInv, NEW w \in Slots, queue[w] # << >>, NEW answer, Done(w, answer),
         UNCHANGED <<program, status, value>>,
         Waiting(First(w).call) => answer = Due(First(w).call, First(w).chunk)
  PROVE  AnswerInv'
<1> DEFINE t == First(w)
           c == t.call
           j == t.chunk
           m == Len(ChunksOf(c))
<1>1. partials' = [partials EXCEPT ![c][j] = <<answer>>]
  BY DEF Done
<1>2. DOMAIN value = Ops /\ DOMAIN partials = Ops
  BY SomeFacts DEF ThreadsInv, AnswerInv, ValuesDue
<1>3. ASSUME NEW d \in Ops, status'[d] = "waiting"
      PROVE  /\ Len(ChunksOf(d)) # 0 /\ Listed(partials'[d], Len(ChunksOf(d)))
             /\ \A k \in 1 .. Len(ChunksOf(d)) : partials'[d][k] = Unanswered \/ partials'[d][k] = <<Due(d, k)>>
  <2>1. /\ Waiting(d) /\ Len(ChunksOf(d)) # 0 /\ Listed(partials[d], Len(ChunksOf(d)))
        /\ \A k \in 1 .. Len(ChunksOf(d)) : partials[d][k] = Unanswered \/ partials[d][k] = <<Due(d, k)>>
    BY <1>3 DEF AnswerInv, AnswersDue, Waiting
  <2> HIDE DEF c, j
  <2>2. CASE d # c
    <3>1. partials'[d] = partials[d]
      BY <1>1, <1>2, <2>2
    <3> QED BY <2>1, <3>1
  <2>3. CASE d = c
    <3>1. partials'[c] = [partials[c] EXCEPT ![j] = <<answer>>]
      BY <1>1, <1>2, <2>3
    <3>2. partials[c] = [k \in 1 .. m |-> partials[c][k]]
      BY <2>1, <2>3 DEF Listed
    <3> HIDE DEF m
    <3>3. DOMAIN partials[c] = 1 .. m
      <4>1. DOMAIN [k \in 1 .. m |-> partials[c][k]] = 1 .. m
        OBVIOUS
      <4> QED BY ONLY <3>2, <4>1
    <3>4. /\ partials'[c] = [k \in 1 .. m |-> partials'[c][k]]
          /\ \A k \in 1 .. m : partials'[c][k] = IF k = j THEN <<answer>> ELSE partials[c][k]
      BY <3>1, <3>3
    <3>5. answer = Due(c, j)
      BY <2>1, <2>3 DEF c, j
    <3> QED BY <2>1, <2>3, <3>4, <3>5 DEF Listed, m
  <2> QED BY <2>2, <2>3
<1>4. \A d \in Ops : status'[d] = "resolved" => value'[d] = SerialValue(d)
  BY DEF AnswerInv, ValuesDue
<1> QED BY <1>2, <1>3, <1>4, AnswersAfter

LEMMA HangsAnswers ==
  ASSUME ThreadsInv, AnswerInv, NEW w \in Slots, Hangs(w)
  PROVE  AnswerInv'
<1>1. UNCHANGED <<program, partials, value>>
  BY DEF Hangs
<1>2. \A c \in Ops : status'[c] \in {"waiting", "resolved"} => status'[c] = status[c]
  <2>1. \E dropped : status' = [c \in Ops |-> IF c \in dropped /\ Waiting(c) THEN "rejected" ELSE status[c]]
    BY DEF Hangs
  <2> QED BY <2>1
<1> QED BY <1>1, <1>2, AnswersStay

\* The operation of a queued task, and its kind.
LEMMA FirstKind ==
  ASSUME ThreadsInv, NEW w \in Slots, queue[w] # << >>
  PROVE  /\ program \in Programs /\ First(w).call \in Ops
         /\ First(w).kernel = Op(First(w).call).kernel
<1>1. program \in Programs /\ queue \in [Slots -> Seq(Tasks)]
  BY SomeFacts DEF ThreadsInv
<1>2. 1 \in 1 .. Len(queue[w]) /\ First(w) = queue[w][1]
  BY <1>1 DEF First
<1>3. First(w).call \in Ops /\ PartOf(First(w))
  BY <1>2, QueuedFacts DEF ThreadsInv
<1> QED BY <1>1, <1>3 DEF PartOf

LEMMA NextAnswers ==
  ASSUME ThreadsInv, MemoryInv, AnswerInv, NoDistinctCounts, [ThreadsNext]_threadsVars
  PROVE  AnswerInv'
<1>1. ASSUME NEW c \in Ops, StartEmpty(c) PROVE AnswerInv'
  BY <1>1, StartEmptyAnswers
<1>2. ASSUME NEW c \in Ops, StartSingle(c) PROVE AnswerInv'
  <2>1. Sent(c, 1) /\ Len(ChunksOf(c)) = 1 /\ program' = program
    BY <1>2 DEF StartSingle, Started, ChunksOf
  <2> DEFINE n == Len(ChunksOf(c))
  <2>2. Sent(c, n) /\ n # 0
    BY <2>1
  <2> HIDE DEF n
  <2>3. n = Len(ChunksOf(c))
    BY DEF n
  <2> QED BY <2>1, <2>2, <2>3, SentAnswers
<1>3. ASSUME NEW c \in Ops, StartChunks(c) PROVE AnswerInv'
  <2>1. Len(ChunksOf(c)) \in Nat
    BY SomeFacts, ProgramFacts, ChunkFacts DEF ThreadsInv, ChunksOf
  <2>2. Sent(c, Len(ChunksOf(c))) /\ program' = program
    BY <1>3 DEF StartChunks, Started, ChunksOf
  <2>3. Len(ChunksOf(c)) > 1 \/ Len(ChunksOf(c)) = 1
    BY <1>3 DEF StartChunks, ChunksOf
  <2>4. Len(ChunksOf(c)) # 0
    BY <2>1, <2>3
  <2> QED BY <2>2, <2>4, SentAnswers
<1>4. ASSUME NEW c \in Ops, Resolve(c) PROVE AnswerInv'
  BY <1>4, ResolveAnswers
<1>5. ASSUME NEW w \in Slots, Reduces(w) PROVE AnswerInv'
  <2>1. /\ queue[w] # << >> /\ Done(w, Answer(First(w))) /\ UNCHANGED <<program, status, value>>
        /\ First(w).kernel \notin BinaryKernels
    BY <1>5 DEF Reduces, Busy, BinaryKernels
  <2>2. Waiting(First(w).call) => Listed(partials[First(w).call], Len(ChunksOf(First(w).call)))
    BY <2>1, FirstKind DEF AnswerInv, AnswersDue
  <2>3. Waiting(First(w).call) => Answer(First(w)) = Due(First(w).call, First(w).chunk)
    BY <2>1, <2>2, AnswerIs
  <2> QED BY <2>1, <2>3, DoneAnswers
<1>6. ASSUME NEW w \in Slots, Stores(w) PROVE AnswerInv'
  BY <1>6, AnswersStay DEF Stores, Goes
<1>7. ASSUME NEW w \in Slots, StoresReturn(w) PROVE AnswerInv'
  <2>1. /\ queue[w] # << >> /\ Done(w, 0) /\ UNCHANGED <<program, status, value>> /\ First(w).kernel \in BinaryKernels
    BY <1>7 DEF StoresReturn, Busy
  <2>2. 0 = Due(First(w).call, First(w).chunk)
    BY <2>1, FirstKind, KindOf DEF Due
  <2> QED BY <2>1, <2>2, DoneAnswers
<1>8. ASSUME NEW w \in Slots, Counts(w) PROVE AnswerInv'
  BY <1>8, AnswersStay DEF Counts, Goes
<1>9. ASSUME NEW w \in Slots, CountsReturn(w) PROVE AnswerInv'
  <2>1. queue[w] # << >> /\ First(w).kernel = "nunique_f64_null"
    BY <1>9 DEF CountsReturn, Busy
  <2> QED BY <2>1, FirstKind, KindOf
<1>10. ASSUME NEW w \in Slots, Hangs(w) PROVE AnswerInv'
  BY <1>10, HangsAnswers
<1>11. CASE UNCHANGED threadsVars
  BY <1>11, AnswersStay DEF threadsVars
<1> QED BY <1>1, <1>2, <1>3, <1>4, <1>5, <1>6, <1>7, <1>8, <1>9, <1>10, <1>11 DEF ThreadsNext

\* An operation of the threads handle resolves with the value one thread would
\* have returned, and leaves its memory, for any programs without a distinct
\* count: whatever the number of workers, the chunks, the order in which they ran
\* and were combined (parallel.ts, sumF64 to parallelReduce), what else was under
\* way and which workers were lost.
THEOREM ResultsAsOfOneThread ==
  ASSUME NoDistinctCounts
  PROVE  ThreadsSpec => []ResultExact
<1>1. ThreadsInit => ThreadsInv /\ MemoryInv /\ AnswerInv
  BY InitKeeps, InitMemory, InitAnswers
<1>2. ThreadsInv /\ MemoryInv /\ AnswerInv /\ [ThreadsNext]_threadsVars => (ThreadsInv /\ MemoryInv /\ AnswerInv)'
  BY NextKeeps, NextMemory, NextAnswers
<1>3. MemoryInv /\ AnswerInv => ResultExact
  BY DEF MemoryInv, AnswerInv, ValuesDue, ResultExact
<1> QED BY <1>1, <1>2, <1>3, PTL DEF ThreadsSpec
=============================================================================
