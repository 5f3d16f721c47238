------------------------------ MODULE Threads ------------------------------
(***************************************************************************)
(* The threads handle (workers/parallel.ts): an operation splits its rows  *)
(* into chunks, sends one kernel call per chunk to the workers of the pool *)
(* and combines what they return.  The workers run kernels over the memory *)
(* they share; the main thread goes on meanwhile and may have several      *)
(* operations under way.                                                   *)
(*                                                                         *)
(* WorkerPool has the messages, the timers and the replacement of workers; *)
(* here a worker is the queue of its tasks, and losing it rejects them.    *)
(* A pointer is an index into the cells (eight bytes each) or into the     *)
(* bytes of the bitmaps; 0 is no bitmap.                                   *)
(***************************************************************************)
EXTENDS Chunks, Reduce

CONSTANTS
  Programs,   \* records: the pool's size, the cells and bytes, the operations in order
  MaxLost     \* bound: workers that time out

ASSUME MaxLostAssumption == MaxLost \in Nat

BinaryKernels == {"add_f64", "sub_f64", "mul_f64"}
Reductions ==
  {"sum_f64_null", "mean_f64_null", "min_f64_null", "max_f64_null", "count_null", "nunique_f64_null"}

\* The kernels an operation of the handle may send.
KernelsOf(kind) ==
  CASE kind = "sum" -> {"sum_f64_null"} [] kind = "mean" -> {"mean_f64_null"}
    [] kind = "min" -> {"min_f64_null"} [] kind = "max" -> {"max_f64_null"}
    [] kind = "binary" -> BinaryKernels [] kind = "reduce" -> Reductions

\* The cells an operation or a task writes, and those it reads.
Rows(ptr, len) == ptr .. ptr + len - 1
Writes(t) == IF t.kernel \in BinaryKernels THEN Rows(t.out, t.len) ELSE {}
Reads(t) == Rows(t.a, t.len) \cup IF t.kernel \in BinaryKernels THEN Rows(t.b, t.len) ELSE {}

\* Two operations of which one writes what the other uses.
Conflict(o, p) ==
  \/ Writes(o) \cap (Writes(p) \cup Reads(p)) # {}
  \/ Writes(p) \cap (Writes(o) \cup Reads(o)) # {}

\* The operations the caller has awaited, one after the other, before it starts
\* the operation c of a program: the least set with the one c awaits, and with
\* the one that each of its members awaits.
Awaited(ops, c) ==
  {d \in DOMAIN ops :
     \A S \in SUBSET DOMAIN ops :
       (\A x \in S \cup {c} : ops[x].after # 0 => ops[x].after \in S) => d \in S}

\* What the handle asks of its caller: the columns are in memory, an output is one
\* of the operands, or apart from it, and an operation that touches the output of
\* another, or writes its operands, waits for it.
ASSUME ProgramsAssumption ==
  \A p \in Programs :
    /\ p.size \in Nat \ {0} /\ DOMAIN p.cells \subseteq Nat
    /\ p.ops \in Seq([kind : {"sum", "mean", "min", "max", "reduce", "binary"}, kernel : STRING,
                      a : Nat, b : Nat, out : Nat, vp : Nat, len : Nat, after : Nat])
    /\ \A c \in DOMAIN p.ops :
         LET o == p.ops[c] IN
         /\ o.kernel \in KernelsOf(o.kind)
         /\ o.vp # 0 => \A k \in 0 .. BytesFor(o.len) - 1 : p.bytes[o.vp + k] \in ByteValues
         /\ o.after < c /\ Reads(o) \cup Writes(o) \subseteq DOMAIN p.cells
         /\ o.kernel \in BinaryKernels =>
              \A ptr \in {o.a, o.b} : o.out = ptr \/ Rows(o.out, o.len) \cap Rows(ptr, o.len) = {}
         /\ \A d \in 1 .. c - 1 : Conflict(p.ops[d], o) => d \in Awaited(p.ops, c)

VARIABLES
  program,    \* the program that runs
  issued,     \* how many of its operations have been started
  status,     \* of each operation: idle, waiting, resolved or rejected
  partials,   \* of each operation, the answers of its chunks
  value,      \* what each operation resolved with
  nextSlot,   \* round robin of sendKernel
  queue,      \* the tasks of each worker
  pos,        \* rows done of each worker's first task
  found,      \* what the distinct count of each worker has found so far
  cells,      \* the shared memory: elements
  scratch,    \* and the bytes at the top of the kernels' stack
  lost

pool == <<nextSlot, queue, pos, found>>
threadsVars == <<program, issued, status, partials, value, pool, cells, scratch, lost>>

Op(c) == program.ops[c]
Ops == 1 .. Len(program.ops)
Slots == 1 .. program.size
Waiting(c) == status[c] = "waiting"

Unanswered == << >>
NothingFound == [cnt |-> 0, nan |-> FALSE, overflow |-> FALSE]

-----------------------------------------------------------------------------
(* Chunks.                                                                 *)

\* Mutant: every chunk stores from the start of the output.
OffsetInputs(o, s) == [o EXCEPT !.a = @ + s, !.b = @ + s]

\* The pointers of a chunk that starts at row s.
Offset(o, s) ==
  [o EXCEPT !.a = @ + s, !.b = @ + s, !.out = @ + s,
            !.vp = IF @ = 0 THEN 0 ELSE @ + s \div 8]

Task(c, k, o, len) == [call |-> c, chunk |-> k, kernel |-> o.kernel, a |-> o.a, b |-> o.b, out |-> o.out, vp |-> o.vp, len |-> len]

-----------------------------------------------------------------------------
(* Kernels over the shared memory.                                         *)

\* The column a task or an operation reads, in the memory m.
ColumnAt(m, bytes, t) ==
  Column([i \in 0 .. t.len - 1 |-> m[t.a + i]],
         IF t.vp = 0 THEN NullPtr ELSE [k \in 0 .. BytesFor(t.len) - 1 |-> bytes[t.vp + k]])
Read(m, t) == ColumnAt(m, program.bytes, t)

Kernel(name, col, n) ==
  CASE name = "sum_f64_null" -> sum_f64_null(col, n)
    [] name = "mean_f64_null" -> mean_null(col, n, 2)
    [] name = "min_f64_null" -> min_f64_null(col, n)
    [] name = "max_f64_null" -> max_f64_null(col, n)
    [] name = "count_null" -> count_null(col, n)
    [] name = "nunique_f64_null" -> nunique_null(col, n)

\* mean is sent as a batch of two kernels when there are several chunks.
Answer(t) ==
  LET col == Read(cells, t) IN
  IF Op(t.call).kind = "mean" /\ Len(partials[t.call]) > 1
  THEN <<sum_f64_null(col, t.len), count_null(col, t.len)>>
  ELSE Kernel(t.kernel, col, t.len)

\* The operands of a product are finite or NaN.
ApplyF64(name, x, y) ==
  CASE name = "add_f64" -> Plus(x, y)
    [] name = "sub_f64" -> IF y = NaN THEN NaN ELSE Plus(x, -y)
    [] name = "mul_f64" -> IF NaN \in {x, y} THEN NaN ELSE x * y

-----------------------------------------------------------------------------
(* Combining.                                                              *)

EmptyValue(kind) == CASE kind = "sum" -> 0 [] kind = "mean" -> NoRatio [] kind \in {"min", "max"} -> NaN [] OTHER -> << >>

\* NaN is the result of a chunk without a number.
CombineExtreme(kind, ps) ==
  LET best[k \in 0 .. Len(ps)] ==
        IF k = 0 THEN NaN
        ELSE IF ps[k] # NaN /\ (best[k - 1] = NaN \/ Improves(kind = "min", ps[k], best[k - 1]))
             THEN ps[k] ELSE best[k - 1]
  IN best[Len(ps)]

CombineMean(ps) ==
  LET count[k \in 0 .. Len(ps)] == IF k = 0 THEN 0 ELSE count[k - 1] + ps[k][2] IN
  IF count[Len(ps)] = 0 THEN NoRatio ELSE <<AddUp([k \in DOMAIN ps |-> ps[k][1]], Len(ps)), count[Len(ps)]>>

Combined(kind, ps) ==
  CASE kind = "reduce" -> ps
    [] kind = "binary" -> << >>
    [] Len(ps) = 1 /\ kind \notin {"reduce", "binary"} -> ps[1]
    [] Len(ps) > 1 /\ kind = "sum" -> AddUp(ps, Len(ps))
    [] Len(ps) > 1 /\ kind = "mean" -> CombineMean(ps)
    [] Len(ps) > 1 /\ kind \in {"min", "max"} -> CombineExtreme(kind, ps)

-----------------------------------------------------------------------------
(* The main thread.                                                        *)

ThreadsInit ==
  /\ program \in Programs
  /\ issued = 0
  /\ status = [c \in Ops |-> "idle"]
  /\ partials = [c \in Ops |-> << >>]
  /\ value = [c \in Ops |-> << >>]
  /\ nextSlot = 1
  /\ queue = [w \in Slots |-> << >>]
  /\ pos = [w \in Slots |-> 0]
  /\ found = [w \in Slots |-> NothingFound]
  /\ cells = program.cells
  /\ scratch = [x \in 0 .. NuniqueCap - 1 |-> 0]
  /\ lost = 0

Started(c) ==
  /\ c = issued + 1 /\ c \in Ops
  /\ Op(c).after # 0 => status[Op(c).after] = "resolved"
  /\ issued' = c
  /\ UNCHANGED <<program, pos, found, cells, scratch, lost>>

\* No rows: resolved at once.
StartEmpty(c) ==
  /\ Started(c)
  /\ splitChunks(Op(c).len, program.size) = << >>
  /\ status' = [status EXCEPT ![c] = "resolved"]
  /\ value' = [value EXCEPT ![c] = EmptyValue(Op(c).kind)]
  /\ UNCHANGED <<partials, nextSlot, queue>>

Sent(c, n) ==
  /\ status' = [status EXCEPT ![c] = "waiting"]
  /\ partials' = [partials EXCEPT ![c] = [k \in 1 .. n |-> Unanswered]]
  /\ UNCHANGED value

\* One chunk: sendKernel, to the next slot.
StartSingle(c) ==
  /\ Started(c)
  /\ Len(splitChunks(Op(c).len, program.size)) = 1 /\ Op(c).kind # "reduce"
  /\ Sent(c, 1)
  /\ queue' = [queue EXCEPT ![nextSlot] = Append(@, Task(c, 1, Op(c), Op(c).len))]
  /\ nextSlot' = (nextSlot % program.size) + 1

\* broadcastKernel: the chunk k goes to slot k.
StartChunks(c) ==
  /\ Started(c)
  /\ LET chunks == splitChunks(Op(c).len, program.size) IN
     /\ Len(chunks) > 1 \/ (Len(chunks) = 1 /\ Op(c).kind = "reduce")
     /\ Sent(c, Len(chunks))
     /\ queue' = [w \in Slots |->
          IF w > Len(chunks) THEN queue[w]
          ELSE LET s == chunks[w][1] IN
               Append(queue[w], Task(c, w, Offset(Op(c), s), chunks[w][2] - s))]
  /\ UNCHANGED nextSlot

\* Promise.all resolves with the answers in the order of the chunks.
Resolve(c) ==
  /\ Waiting(c)
  /\ \A k \in DOMAIN partials[c] : partials[c][k] # Unanswered
  /\ status' = [status EXCEPT ![c] = "resolved"]
  /\ value' = [value EXCEPT ![c] = Combined(Op(c).kind, [k \in DOMAIN partials[c] |-> partials[c][k][1]])]
  /\ UNCHANGED <<program, issued, partials, pool, cells, scratch, lost>>

-----------------------------------------------------------------------------
(* The workers.                                                            *)

First(w) == Head(queue[w])
Busy(w, kernels) == queue[w] # << >> /\ First(w).kernel \in kernels

Done(w, answer) ==
  /\ partials' = [partials EXCEPT ![First(w).call][First(w).chunk] = <<answer>>]
  /\ queue' = [queue EXCEPT ![w] = Tail(@)]
  /\ pos' = [pos EXCEPT ![w] = 0]
  /\ found' = [found EXCEPT ![w] = NothingFound]

Goes(w, rows) ==
  /\ pos' = [pos EXCEPT ![w] = @ + rows]
  /\ UNCHANGED <<partials, queue>>

\* A reduction that keeps its state in registers: nobody writes what it reads.
Reduces(w) ==
  /\ Busy(w, {"sum_f64_null", "mean_f64_null", "min_f64_null", "max_f64_null", "count_null"})
  /\ Done(w, Answer(First(w)))
  /\ UNCHANGED <<program, issued, status, value, nextSlot, cells, scratch, lost>>

\* Two lanes at a time, and a last one; then the kernel returns.
Stores(w) ==
  /\ Busy(w, BinaryKernels) /\ pos[w] < First(w).len
  /\ LET t == First(w)
         rows == Min({2, t.len - pos[w]}) IN
     /\ cells' = [x \in DOMAIN cells |->
          IF x - t.out - pos[w] \in 0 .. rows - 1
          THEN ApplyF64(t.kernel, cells[t.a + x - t.out], cells[t.b + x - t.out]) ELSE cells[x]]
     /\ Goes(w, rows)
  /\ UNCHANGED <<program, issued, status, value, nextSlot, found, scratch, lost>>

StoresReturn(w) ==
  /\ Busy(w, BinaryKernels) /\ pos[w] = First(w).len
  /\ Done(w, 0)
  /\ UNCHANGED <<program, issued, status, value, nextSlot, cells, scratch, lost>>

\* nunique looks the next row up in its scratch and appends it.  The scratch is
\* on the kernel's stack, zeroed at entry; every instance of the binary starts
\* its stack at the same address of the shared memory.
Counts(w) ==
  /\ Busy(w, {"nunique_f64_null"}) /\ pos[w] < First(w).len
  /\ LET col == Read(cells, First(w))
         i == pos[w]
         f == found[w]
         stack == IF i = 0 THEN [x \in DOMAIN scratch |-> 0] ELSE scratch
         known == \E x \in 0 .. f.cnt - 1 : stack[x] = col.data[i]
         isNew == Valid(col, i) /\ col.data[i] # NaN /\ ~known IN
     /\ scratch' = IF isNew /\ f.cnt < NuniqueCap THEN [stack EXCEPT ![f.cnt] = col.data[i]] ELSE stack
     /\ found' = [found EXCEPT ![w] =
          [cnt |-> IF isNew /\ f.cnt < NuniqueCap THEN f.cnt + 1 ELSE f.cnt,
           nan |-> f.nan \/ (Valid(col, i) /\ col.data[i] = NaN),
           overflow |-> f.overflow \/ (isNew /\ f.cnt = NuniqueCap)]]
     /\ Goes(w, 1)
  /\ UNCHANGED <<program, issued, status, value, nextSlot, cells, lost>>

CountsReturn(w) ==
  /\ Busy(w, {"nunique_f64_null"}) /\ pos[w] = First(w).len
  /\ LET t == First(w)
         distinct == IF found[w].overflow THEN Rescan(Read(cells, t), t.len, found[w].cnt) ELSE found[w].cnt IN
     Done(w, distinct + IF found[w].nan THEN 1 ELSE 0)
  /\ UNCHANGED <<program, issued, status, value, nextSlot, cells, scratch, lost>>

\* A worker hangs: the timers of its requests reject them and it is replaced.
\* What it stored stays stored, and the other chunks go on.
Hangs(w) ==
  /\ queue[w] # << >> /\ lost < MaxLost
  /\ LET dropped == {queue[w][j].call : j \in DOMAIN queue[w]} IN
     status' = [c \in Ops |-> IF c \in dropped /\ Waiting(c) THEN "rejected" ELSE status[c]]
  /\ queue' = [queue EXCEPT ![w] = << >>]
  /\ pos' = [pos EXCEPT ![w] = 0]
  /\ found' = [found EXCEPT ![w] = NothingFound]
  /\ lost' = lost + 1
  /\ UNCHANGED <<program, issued, partials, value, nextSlot, cells, scratch>>

-----------------------------------------------------------------------------
ThreadsNext ==
  \/ \E c \in Ops : StartEmpty(c) \/ StartSingle(c) \/ StartChunks(c) \/ Resolve(c)
  \/ \E w \in Slots : Reduces(w) \/ Stores(w) \/ StoresReturn(w) \/ Counts(w) \/ CountsReturn(w) \/ Hangs(w)

ThreadsSpec == ThreadsInit /\ [][ThreadsNext]_threadsVars

-----------------------------------------------------------------------------
(* Properties.                                                             *)

\* The memory m after the operation o, run by one thread.
AfterOp(o, m) ==
  [x \in DOMAIN m |->
     IF x \in Writes(o) THEN ApplyF64(o.kernel, m[o.a + x - o.out], m[o.b + x - o.out]) ELSE m[x]]

\* The cells after the first k operations when one thread runs them in order.
SerialOf(p) ==
  LET after[k \in 0 .. Len(p.ops)] == IF k = 0 THEN p.cells ELSE AfterOp(p.ops[k], after[k - 1]) IN after
Serial == SerialOf(program)

\* The column o reads when the operation c of p starts, one thread running them.
SerialColumn(p, c) == ColumnAt(SerialOf(p)[c - 1], p.bytes, p.ops[c])

\* What is reduced holds floats, and those of a column have a finite sum.
ASSUME SumsAssumption ==
  \A p \in Programs : \A c \in DOMAIN p.ops :
    LET col == SerialColumn(p, c) IN
    p.ops[c].kind # "binary" =>
      \A i \in {j \in 0 .. p.ops[c].len - 1 : Valid(col, j)} :
        col.data[i] \in NegInf .. NaN /\ (Finite(col.data[i]) => p.ops[c].len * Magnitude(col.data[i]) < PosInf)

\* The rows from s up to e of the operation o, their validity by row.
ColumnRows(m, o, s, e) ==
  LET whole == Read(m, o) IN
  Column([i \in 0 .. e - s - 1 |-> whole.data[s + i]], Packed(e - s, {i \in 0 .. e - s - 1 : Bit(whole.vp, s + i)}))

\* What the operation c returns when one thread runs its kernel over all the
\* rows; parallelReduce hands out the answers of its chunks.
SerialValue(c) ==
  LET o == Op(c)
      On(s, e) == Kernel(o.kernel, ColumnRows(Serial[c - 1], o, s, e), e - s)
      chunks == splitChunks(o.len, program.size) IN
  CASE o.kind = "binary" -> << >>
    [] o.kind = "reduce" -> [k \in DOMAIN chunks |-> On(chunks[k][1], chunks[k][2])]
    [] OTHER -> On(0, o.len)

\* Outside the outputs of the operations under way, and of those that failed, the
\* memory is what one thread would have left.
MemoryExact ==
  LET open == UNION {Writes(Op(c)) : c \in {d \in Ops : status[d] \in {"waiting", "rejected"}}} IN
  \A x \in DOMAIN cells \ open : cells[x] = Serial[issued][x]

\* An operation that resolves has the value, and leaves the memory, that one
\* thread would: whatever the order in which its chunks ran, finished and were
\* interleaved with other operations, and whichever workers were lost.
ResultExact ==
  /\ \A c \in Ops : status[c] = "resolved" => value[c] = SerialValue(c)
  /\ MemoryExact

\* No worker writes a cell that another worker's kernel reads or writes.
NoSharedWrites ==
  \A w, x \in Slots :
    w # x /\ queue[w] # << >> /\ queue[x] # << >> =>
      Writes(First(w)) \cap (Writes(First(x)) \cup Reads(First(x))) = {}
=============================================================================
