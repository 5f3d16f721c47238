# TLA+ specifications of databonk (wispdf)

databonk is a columnar dataframe library: TypeScript over a Rust WebAssembly
module whose linear memory holds every column. These specifications cover the
parts whose correctness depends on orders of steps, on who owns a buffer, or on
loops that a unit test samples but does not exhaust.

Paths below are relative to the repository (`src/` is its TypeScript,
`wasm/rust/src/` its Rust).

## 1. The system

```
 user code
   |  DataFrame, GroupBy, expressions, CSV/Arrow/JSON/Parquet
   v
 frame/*, expr/*, io/*          JS, single thread, one operation at a time
   |  Column = {dataPtr, validityPtr, validityBitOffset, dict}
   v
 memory/* (viewOf)              typed-array views, rebuilt when memory grows
   |  pointers
   v
 kernels (elementwise, reduce, select, hash)     wasm, no state between calls
 arena.rs (alloc, realloc, free, mem_generation) wasm statics + block headers
   ^
   |  the same linear memory, shared
 workers/* (KernelWorkerPool, worker script)     messages, timers, crashes
```

| Component | State | Operations | What makes it correct |
|---|---|---|---|
| Allocator, `arena.rs` | `HEAP_TOP`, `FREE_HEAD`, `GENERATION`; a header per block | `alloc`, `realloc`, `free`, `mem_generation` | blocks tile the heap; nothing is lost, shared or overwritten; free blocks coalesce; a grow is always announced |
| Views, `memory/views.ts` and its users | registry and cache of views per (dtype, address, length); the generation they were built in | `viewOf`, `forget`; creating, reading, slicing and freeing a column; `agg`; the row cursor | a read sees what was written, whatever was grown, freed or reused in between |
| Frame ownership, `frame/dataframe.ts`, `frame/owned.ts` | owner and reference count per column; entries per frame; `disposed` | `fromColumns`, `select`, `drop`, `withColumn`, `slice`, `filter`, `sortValues`, `dispose`, `scope` | an open frame can be read; each buffer is freed once, when its last frame is disposed |
| Expression plans, `expr/runtime.ts`, `expr/compile.ts` | the runtime's set `owned`; ownership flags of each value | the nodes of `evalExpr`, `finalizeColumn`, `Selection` | no temporary is lost, shared, freed twice or read after its release |
| Hash kernels, `hash.rs`, `kernels/hash/index.ts` | an open-addressing table; output buffers | `group_build`, `join_hash_inner`, `join_hash_left` with their retries | exact groups and pairs in order, however often the kernel was called again; the retries end |
| Worker pool, `workers/pool.ts`, `kernel-worker-script.ts` | slots, pending requests, timers; each worker's message queues | `create`, `sendKernel`, `sendMeta`, broadcasts, `replaceSlot`, `terminate` | every call settles, once; every lost worker is replaced |
| Threads, `workers/parallel.ts` | none of its own; the shared memory its workers write | sums, means, minima, elementwise operations and named reductions in chunks over the pool | what resolves is what one thread computes, in whatever order chunks ran |
| Elementwise and reduction kernels, `elementwise.rs`, `reduce.rs`, with the code of `compile.ts` around them | none between calls | arithmetic, comparisons, Kleene logic, casts, fills, reductions | each row as its definition says, at the ends of the ranges, for nulls and NaN |
| Sorting and selection, `select.rs`, `frame/sort.ts` | a permutation | `argsort_*`, `filter_*`, `gather_*`, `topk_*` | stable, nulls last in both directions, ties by row |
| Frames as rows: `frame/*`, `memory/column.ts`, `bitmap.ts`, `dictionary.ts` | columns over shared buffers, with bit offsets and dictionaries | slices, filters, sorts, fills, group-by, joins, construction and export | every operation gives the rows of its definition, after any others |
| CSV, `io/csv.ts` | the parser's buffer, field, row, quote flag | `feed`, `finish`, `fromCSV` with its inference | rows do not depend on the chunks; the inferred type holds the cells |
| Arrow streams, `io/arrow.ts` | none between calls | `toArrow`, `fromArrow` | a stream reads back as the frame it was written of; another program's stream as its fields say |
| Temporal functions, `temporal/civil.ts` | none between calls | dates and instants to their fields, dates to days | the calendar, on both sides of 1970 |
| Parquet, JSON, flatbuffers, printer, resolver | none between calls | codecs and pure functions | round trips, tables |

How they interact: calls, except for the pool, which exchanges messages with
its workers. All share the linear memory. Three facts cross the boundaries and
are where the hard behaviour is:

- *A pointer's owner is a convention.* The arena does not know who owns a
  block. Ownership passes from the expression runtime to a column, from a
  column to its owner, and is shared by frames.
- *Any allocation may replace the buffer under every view.* `memory.grow`
  detaches typed arrays. The generation tells the accessor; code that holds a
  view across an allocation is not told.
- *The main thread waits for workers that may be gone.* Only a timer tells.

PROJECT.json lists the hazards by source line, and the properties that would
catch each of them; where there is no such property a note says why.

## 2. Modules

| Module | Models | Composed with |
|---|---|---|
| `Arena` | `arena.rs`, one action per loop iteration | implements `AllocContract` |
| `AllocContract` | what `alloc`, `realloc`, `free` promise their callers | |
| `Views` | `viewOf` and operations that reach memory through it | takes `Arena`'s `GrowthAnnounced` for granted |
| `Frames` | owners, references and disposal | |
| `ExprRuntime` | temporaries of a plan or a filter | |
| `HashTable` | grouping and joining by hash with their retries | |
| `WorkerPool` | the pool and its workers | |
| `Bitmaps`, `Scalars` | bits of a column; integers of a width, floats | |
| `Elementwise`, `Reduce`, `Select` | the kernels of the three Rust files, as operators | `Bitmaps`, `Scalars` |
| `Kernels` | one call of a kernel with what `compile.ts` does around it | the three above |
| `Calendar` | the Gregorian calendar, by counting days | |
| `Civil` | `civil.ts`, its divisions and corrections | `Scalars`; agrees with `Calendar` |
| `Rows` | what a data frame promises, as a table of rows | `Calendar` |
| `ColumnBuffers` | a column as it is stored, its construction and decoding | `Elementwise`, `Select` |
| `Arrow` | the messages of an Arrow stream, written and read | `ColumnBuffers` |
| `Columns` | the frame operations on buffers | `Arrow`, `Civil`; implements `Rows` |
| `Chunks` | `splitChunks` | `Bitmaps` |
| `Threads` | the threads handle, its chunks and workers over shared memory | `Chunks`, `Reduce` |
| `Csv` | the chunk-fed parser and `fromCSV` | |
| `ArenaProofs`, `FramesProofs`, `ExprRuntimeProofs`, `HashTableProofs`, `WorkerPoolProofs`, `ThreadsProofs` | the proofs about the module of that name (section 4), those of `Views` in `FramesProofs`, those of `Chunks` in `ThreadsProofs` | that module |
| `ValueProofs` | the proofs about the dates of `Civil`, the kernels of `Kernels` but those of `ReduceProofs`, and the reader of `Csv` | `Civil`, `Calendar`, `Kernels`, `Csv` |
| `ReduceProofs` | the proofs about the kernels of `Kernels` that reduce a column: filter, top-k and the reductions | `ValueProofs` |
| `MC*` | instances for TLC | |

### Arena

Addresses and sizes count 16-byte units, the alignment of every block, so a
header is one unit and `align16` needs no model of its own. Headers are two
partial functions: `size` is defined where a block starts and `next` where a
block is listed. Reading a header elsewhere is therefore an error of the model,
not an arbitrary number. `mem` says what each unit holds, so that an overlap
shows as a lost byte.

A call is a small machine over `pc`: `scan` is the first-fit loop of `alloc`,
`bump` its end with `ensure_capacity`, `return` the return to the caller (the
client, or `realloc`), `walk` and `pred` the two searches of `insert_free` and
`splice` its write. `realloc` has one action per branch: keep, shrink, extend
at the top, or move. `memory.grow` may fail at the maximum or because the host
refuses.

The clients stand for the JS layer. Each owns at most one block at a time and
passes no stale pointer, which the ABI leaves undefined. `AllocContract` states
what they may rely on without headers, lists or pages; `Arena` implements it
under the mapping of its variables to the contract's (`Contract` in `Arena`).

Abstracted: a negative size and `realloc(0, n)` change no state of their own.
`mem_generation` reads the counter, which is not taken modulo 2^32 because
`GenerationBounded` shows that it cannot wrap.

### Views

A view is the generation it was built in, and it can be read while that is the
current one. A registry key is an address with a (dtype, length) class. A
column is its buffers, and one abstract value stands for its contents.
`createColumn` is four actions (data, validity, views, fill), because memory may
grow at each allocation. `agg` is five: groups, key column, the view of the
group ids, one column per plan entry, the end. Its `finally` clause ends it in two
ways: `AggEnd`, with its columns in a frame, and `AggThrows`, which also frees the
columns it had made (`owned`). Two parts are left out: the operands that the plan
of an expression owns, and an exception inside `computeGroups`, before the `try`
block of `agg` is entered: when `groupBuild` cannot allocate its table, only the hashes
are freed and the group ids are lost (groupby.ts:183). The row cursor alternates with
user code that may make columns. `Alloc` may return 0 where `MayFail` holds.

### Frames

A frame is a sequence of columns, and a column is the group of buffers that
`freeColumn` frees together. Operations that may throw between two entries take
one step per entry. `select`, `drop`, `withColumn` and slices retain, everything
else creates. `dispose` releases entry by entry. `scope` runs user code, tracks
frames and disposes them at its end; one scope runs at a time.

### ExprRuntime

The evaluator is recursive; in the model its pending operands are a stack, and
a step evaluates one node. A value keeps what decides ownership: its
representation, its data, validity and dictionary, and whether it owns each.
Every operator threads the runtime through the `alloc`, `free`, `call` and
`view` of the code in the code's order, so that a kernel that reads a freed
buffer, or writes a column of the frame, is recorded in `rt.faults`.
`Features` switches on the expressions of the two deviations described in
section 3; the run `expr` leaves those two kinds of expression out.

### HashTable

A step is one iteration of a probing loop, or one allocation of a wrapper. A
row is its hash: the kernels compare hashes only. `Enlarge` is the return of -1,
`EnlargeOutput` the return of more pairs than fit; `todo` lists the buffers a
wrapper has still to allocate, in its order, and each may fail. The branch for a
table without slots is left out, since the wrappers never make one smaller than
`MIN_HT_CAP`. `MaxRows` is the number of rows whose hashes, of eight bytes each,
fill the memory of 4 GiB; with it every capacity that `p <<= 1` has to reach is
one of `Powers`, below 2^31. Equal 64-bit hashes of different keys are treated as equal keys,
as ADR-005 accepts.

The pairs of a join are counted in an i32, also those that do not fit. `CountLimit`
is where it wraps, 2^31 in the code, and `Words` the numbers of four bytes that fill
memory, 2^30. A count that has wrapped (`Emit`) passes `total < out_cap` and is
used as an index (`Stored`); the wrapper takes -1 for a full table and cannot make
an array of another negative length (`Miscounted`), and a count that is 0 again is
an empty join (`Return`). What a write beyond the buffers destroys is not modelled.
`JoinExact` therefore speaks of joins of fewer than `Words` pairs, which is more than
the two output buffers of any join that memory could hold: of these it says that the
count does not wrap and that no write leaves its buffer.

### WorkerPool

An action is a handler of the main thread, or the part of an async function
between two awaits. A request is its id. `pending`, `timers` and `outcome` are
the pool's map, its armed timers and the promise. `TimerFires` is the timer and
`replaceSlot` up to its await of `createRawWorker`, `Install` the rest, so that
requests, answers, other timers and `terminate` can come in between. A worker
has an inbox, an outbox and at most one running kernel; its `instantiate` is
asynchronous. `Crash` covers an exit, a trap of the host and a hang: none sends a
message. `createRawWorker` may be rejected. `create` then rejects as well
(`AddWorkerRejected`), while its other workers are still started and nobody
terminates them. In a replacement nobody hears of it (`InstallRejected`, the
`catch` of pool.ts:253): the slot keeps the worker it terminated, requests still
go there, and the first of them to time out starts another replacement.

Two assumptions about time: equal timeouts fire in the order in which they
were armed, and starting a worker takes less than a timeout. `timeoutMs` is
positive; 0 switches the timers off.

### Kernels: Bitmaps, Scalars, Elementwise, Reduce, Select

A kernel is an operator from buffers to buffers. A bitmap is a function from
byte numbers to sets of bits, so that padding, the bits an earlier owner left
there and a byte that nobody zeroed are all visible; a null pointer is the
empty sequence. Integers have `Width` bits and wrap around, an i64 twice as
many. Floats are integers with the infinities (`PosInf`, above every
value used) and NaN beyond them, which keeps
their order and what NaN does to it; rounding and -0 are not modelled. Where a
kernel works in lanes and combines them (`sum_f64_null`, the SIMD minima, the
comparisons that fill a mask byte by byte, elementwise operations in place)
the operator does the same, because the order shows. A SIMD path that does per
lane what its tail does per row is one loop.

The macros of the Rust files make one kernel per dtype and operation; an
operator takes the dtype, or the operation, as a parameter. `Kernels` adds
the caller: which operand's buffer becomes the result, when the mask of the
divisors is taken, which validity the result gets, which casts are refused. A
behaviour of `Kernels` is one call, and the properties state each result row by
row.

### Rows and Columns

`Rows` defines 18 operations on a table of cells: no bitmaps, offsets, slots or
indices. They are slices and `tail`, filters by an expression and by a function,
sorts, `select`, `drop`, `fillNull`, `str.slice` and `isNull` as expressions, the
fields of `dt` as an expression and of a `Series`, the same for strings, a new
column, a grouped aggregation, a join, and a frame to and from an Arrow stream.
`Columns` performs them as the code does, through `alignValidity`,
`gatherColumn`, `argsort` per key from the last to the first, dictionaries
built and unified, hashes per slot, `-1` indices and null masks, the
scatter loops of `groupby.ts`. `ImplementsRows` is `Rows`' specification under the
mapping of a frame to the table it shows. An operation the code rejects leaves
the frame as it is in both, with outcome `thrown`.

A buffer in `Columns` is a value and no operation writes one of its operand's;
that this is so, and who frees them, is what `Frames` and `ExprRuntime` check.
Grouping and matching by hash is one step here and the subject of `HashTable`:
equal keys get equal hashes, so that what is left to go wrong is how keys are
prepared and results gathered.

`Admitted` names three inputs for which the code deviates: joins whose sides are
slices of nullable frames, left joins with an empty right side, and the minimum
or maximum of a grouped timestamp column (`"timestamp extreme"`), which throws
where `Rows` has a value. The run `columns` leaves all of them out;
`columns_join` and `MCColumnsEmpty.cfg` each admit one. With
`Admitted = {"timestamp extreme"}` in `MCColumns.cfg`, TLC finds
`ImplementsRows` violated.

### Arrow, Civil and Calendar

`Arrow` has the stream of a frame: a field per column, the messages of its
dictionaries, one record batch, and in each body the buffers with their offsets,
lengths and padding. Reading takes them in the order of the fields, turns plain
strings into a dictionary and instants of any unit into milliseconds, and rejects
the types the code rejects. How a message is encoded (flatbuffers) is not
modelled. A stream of another program is a value of a run.

`Civil` is `civil.ts` with its divisions as the code has them: `Math.floor` rounds
down, `/` and `%` of bigints towards zero. `Calendar` counts days of months and
years and knows no eras. `Rows` takes the fields from `Calendar` and `Columns` from
`Civil`, so the run compares them on sampled days; `ValueProofs` proves them equal
on all. Time zones are left out: the library takes them from `Intl`.

### Chunks and Threads

A program is a list of operations on columns of one memory. An operation may start
when the one it awaits has resolved. `ProgramsAssumption` is what the handle asks
of its caller: the columns are in memory, an output is an operand or apart from
both, and an operation that touches what another writes waits for it, directly or
through others it waits for. `SumsAssumption` says that what is reduced holds floats
and that the finite ones of a column are small enough for a sum of its length: a sum
that overflows on the way would depend on the order of its terms, which chunks
change. A caller that goes on after a rejection, while other workers may still
store, is left out (pool.ts:215). Workers take tasks in order from their
queue. A reduction is one step, since it only reads; an elementwise kernel
stores in batches, and a distinct count one row at a time into the scratch of
its stack. The scratch is one place for all workers: each instance of the
binary sets its stack pointer to the same address of the same memory. `Hangs`
loses a worker with its queue, as a timeout does in `WorkerPool`.

### Csv

A text is a sequence of characters, among them the quote, CR, LF, those of the
delimiter, and nine that stand for a literal each (an integer of 32 bits, one
beyond it, one beyond 2^53, one beyond 64 bits, a decimal, true, false, a date, an
instant). A cell keeps, per kind, what can be read back of it; `NumberOf` rounds the
integers beyond 2^53, as `Number(cell)` does. `Feed` is one call of `feed` with
any number of characters, and parses until the parser has to wait; the steps
after `Finish` are the ends `fromCSV` can come to. The reference of the parser
counts quotes: whether a character stands within quotes, begins a delimiter or is
the second half of something is asked of the text, and the parser's state is not.
It is that of RFC 4180 to the end of the text: a CR without an LF is data, the last
row needs no line end, and an odd number of quotes is an error. The code differs
there in two places, and the property names both and allows no other. `Completed`: a
CR that ends the text ends a row (csv.ts:164). `Blank` and `Unseen`: a last line of
quotes alone, of which neither a field nor a character was taken, gives no row, and
is no error when one of its quotes is open (csv.ts:184).

`InferredHolds` excuses one loss. Once a column is `f64`, for a
decimal, an integer beyond 64 bits, or an integer between 2^31 and 2^53 that came
before those beyond 2^53, it does not become `i64`, and `Number(cell)` keeps the nearest float of a wide integer (`Floats` and the last two
lines of the property). csv.ts:16-19 says that such a column is `i64`, or text when an
integer does not fit in 64 bits; `MCCsvWide.cfg` shows that it is not.

`Plain` names the delimiters the property is about: none of their characters is a
quote, CR or LF, and a delimiter cannot begin within another one. What `"aa"` does
to `"aaa"`, or `"\n"` as a delimiter, the code decides by the order of its tests
and no document describes. A delimiter of several characters that a chunk cuts is
taken for data, so that the property takes such a text in one chunk. The empty
delimiter, with which `parse` never advances, is excluded by `InputsAssumption`.
The names of the specification are `ReaderInit`, `ReaderNext` and `ReaderSpec`,
since `ValueProofs` extends `Kernels` too; those of `Views` are `ViewsInit`,
`ViewsNext` and `ViewsSpec`, since `FramesProofs` extends both it and `Frames`.

## 3. Runs

| Run | Bounds | Shows |
|---|---|---|
| `arena` | 3 owners; requests of 0, 2 and 3 units; pages of 4 units, 1 to 3 of them | layout, list order, ownership, coalescing, contents, `IInv` itself, the contract, and that calls return |
| `views` | 5 addresses, 2 values, 2 grows, 2 plan entries or rows | columns read back what was written; `agg` gives its buffers back |
| `frames` | 3 frames, 3 columns, width 2, 1 exception | readable while open; exact counts; nothing lost or freed twice |
| `expr` | 5 nodes or compacted columns | temporaries are the operands', each owned once; nothing left at the end |
| `hash` | groupings of up to 5 rows; joins of up to 2 with up to 3 rows, and some with 5; 4 hashes and null; tables from 4 slots | exact groups and pairs in order, within the buffers, of the joins that fit; unbroken chains; the retries end |
| `pool` | 2 callers, 2 workers, 2 calls, 1 crash or rejected worker | requests are watched, settle, and once; positions are staffed, losses replaced |
| `kernels` | integers of 3 and 6 bits, all of them; columns of up to 5 rows, 17 for masks; bitmaps to 3 bytes; `NUNIQUE_CAP` 3, insertion runs of 2 | arithmetic, masks, Kleene logic, casts, reductions, sorting, selection |
| `columns` | 3 left and 2 right frames, of up to 10 rows; 3 operations out of 45 requests; integers of 15 bits, an i64 of 30 | frames implement `Rows`; the slots of strings are in their dictionary |
| `columns_join` | the same, slices and joins only | violated: a joined slice takes its nulls from other rows |
| `threads` | 1 to 3 workers; 17 rows; up to 3 operations at a time; 1 lost worker | what resolves is what one thread computes; no two workers meet |
| `csv` | texts of up to 5 of 5 characters with a delimiter of one, in all chunkings; texts of up to 4 with a delimiter of 2 or 3, in one chunk; tables of 3 rows; 2 sampled rows | rows are those of RFC 4180 whatever the chunks, but for the two deviations at the end of a text; inferred types hold their cells, but for the last digits of wide integers in a column of floats |
| `csv_bool` | the tables | violated: a number becomes a boolean |

Each module's type invariant is the first conjunct of an invariant named in its
run: `IInv` of `Arena`, `AccessorInv` of `Views`, `OwnersInv` of `Frames`,
`TempsInv` of `ExprRuntime`, `TableInv` of `HashTable`, `PoolInv` of
`WorkerPool`. The other conjuncts are the facts the module's steps rely on, and
the properties beside it speak of what its users see.

Why the bounds are enough to meet the cases:

- *arena*: three blocks are the least in which a block has two neighbours, so
  that forward merge, backward merge, both, and the second search after a
  backward merge all happen; pages of four units make growth, refusal and the
  maximum happen; 2 and 3 units differ by less than a minimal block, so splits,
  exact fits and slack all occur. What the bound leaves open, the proofs close.
- *views*: two grows are the least by which a view built between them is stale
  again; five addresses let one be freed and reused while another is read.
- *frames*: three frames are a parent, a child and a slice of either, in every
  order of disposal.
- *expr*: no operator has more than two operands, and five nodes put two
  operators of any two kinds over leaves, with an aggregation or a filter on
  top.
- *hash*: the hashes 0, 4 and 8 share a home in the smallest table; 0 and 8
  still share it after one doubling; 3 wraps around the end. Two left rows that
  match five right rows overflow a table of four slots and the output. The count
  wraps at 10 and memory has 9 words: the join of two equal left rows with five
  equal right rows wraps, and the one of three with three is the first that
  `JoinExact` does not speak of.
- *pool*: two workers and two callers let a request queue behind another, and a
  crash meet a request of each caller. `EveryCallSettles` needs a request behind
  a crashed worker, which two calls give; a broadcast of one message reaches a
  replacement that is still loading, or the position of a worker that could not
  be created, whose time-out then replaces it. `MaxWorkers` and `MaxIds` bound nothing
  more: a call costs at most one worker.
- *kernels*: every pair of 3-bit integers has each overflow, sign and division
  by zero and by -1; row counts of 8, 9 and 17 are on both sides of one and two
  bytes; five rows sort in three insertion runs and two merge passes, which is
  one more than the scratch needs to swap roles, and seven rows give a pass an
  odd run; all nulls, no nulls and each mixture occur.
- *columns*: ten rows need two bytes of validity, with nulls in both, and slices
  begin within the first, between the two and within the second. Three
  operations put an operation on a slice of a slice, or on what another has
  gathered; 45 requests contain each operation and the rejections. One frame has
  dates and instants on both sides of 1970, with a leap day and the ends of years;
  the streams share a dictionary between fields, come without one, or hold
  instants in each unit, one of which has no milliseconds.
- *threads*: seventeen rows are three chunks (8, 8 and 1) for three workers and
  two for two; the lengths 7, 8, 9, 15 and 16 are on both sides of a chunk. Three
  operations overlap with two others, in place and not.
- *csv*: five characters hold an opened, doubled and closed quote with something
  after it, or a CRLF and its surroundings, and every cut falls between every
  two of them. Tables of three rows go one row beyond the sample, and three
  cells are every sequence of promotions of length three.

Deadlock is checked for `arena` and `views`, which never stop. The others stop
where a bound or the end of the work stops them.

### Fairness

- `Arena`: `WF_vars(Step)`. A wasm call runs to completion once started; the
  clients need not call again.
- `WorkerPool`: weak fairness of timers that are due, of the event loop
  (messages, continuations) and of each worker's script and kernels. A crash
  is never fair, and no caller has to call. A spawn is fair: `createRawWorker`
  awaits an import, which ends; that it is rejected is never fair.
- `HashTable`: `WF_vars(Next)`. It is a sequential program; what has to be shown
  is that its loops and retries end.

The other specifications state safety only.

### What the violated runs mean

Each shows one statement of the repository that the code does not keep; the
findings in PROJECT.json quote it.

- `columns_join`: column.ts says that a kernel which consumes the validity of a
  slice must honour its bit offset. `buildGatherValidity` does not pass it, so
  that a joined slice takes its nulls from the first rows of the parent.
- `csv_bool`: csv.ts says that a column is boolean when only `true` and `false`
  appear. A number before them is forgotten, and then reads false.

### Further deviations that a configuration shows

These are not among the runs. Each configuration checks one property and TLC
finds it violated within a minute
(`tlc -config <cfg> <module>`).

| Configuration | Module | Property | What it shows |
|---|---|---|---|
| `MCViewsHeld.cfg` | `MCViews` | `HeldViewsReadable` | ADR-001 says that no raw view is cached outside `viewOf`. `agg` (groupby.ts:72) and `makeRowCursor` hold views while something else allocates; when that grows the memory they read a detached array |
| `MCViewsOom.cfg` | `MCViews` | `FailedAllocsNoticed` | the ABI says that callers check `alloc` for 0; `createColumn` (column.ts:156) does not |
| `MCExprRuntimeDict.cfg` | `MCExprRuntime` | `OwnedIsLive` | runtime.ts says that a pointer is in `owned` iff it was neither freed nor transferred; `freeDict` (compile.ts:1192) frees dictionaries that stay there and are freed again, by then perhaps as a buffer of the result |
| `MCExprRuntimeMask.cfg` | `MCExprRuntime` | `KernelsSound` | dtypes.md gives the cast of a boolean a meaning; the cast of a comparison (compile.ts:721) reads through an undefined pointer |
| `MCWorkerPoolCreate.cfg` | `WorkerPool` | `CreateSettles` | threads.md says that crashes do not hang the pool; a worker that dies before it is ready (pool.ts:133) leaves `create()` pending |
| `MCThreadsStack.cfg` | `MCThreads` | `ResultExact` | parallel.ts says that workers only read data or write their output; two chunks of a distinct count at once share the scratch of nunique (reduce.rs:594) on one stack, and count wrongly |
| `MCColumnsEmpty.cfg` | `MCColumns` | `SlotsReadable` | a left join with an empty right side gathers row 0 of no rows (join.ts:148): the slots are whatever follows, and the next join on that column reads hashes at them |
| `MCCsvWide.cfg` | `MCCsv` | `WideIsI64` | csv.ts:16 says that any integer beyond 2^53 makes its column i64; 3000000000 before it has already made it f64, and 9007199254740993 reads back as ...992 |
| `MCKernelsNunique.cfg` | `MCKernels` | `NuniqueFallsBack` | reduce.rs:18 says that a column with more distinct values than the scratch holds is counted by a full scan; `nunique_i64_null` slices its scratch beyond its end and traps |

Seen while the models were written, without a property of their own:

- a join of 2^31 pairs or more, such as 65536 equal keys on each side, wraps the i32
  count of hash.rs:387: it stores out of bounds, throws a RangeError, returns no
  rows, or enlarges its table until memory ends, according to what the count wraps
  to; from 2^30 pairs on the output buffers are shorter than `outCap`;
- a replacement under way during `terminate()` survives it, and a broadcast
  rejects while other workers still write (pool.ts:277, 215);
- `select` and `fromColumns` keep what they had retained or made when they
  throw, and a filter whose predicate throws keeps its temporaries;
- `min` and `max` of a grouped timestamp column hand its bigints to a Float64Array
  and throw a TypeError (groupby.ts:373; the deviation `"timestamp extreme"`);
- `str.slice` that cuts a surrogate pair makes two slots of one dictionary that
  decode to the same replacement character, so that equal strings are two groups;
- a chunk boundary within a delimiter of several characters hides it from
  `ChunkParser`; a CR that ends the text ends a row, though csv.ts:6 says that a CR
  alone is data; a last row of one empty quoted field is dropped; a quote opened
  with nothing after it is not reported, though csv.ts:435 says that it throws;
  columns with one header lose all but the last; a cell beyond the sample may become
  NaN or throw; an integer beyond 64 bits makes its column f64, though csv.ts:19 says
  that it falls back to text;
- the time zone of a timestamp column is kept by a slice and dropped by gather,
  filter, join and group-by, after which `dt` counts in UTC; the path with a zone
  also loses the era of a year before the first;
- `Series.dt` rejects the time of day of a date32, the expression `dt` gives 0;
- comments of series.ts say that a series starts at bit 0 of its validity; a
  slice does not, and the code does handle it;
- `fromArrow` ignores record batches after the first, rounds micro- and nanoseconds
  towards zero where a timestamp's day is rounded down, reads narrow integers,
  Float16 and LargeUtf8 as if they were the types it knows though its doc
  (arrow.ts:965) says that other types throw, and keeps the columns it has made
  when a later one throws; a frame without columns loses its row count;
- `parallelElementwiseBinary` takes any kernel by name, but offsets the output by
  elements, which a kernel that writes a mask does not expect.

## 4. Proofs

TLC checks small instances; the theorems below hold for every value of the
constants that the modules' assumptions allow. Each inductive invariant named
here was checked by TLC before it was proved, most of them as a property of a run.

### Arena

`ArenaProofs` proves, for every heap base, page size, request set, number of
owners and address space allowed by `ArenaAssumption`, that `Arena` satisfies

| Theorem | Invariant |
|---|---|
| `Inductive` | `IInv` |
| `TypeCorrect`, `BlocksTile`, `ListOrdered` | `TypeOK`, `Tiling`, `FreeListOrdered` |
| `NoBlockLostOrShared` | `BlocksAccountedFor` |
| `AlwaysCoalesced`, `NothingLeaks` | `Coalesced`, `FullyReclaimed` |
| `FirstFitExhaustive` | `NoMissedFit` |
| `GenerationNeverWraps`, `GrowthIsAnnounced` | `GenerationBounded`, `GrowthAnnounced` |
| `ContentsSurvive` | `ContentsPreserved` |
| `KeepsItsPromise` | `ImplementsContract`: every step of `Arena` is one of `AllocContract` or a stutter |

None of the safety properties is inductive alone. `Coalesced` speaks of states
between calls, and between calls it depends on what the loops have established
on the way; the loops in turn rely on the layout. `IInv` adds to the layout

- `AllocRunning`: while `alloc` scans, the current block is where the link of
  the previous one leads, and no block up to it fits;
- `Inserting`: while `insert_free` runs, the region it works on starts at a block
  and ends at one, no client owns any of it, and `prev` and `nxt` are its
  neighbours in the list;
- `ListCoalesced` and `TopNotFree`: coalescing during a call, with the exception
  of the region being inserted.

The proof has one lemma per action of `Next`, each split into the conjuncts the
action can disturb. `Layout` and `SpliceFacts` turn the invariant into the few
inequalities the steps use; `SplitLayout` is shared by the two places that split
a block; `CapacityEnsured` is the arithmetic of pages. `NothingLeaks` is not a
conjunct of `IInv` but follows from it: with no block owned all blocks are free,
no two touch, none touches the top, and they tile the heap; hence there is none.

`ContentsSurvive` needs `KeptFits` beside `IInv` (no more is kept than was asked
for). Its argument is where the code writes: headers, free blocks, and the blocks
of the running call; a client's bytes lie in none of them. The refinement adds
`WantRequested` (a running `alloc` serves a request) and `PayloadsApart`, which is
what lets a grant of `Arena` be a grant of the contract.

### Views

| Theorem | Invariant |
|---|---|
| `ViewsNeverStale` | `AccessorInv` |
| `BuffersHaveOneOwner` | `BuffersOwned`, where no allocation fails |
| `ColumnsKeepTheirRows` | `ColumnsReadBack`, where no allocation fails |

`AccessorIInv` says that what `viewOf` has cached is all of one generation, the
one it is synced to, and never of a later one than memory. So either the cache is
current or all of it is rebuilt. `OwnIInv` has the buffers of a column half built
(`Building`), the disjoint owners of all that is live (`Owned`) and the bytes of
every column (`Holds`). The other two theorems assume `~MayFail`: `createColumn`
does not check what `alloc` returns, and `MCViewsOom.cfg` shows what happens when
it fails.

### Frames

| Theorem | Property |
|---|---|
| `ReferencesCounted` | `OwnersInv` |
| `OpenStaysReadable` | `OpenFramesReadable` |
| `NothingIsLost` | `NothingLost` |
| `FreesOnce` | `FreedOnce` |

`OwnersInv` is inductive as it stands: a count is the number of places that show
the column, the running operation among them, or more where an operation threw.
The proof is about how the set of these places changes when an entry is appended,
taken away or handed from an operation to its frame. `TaskSound` carries what the
rest of an operation may rely on: columns it has still to retain are counted by a
frame that stays open.

### ExprRuntime

| Theorem | Invariant |
|---|---|
| `TemporariesBelongToOperands` | `TempsInv` |
| `NodesAreSound` | `KernelsSound` |
| `PlansLeaveNothing` | `NothingLeft` |

The argument follows the evaluator. A runtime is known by the set it tracks and
the set it has given away (`Is`), a value by the buffers it owns (`Own`).
`Holds(r, v, F, B)` says that the runtime `r` tracks what the value `v` owns, and
`F`, which belongs to the operands below it, and has given away `B`. There is one
lemma per node: if the operands hold, so does the value the node returns, with `F`
and `B` as they were and no fault. Binary nodes first put the two operands
together (`Pair`). The invariant `IInv` is `Holds` for the whole stack, each
operand owning a part of its own; `TopHolds`, `TopTwoHold` and `Pushes` take the
stack apart and put it together again.

Two hypotheses, both stated in the theorems. `Unbounded`: there is always a free
address; an allocation that fails is an exception of the code, which is the action
`Throw` and covered. `NoKnownFault`: the two kinds of expressions for which
section 3 shows that ownership does break are off.

### HashTable

| Theorem | Invariant |
|---|---|
| `ProbesReachTheirKeys` | `TableInv` |
| `GroupsAreExact` | `GroupsExact` |
| `JoinsAreExact` | `JoinExact` |

`ChainInv` is the inductive invariant of the table: what the wrapper has still to
allocate is what it does not hold (`WrapperInv`); every key is reached from its
home without crossing an empty slot, and no key has two groups, or rows of a key
follow each other in order (`TableOK`); the running probe has passed taken slots
only (`BuildInv`, `ProbeInv`). `GroupInv` adds that the group ids given out are the
groups of the rows so far, in the order in which they first occur, and that the
table has exactly those. `JoinInv` adds that the output lists the matching pairs
of the rows before the current one and of the slots the probe has passed, in
order, each once, and that the total is the number of them also where they do not
fit (`Counted`). Since they are among the expected pairs, of which there are fewer
than `Words`, the count cannot wrap and `outCap` stays below `Words`, so that a
buffer has the room its capacity says; without that hypothesis (`Fits`) the
invariant says nothing of a join.
Enlarging and calling again starts from an empty table, so nothing is carried over
and the theorems hold after any number of retries.

### WorkerPool

| Theorem | Property |
|---|---|
| `RequestsWatched` | `PoolInv` |
| `AlwaysStaffed` | `FullyStaffed` |
| `SettlesOnce` | `SettledOnce` |

`PoolInv` is inductive: requests that wait are exactly those some slot has pending
and, for calls, those with an armed timer (`WaitingIsWatched`); ids are given out
in order (`IdsInOrder`); positions, their workers, the replacements on their way and
those that were rejected agree (`Staffing`); and a replacement is paid by a call that failed
(`LossesPaid`), which is why the number of workers needs no bound of its own.
`SettlesOnce` follows: nothing but a pending request is settled, and a request
settled is pending nowhere.

### Chunks and Threads

| Theorem | Statement |
|---|---|
| `ChunksAligned` | every chunk starts at a multiple of eight rows |
| `ChunksFew` | there are no more chunks than workers |
| `ChunksPartition` | the chunks cover every row, and no two share one |
| `WorkersApart` | `NoSharedWrites` |
| `ResolvedLeavesMemory` | `ResolvedAtRest`: a resolved operation has no kernel queued or running |
| `MemoryAsOfOneThread` | `MemoryExact`, the part of `ResultExact` about the memory |
| `ReductionsReadSettled` | `ReadsSettled`: what a queued reduction reads is what one thread would find |
| `ResultsAsOfOneThread` | `ResultExact`, for programs that count no distinct values (`NoDistinctCounts`) |

The first three are about `splitChunks` for every number of rows and workers; they
rest on `ChunkSizeType` (a chunk is a positive multiple of eight rows, and as many
chunks as workers reach the end), on `SplitShape` (the k-th chunk starts at the
k-th multiple of that size and is not empty) and on two facts about division.

`ThreadsInv` says that operations start in order, each after the one it awaits has
resolved; that a queued task is the chunk it names of an operation that has not
resolved; and that no chunk is queued twice. Two tasks of one operation are apart
because its chunks are. Two tasks of different operations can only conflict if
the operations do; then the later one has awaited the earlier, by
`ProgramsAssumption`, perhaps through others. What has been awaited before an
operation that started is a closed set of resolved ones, so the earlier one has
no task left.

For the memory `MemoryInv` adds that a queued task has stored its first `pos` rows
as its operation leaves them when it runs alone, and has the others as that
operation finds them (`HalfDone`); that the chunks that answered are stored
(`AnsweredDone`); and `MemoryExact` itself. The serial run is a recursive function;
`SerialPrefix` and `SerialStays` argue with the least prefix for which they would
fail. A kernel stores what one thread would because its operands are the output, row
by row and not yet stored, or cells that no open operation writes
(`OperandsExact`): these are as the operations before it left them, since no
later one that has started conflicts with it (`LaterApart`). An operation that
resolves gives up its output when every chunk is stored, and the chunks are all
its rows (`ChunksPartition`).

For the values `AnswerInv` adds that each answer of a waiting operation is the one
due of its chunk (`AnswersDue`), and that what resolved has the value of one thread
(`ValuesDue`). What is due is said of the column the operation would find if it ran
alone, and of a set of its valid rows: the sum, the number or an extreme of the
values there (`ChunkAnswer`). A worker answers it because its pointers show it those
rows (`TaskShows`: the cells are settled, and a chunk starts with a byte of the
bitmap), and because a kernel over rows of a column computes what `Kernels` promises
of these rows (`KernelShown`, from `ReduceProofs`). The chunks classify the valid
rows (`ChunkClasses`), and over classes of rows the sums of the answers are the sum
of all rows, their counts add up to the number of them, and the best of the extremes
that are numbers is the extreme (`AddUpTotals`, `ClassesCounted`, `ExtremesCombine`);
`CombinedWhole` puts these together. The theorem excludes distinct counts because it
would be false of them, see `MCThreadsStack.cfg`; that one which runs alone is right
is checked by the run `threads`.

### Civil and Kernels

`ValueProofs` proves, and `ReduceProofs` for the selection and the reductions, for
all integers and for all calls of a kernel,

| Theorem | Statement |
|---|---|
| `DaysReadBack`, `DatesReadBack` | `civilToDays` and `daysToCivil` are inverse, on days and on dates of the calendar |
| `DaysFollowTheCalendar` | day 0 is 1970-01-01, and the day after a day has the next date |
| `DayOfYearCounts`, `WeekdaysFollow` | the day of the year and the weekday |
| `DayOfInstant`, `InstantsReadBack` | the corrected quotient of an instant is its day; its fields are in range and say which instant it is |
| `MasksOfRows` | `MasksExact` |
| `LogicOfNulls` | `KleeneExact` |
| `ArithmeticOfRows` | `ArithmeticExact` |
| `CastsOfRows` | `CastsExact` |
| `ArgsortIsStable` | `SortStable` |
| `SelectionOfRows` | `SelectionExact` |
| `ReductionsOfRows` | `ReductionsExact` |

`Calendar` is the reference: lengths of months, leap years and the next date. A
day is split in its era, the year of the era and the day of the year from March;
`YearFound` and `MonthFound` show that the code's quotients find the year and the
month that contain the day, and the next day is then a case of each boundary. The
theorems are about integers; the code's numbers are exact integers for every day
of a date32 and every millisecond of a timestamp.

A mask is built by whole bytes for the lanes and by single bits for the tail.
`PackedBits` and `BytesOfLanes` say which bits a byte of each part has,
`MaskBytes` that the two parts agree on the byte where they meet and leave the
bytes after it alone, and `ComparesAsItHolds` that mirroring a
comparison whose scalar is on the left is the comparison asked for, NaN included. For the logic a row stands for
the set of truth values it may have (`PossibleTruths`: one, or both when it is
null); `TruthTables` gives the set of a connective from those of its operands,
and the code's Boolean formulas for value and validity are matched with it case
by case (`BothOrEither`, `Negated`), an absent validity included. Both theorems
assume of a call what `CallsAssumption` says: elements and scalars are numbers, the
elements of a Boolean column are 0 or 1, and the mask has been allocated.

`ArgsortIsStable` is for any number of rows and any `InitRun`. The order asked for
is that of the keys, and of the places in the permutation given where the keys are
equal (`Stable`); `PrecedesByKey` shows that the comparison functions with their
NaN and null cases are that order of keys. Both loops keep `Arranged`: the
positions are cut into segments, each holds the rows it held at first and is
ordered. At first every position is a cut; an insertion and a merge order what lies
between two cuts (`InsertReorders`, `MergeReorders`), which removes the cuts there
(`ReordersArranged`). `InsertionCutsNext` and `PassCutsNext` give the cuts left
after each step, for runs whose length does not divide the number of rows too, and
once the width has reached that number none is left inside. During a merge the
rows written back have not reached those of the right run that are still to be read
(`Merging`). The theorem assumes that the permutation has each row once, and that
valid values lie between minus infinity and NaN.

`ArithmeticOfRows` is for every width of integers. `PowersExist` gives the powers of
two their recursion (`Two` is a recursive function for that reason), and `Wrapped`
says that reducing modulo such a power and reading the sign lands on the one number
of the range that is congruent. `ApplyComputes` then takes each operation: a wrapped
sum, difference or product is the wrapped exact one, and division by zero and the
one quotient that does not fit (`QuotientFits`) are what the kernel gives. The loops
store whole batches and then a tail; `BatchesProgress` gives the rows
stored after any number of batches in closed form, and `BinaryStores`,
`ScalarStores` and `NegateStores` that a row is read before it is overwritten, which
is where an output that is one of the operands could go wrong. Buffers are one and the
same or disjoint, which is what the allocator gives.

`CastsOfRows` has one lemma per pair of representations. A float stands for a number
of halves: `Truncation` and `TruncatedFacts` say what rounding towards zero gives,
`FloatToInteger` adds the saturation of Rust's `as`, and NaN; a narrowing of integers
keeps the residue (`Narrowed`, `ResidueUnique`); `DatesCast` is the floor of an
instant and the start of a day. A value of a null row is not looked at.

For `SelectionOfRows` a list of rows is described by what it holds and in which order
(`ListsAppend`, `ListsConcat`), so that the place of a row in the output is the number
of rows selected before it (`RankInList`). A byte of the mask gives its rows in order,
and the bytes and the tail together those of the mask (`ByteLists`,
`FilterLists`). For top-k, a heap is a tree in which no child is to be replaced before its
parent. Sifting keeps the rows and mends the one place where this fails
(`SiftStepKeeps`), building mends all from the last parent to the root
(`HeapBuildKeeps`), and the root is then the first to be replaced of all
(`RootFirst`). `OfferKeeps` is the step of the loop: of the valid rows so far, the
heap holds k that no other is better than, ties by their place. The kept rows are
sorted by the insertion already proved.

`ReductionsOfRows` needs the sum of *some* of the rows. `Total` of a set of rows is
NaN, an infinity or the sum of its values; `TotalOfUnion` says that the totals of two
disjoint sets add up with the `Plus` of floats, which is where an infinity in one lane
meets the other infinity in another. The rows of a lane are those with one remainder
(`Stripes`), `LaneTotals` gives a lane the total of its rows, `AddUpTotals` the lanes
theirs, and `StripedSum` follows for every number of lanes. `CountExact` counts the
valid rows by bytes. The variance is computed from the deviations, the reference from
sums and sums of squares: `SumOfSquares` is the identity between the two, summed over
the rows, and `DeviationsBounded` keeps the second pass finite. An extreme starts
from a seed that may also be a value, and stands in for nulls and NaN: `PickUpBest`
says that no value is better than what a lane or the tail holds, and
`FloatExtremeComputes` that a result equal to the seed is told apart by the second
look at the column. `NuniqueComputes` follows the pass that fills the
buffer (`Noted`); once it has overflowed, `RescanCounts` counts each value at its
first row. `NuniqueI64Computes` is about columns that fit in the buffer, as
`ReductionsExact` is: `MCKernelsNunique.cfg` shows what happens to the others.
`WrappedSum` says that wrapping at every addition and once at the end are congruent.
`CallsAssumption` bounds the values of a reduced column so that its sums, and those
of the squared deviations, stay below `PosInf`: beyond it a float would round or
become infinite, and the model's numbers do neither.

### Csv

`ValueProofs` proves, for every text, every plain delimiter, every sequence of
chunks when it is one character, all options of `fromCSV` and any `InferRows`,

| Theorem | Statement |
|---|---|
| `RowsOfAnyChunks` | `RowsIndependentOfChunks` |
| `InferredTypesHold` | `InferredHolds` |

The invariant is `ReaderInv`. `Place` is the number of characters that have been
parsed: those fed and not in the buffer. `PlaceInv` says that the buffer is the
text behind `Place`, and that the record under way and the rows given are what the
reference takes of the text before it (`WasRead`). That alone is not inductive: at
some places of a text the parser must not stand, since what follows would be read
as something new, the second of two quotes, the LF of a CRLF or the middle of a
delimiter. `Begins` excludes these places, and is part of `WasRead`.

The reference is asked about the completed text, the parser reads the text.
`ReadKind` says what a character of the completed text is in terms of the text
(`ReadAsCompleted`), and `ReadTaken` is what the reference takes of the completed
text up to it, so that the rest of the argument does not mention completion.
`RowsOfText` goes back: the LF that completes a text adds nothing
(`CompletedTaken`), nothing is left behind a line end (`NothingLeft`), and so what
`finish` emits and reports is the reference but for the row `Unseen`.

An iteration of the loop sees a `Window` of the text, the buffer. `StartsInWindow`
shows that it finds a delimiter there exactly where the text has one, which is
where a cut delimiter has to be excluded. Each arm then has a lemma: data,
delimiters, ends of rows and quotes move the parser to the next place with what
the reference takes up to it, and to a place that `Begins` (`DataReads`,
`SeparatorReads`, `LineEndReads`, `QuoteReads`). The one other outcome is that the
parser waits at the last character of a chunk, which happens only when more is to
come (`IterationReads`). `ParseReads` carries this over the loop, `FeedKeeps` over a
chunk and `FinishKeeps` to the end of the text. The loop, the reference and the
inference are recursive functions; that they exist, for a prefix of any
length, is proved by a least counterexample, once for each (`TakenPrefix`,
`VisitsPrefix`, `StatesPrefix`), and so is what holds along them (`StepByStep`).

For the inference, `Fits` says what a type claims of a cell. `PromoteFits` shows that
`promote` goes to a type that fits the new cell and all that the old type fits,
and that it leaves the integers for `f64` only on account of a decimal, or from `i32`
of an integer that needs no `i64`. `SampleFits` carries both along the sample past the
nulls: the type fits, and a column of floats has its reason (`Floats`). `FittingCells`
shows that `parseCell` keeps a cell its type fits, or the nearest float of one. `bool` claims nothing, for the reason
the run `csv_bool` shows.

### What stays with TLC

Liveness under fairness is out of the prover's reach: `CallsReturn`, `Finishes`,
`EveryCallSettles`, `EveryLossReplaced`. The library's induction theorems, and
those about recursive functions, take an operator as a parameter and cannot be
used. What they would give has to be derived from `WFMin`, a least element of a set
of naturals, once for each recursive function or, for the loops of the sort, with one
lemma about iterated functions (`Recursion`, and `LoopExists` for those that stay in
one set).

Only model-checked, besides liveness: the two properties of `Columns`, in which
recursive definitions run over sequences built by other recursive definitions, and
the distinct counts of `Threads.ResultExact` in one chunk.

## 5. Not modelled, and why

- Rounding of floats, -0, 64-bit hashes, and what a SIMD instruction does to one
  lane. The repository tests them by fixtures.
- The encoding of flatbuffers, JSON, Parquet, and file or network loading. They
  keep no state between calls; what they read of a column is `ColumnToArray`.
- Time zones, which come from `Intl`.
- The printer, `describe`, `mapFn` and the accessors of a `Series` other than `dt`
  and `str.slice`: they read columns and keep nothing.
- The builders of expressions and most rules of the resolver: tables.
- Nested scopes, and the use of a disposed frame, of which no document says
  what it does.
- The entry of a CSV, sort or join into frames' ownership: they are
  `fromColumns` with columns made afresh, as far as ownership is concerned.
- The memory model of shared wasm memory. Workers write disjoint cells while the
  main thread waits (`NoSharedWrites`); the exceptions are the scratch described
  above and a broadcast that rejects early.

## 6. Plan

Done: the allocator with its contract, views, ownership, expression plans, hash
kernels, the pool, all kernels, frames as rows with dates and Arrow streams,
threads, CSV; and the proofs of section 4. These cover every safety property of the
modules that keep state between calls, except the properties of `Columns` and the
distinct counts of `Threads.ResultExact`. They also cover the reader of
CSV and every kernel.

To be proved next, in this order:

1. `Columns.SlotsReadable`: gathering, slicing and unifying keep the slots of
   valid rows inside their dictionary.
