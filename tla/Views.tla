------------------------------- MODULE Views -------------------------------
(***************************************************************************)
(* JS views over a linear memory that grows: the viewOf accessor of        *)
(* memory/views.ts, and the operations that reach memory through it:       *)
(* column construction, reading and freeing (memory/column.ts), the        *)
(* group-by aggregation (frame/groupby.ts) and the row cursor that runs    *)
(* user code between two rows (frame/rowproxy.ts).                         *)
(*                                                                         *)
(* memory.grow replaces memory.buffer and detaches every typed array over  *)
(* the old one.  The allocator bumps its generation exactly when it does   *)
(* (Arena, GrowthAnnounced), so a generation stands for the buffer and a   *)
(* view is the generation it was built in; it is live while that is the    *)
(* current one.  JS runs one operation at a time; what can happen inside   *)
(* an operation is a grow, whenever it allocates.                          *)
(***************************************************************************)
EXTENDS Integers, FiniteSets

CONSTANTS
  Ptrs,       \* the addresses the allocator hands out
  Null,       \* address 0: what a failed alloc returns
  Kinds,      \* the (dtype, length) pairs of columns
  Values,     \* contents of a column
  MaxGrows,   \* bound: how often memory grows
  MaxParts,   \* bound: plan entries of an aggregation, rows of a frame
  MayFail     \* whether alloc may fail

ASSUME ViewsAssumption ==
  /\ Null \notin Ptrs
  /\ MaxGrows \in Nat /\ MaxParts \in Nat
  /\ MayFail \in BOOLEAN

VARIABLES
  generation,  \* mem_generation()
  mem,         \* what each allocated buffer holds
  live,        \* the buffers alloc has handed out
  views,       \* viewOf's state: [synced, registry, cache]
  columns,     \* the columns that exist
  pc,          \* where the running operation is
  new,         \* the column createColumn is building
  data, bits,  \* the views it holds
  back,        \* the operation that called it
  src,         \* the column an aggregation or a cursor works on
  ids,         \* the aggregation's group-id buffer
  held,        \* the view its caller, agg or the cursor, holds
  parts,       \* plan entries or rows still to do
  owned        \* the columns agg has made and not given to a frame

building == <<new, data, bits>>
scanning == <<src, ids, held, parts, owned>>
viewVars == <<generation, mem, live, views, columns, pc, building, back, scanning>>

Junk == "junk"
GroupIds == "group ids"
Detached == "detached"
AllValid == "all valid"
NoView == -1

Key(p, len) == <<p, len>>
Bits  == "bits"
Sliced == "slice"
Ids   == "ids"

\* A column wrote `value` to its data buffer, and also to its validity bitmap
\* when some rows are null.
NoColumn == [data |-> Null, bits |-> Null, kind |-> Ids, nulls |-> FALSE, value |-> Junk]

ViewsInit ==
  /\ generation = 0
  /\ mem = [p \in Ptrs \cup {Null} |-> Junk]
  /\ live = {}
  /\ views = [synced |-> NoView, registry |-> {}, cache |-> << >>]
  /\ columns = {}
  /\ pc = "idle" /\ back = "idle"
  /\ new = NoColumn /\ data = NoView /\ bits = NoView
  /\ src = NoColumn /\ ids = Null /\ held = NoView /\ parts = 0 /\ owned = {}

-----------------------------------------------------------------------------
(* viewOf.                                                                 *)

\* Mutant: the cache is kept when the generation moved.
SyncedNotRebuilt(vs) == [vs EXCEPT !.synced = generation]

\* sync(): after a grow, every registered view is rebuilt over the new buffer.
Synced(vs) ==
  IF vs.synced = generation THEN vs
  ELSE [vs EXCEPT !.synced = generation, !.cache = [k \in vs.registry |-> generation]]

\* viewOf(k): register, sync, build what the cache lacks.
ViewOf(vs, k) ==
  LET s == Synced([vs EXCEPT !.registry = @ \cup {k}]) IN
  IF k \in DOMAIN s.cache THEN s
  ELSE [s EXCEPT !.cache = [j \in DOMAIN s.cache \cup {k} |->
                             IF j = k THEN generation ELSE s.cache[j]]]

\* What reading p through a view yields.
ReadThrough(view, p) == IF view = generation THEN mem[p] ELSE Detached

\* A write through a detached view is silently lost.
WriteThrough(m, view, p, v) == IF view = generation THEN [m EXCEPT ![p] = v] ELSE m

-----------------------------------------------------------------------------
(* The allocator, as its callers see it (Arena).                           *)

\* alloc returns p; memory may have grown on the way.
Alloc(p) ==
  \/ /\ p \in Ptrs \ live
     /\ live' = live \cup {p}
     /\ \/ UNCHANGED generation
        \/ generation < MaxGrows /\ generation' = generation + 1
  \/ /\ MayFail /\ p = Null
     /\ UNCHANGED <<live, generation>>

\* Bound: an operation starts only when the buffers it asks for are there.
Room == Cardinality(Ptrs \ live)

-----------------------------------------------------------------------------
(* createColumn: allocate every buffer, then take the views, then write.   *)

DataKey(c) == Key(c.data, c.kind)
BitsKey(c) == Key(c.bits, Bits)

\* Reading a column takes the view of its validity bitmap, then of its data.
ViewColumn(vs, c) ==
  ViewOf(IF c.bits = Null THEN vs ELSE ViewOf(vs, BitsKey(c)), DataKey(c))

\* Called by the user, by agg for a key or result column (after it read the
\* column it aggregates), or by user code between two rows of a cursor.
CreateColumn(p, k, n, v) ==
  /\ pc \in {"idle", "agg_keys"} \/ (pc \in {"agg_parts", "rows"} /\ parts > 0)
  /\ Room >= (IF n THEN 2 ELSE 1)
             + (CASE pc = "agg_keys" -> parts [] pc = "agg_parts" -> parts - 1 [] OTHER -> 0)
  /\ Alloc(p)
  /\ new' = [data |-> p, bits |-> Null, kind |-> k, nulls |-> n, value |-> v]
  /\ views' = IF pc \in {"agg_keys", "agg_parts"} THEN ViewColumn(views, src) ELSE views
  /\ pc' = (IF n THEN "validity" ELSE "view") /\ back' = pc
  /\ UNCHANGED <<mem, columns, data, bits, scanning>>

AllocValidity(p) ==
  /\ pc = "validity" /\ Alloc(p)
  /\ new' = [new EXCEPT !.bits = p]
  /\ pc' = "view"
  /\ UNCHANGED <<mem, views, columns, data, bits, back, scanning>>

\* Mutant: the data view is taken before the validity bitmap is allocated.
TakeViewsTooEarly ==
  /\ pc = "validity" \/ pc = "view"
  /\ views' = ViewOf(views, DataKey(new))
  /\ data' = IF data = NoView THEN views'.cache[DataKey(new)] ELSE data
  /\ bits' = generation
  /\ pc' = IF pc = "validity" THEN pc ELSE "fill"
  /\ UNCHANGED <<generation, mem, live, columns, new, back, scanning>>

TakeViews ==
  LET withData == ViewOf(views, DataKey(new)) IN
  /\ pc = "view"
  /\ views' = IF new.bits = Null THEN withData ELSE ViewOf(withData, BitsKey(new))
  /\ data' = withData.cache[DataKey(new)]
  /\ bits' = IF new.bits = Null THEN NoView ELSE views'.cache[BitsKey(new)]
  /\ pc' = "fill"
  /\ UNCHANGED <<generation, mem, live, columns, new, back, scanning>>

Fill ==
  LET withData == WriteThrough(mem, data, new.data, new.value) IN
  /\ pc = "fill"
  /\ mem' = IF new.bits = Null THEN withData
            ELSE WriteThrough(withData, bits, new.bits, new.value)
  /\ columns' = columns \cup {new}
  /\ new' = NoColumn /\ data' = NoView /\ bits' = NoView
  /\ pc' = (IF back = "agg_keys" THEN "agg_view" ELSE back) /\ back' = "idle"
  /\ parts' = IF back \in {"agg_parts", "rows"} THEN parts - 1 ELSE parts
  /\ owned' = IF back \in {"agg_keys", "agg_parts"} THEN owned \cup {new} ELSE owned
  /\ UNCHANGED <<generation, live, views, src, ids, held>>

-----------------------------------------------------------------------------
(* Reading, slicing and freeing a column.                                  *)

\* columnToArray.
ReadColumn(c) ==
  /\ pc = "idle"
  /\ views' = ViewColumn(views, c)
  /\ UNCHANGED <<generation, mem, live, columns, pc, building, back, scanning>>

\* A slice shares the buffers under keys of its own, which nothing forgets.
SliceOf(c) == [c EXCEPT !.kind = Sliced]

ReadSlice(c) ==
  /\ pc = "idle"
  /\ views' = ViewColumn(views, SliceOf(c))
  /\ UNCHANGED <<generation, mem, live, columns, pc, building, back, scanning>>

\* forget, for each key of ks.
Forget(vs, ks) ==
  [vs EXCEPT !.registry = @ \ ks,
             !.cache = [j \in DOMAIN vs.cache \ ks |-> vs.cache[j]]]

Buffers(c) == {c.data, c.bits} \ {Null}

KeysIn(cs) == UNION {{DataKey(c), BitsKey(c)} : c \in cs}
BuffersIn(cs) == UNION {Buffers(c) : c \in cs}

Cleared(ps) == [p \in DOMAIN mem |-> IF p \in ps THEN Junk ELSE mem[p]]

FreeColumn(c) ==
  /\ pc = "idle"
  /\ views' = Forget(views, {DataKey(c), BitsKey(c)})
  /\ live' = live \ Buffers(c)
  /\ mem' = Cleared(Buffers(c))
  /\ columns' = columns \ {c}
  /\ UNCHANGED <<generation, pc, building, back, scanning>>

-----------------------------------------------------------------------------
(* GroupBy.agg.                                                            *)

IdsKey == Key(ids, Ids)

\* computeGroups allocates the group ids (its other buffers are gone when it
\* returns).
AggCall(c, p, n) ==
  /\ pc = "idle" /\ Room >= 2 + n /\ Alloc(p)
  /\ src' = c /\ ids' = p /\ parts' = n
  /\ pc' = "agg_groups"
  /\ UNCHANGED <<mem, views, columns, building, back, held, owned>>

\* The kernel writes the ids; JS reads them for the first row of each group.
ComputeGroups ==
  /\ pc = "agg_groups"
  /\ mem' = [mem EXCEPT ![ids] = GroupIds]
  /\ views' = ViewOf(views, IdsKey)
  /\ pc' = "agg_keys"
  /\ UNCHANGED <<generation, live, columns, building, back, scanning>>

\* With the key columns gathered, agg takes one view of the ids for all the
\* plan entries that follow.
TakeIds ==
  /\ pc = "agg_view"
  /\ views' = ViewOf(views, IdsKey)
  /\ held' = views'.cache[IdsKey]
  /\ pc' = "agg_parts"
  /\ UNCHANGED <<generation, mem, live, columns, building, back, src, ids, parts, owned>>

\* Mutant: the columns made before the exception are not freed.
FinallyIdsOnly(dropped) ==
  /\ views' = Forget(views, {IdsKey})
  /\ live' = live \ {ids} /\ mem' = Cleared({ids})
  /\ columns' = columns \ dropped /\ owned' = {}
  /\ src' = NoColumn /\ ids' = Null /\ held' = NoView /\ pc' = "idle"
  /\ UNCHANGED <<generation, building, back, parts>>

\* The finally clause: the columns still owned and the group ids are freed.
Finally(dropped) ==
  /\ views' = Forget(views, KeysIn(dropped) \cup {IdsKey})
  /\ live' = live \ (BuffersIn(dropped) \cup {ids})
  /\ mem' = Cleared(BuffersIn(dropped) \cup {ids})
  /\ columns' = columns \ dropped /\ owned' = {}
  /\ src' = NoColumn /\ ids' = Null /\ held' = NoView /\ pc' = "idle"
  /\ UNCHANGED <<generation, building, back, parts>>

\* buildResult has given the columns to a frame: agg owns none any more.
AggEnd ==
  /\ pc = "agg_parts" /\ parts = 0
  /\ Finally({})

\* An exception: gathering a key, reducing a plan entry, or building the result.
AggThrows ==
  /\ pc \in {"agg_keys", "agg_parts"}
  /\ Finally(owned)

-----------------------------------------------------------------------------
(* mapFn and filterFn: a cursor whose views are taken once.                *)

MakeCursor(c) ==
  /\ pc = "idle"
  /\ views' = ViewColumn(views, c)
  /\ held' = views'.cache[DataKey(c)]
  /\ src' = c /\ parts' = MaxParts
  /\ pc' = "rows"
  /\ UNCHANGED <<generation, mem, live, columns, building, back, ids, owned>>

\* A row whose function allocates nothing; CreateColumn is one that does.
NextRow ==
  /\ pc = "rows" /\ parts > 0
  /\ parts' = parts - 1
  /\ UNCHANGED <<generation, mem, live, views, columns, pc, building, back, src, ids, held, owned>>

RowsEnd ==
  /\ pc = "rows" /\ parts = 0
  /\ src' = NoColumn /\ held' = NoView
  /\ pc' = "idle"
  /\ UNCHANGED <<generation, mem, live, views, columns, building, back, ids, parts, owned>>

-----------------------------------------------------------------------------
ViewsNext ==
  \/ TakeViews \/ Fill \/ ComputeGroups \/ TakeIds \/ AggEnd \/ AggThrows \/ NextRow \/ RowsEnd
  \/ \E p \in Ptrs \cup {Null} :
       \/ AllocValidity(p)
       \/ \E k \in Kinds, n \in BOOLEAN, v \in Values : CreateColumn(p, k, n, v)
       \/ \E c \in columns, n \in 1 .. MaxParts : AggCall(c, p, n)
  \/ \E c \in columns : ReadColumn(c) \/ ReadSlice(c) \/ FreeColumn(c) \/ MakeCursor(c)

ViewsSpec == ViewsInit /\ [][ViewsNext]_viewVars

-----------------------------------------------------------------------------
(* Properties.                                                             *)

Keys == (Ptrs \cup {Null}) \X (Kinds \cup {Bits, Sliced, Ids})
ColumnType ==
  [data : Ptrs \cup {Null}, bits : Ptrs \cup {Null}, kind : Kinds \cup {Ids},
   nulls : BOOLEAN, value : Values \cup {Junk}]

\* Every variable ranges over its type; what viewOf caches is registered.
ViewsTypeOK ==
  /\ generation \in 0 .. MaxGrows
  /\ mem \in [Ptrs \cup {Null} -> Values \cup {Junk, GroupIds}]
  /\ live \subseteq Ptrs
  /\ views.synced \in {NoView} \cup 0 .. MaxGrows
  /\ views.registry \subseteq Keys
  /\ DOMAIN views.cache \subseteq views.registry
  /\ columns \subseteq ColumnType /\ new \in ColumnType /\ src \in ColumnType
  /\ owned \subseteq ColumnType
  /\ data \in {NoView} \cup 0 .. MaxGrows /\ bits \in {NoView} \cup 0 .. MaxGrows
  /\ held \in {NoView} \cup 0 .. MaxGrows
  /\ ids \in Ptrs \cup {Null} /\ parts \in 0 .. MaxParts
  /\ pc \in {"idle", "validity", "view", "fill", "agg_groups", "agg_keys", "agg_view",
             "agg_parts", "rows"}
  /\ back \in {"idle", "agg_keys", "agg_parts", "rows"}

\* While the accessor is synced to the current generation, every view it can
\* hand out is over the current buffer; no cached view is ever newer than that.
CacheFresh ==
  /\ views.synced <= generation
  /\ \A k \in DOMAIN views.cache : views.cache[k] = views.synced

\* The accessor by itself: its cache is of one generation and within its registry.
AccessorInv == ViewsTypeOK /\ CacheFresh

\* What columnToArray would return for c now: values and nulls.
Read(c) ==
  LET vs == ViewColumn(views, c) IN
  <<ReadThrough(vs.cache[DataKey(c)], c.data),
    IF c.bits = Null THEN AllValid ELSE ReadThrough(vs.cache[BitsKey(c)], c.bits)>>

Written(c) == <<c.value, IF c.nulls THEN c.value ELSE AllValid>>

\* A column and its slices read back what was written, whatever grew, was freed,
\* was reused at the same address or was cached there in the meantime.
ColumnsReadBack ==
  \A c \in columns : Read(c) = Written(c) /\ Read(SliceOf(c)) = Written(c)

\* Between operations the buffers in use are those of the columns: agg gives
\* its group ids back, and no two columns share a buffer.
BuffersOwned ==
  /\ pc = "idle" => live = UNION {Buffers(c) : c \in columns}
  /\ \A c, d \in columns : c # d => Buffers(c) \cap Buffers(d) = {}

\* No column is made of a failed allocation: alloc's callers check for 0.
FailedAllocsNoticed == \A c \in columns : c.data \in Ptrs /\ (c.nulls => c.bits \in Ptrs)

\* What a view held over user code or an allocation shows is what is in memory:
\* the group ids whenever agg scans them, and the frame's values whenever the
\* user's function gets a row.
HeldViewsReadable ==
  /\ pc = "agg_parts" /\ parts > 0 => ReadThrough(held, ids) = GroupIds
  /\ pc = "rows" /\ parts > 0 => ReadThrough(held, src.data) = src.value
=============================================================================
