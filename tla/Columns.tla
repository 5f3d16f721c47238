------------------------------ MODULE Columns ------------------------------
(***************************************************************************)
(* A data frame as it is stored, and its operations as the code performs   *)
(* them on buffers: validity bitmaps read at the bit offset a slice leaves *)
(* behind, strings as slots of a dictionary, rows gathered by index.       *)
(*                                                                         *)
(* Buffers are values: no operation writes a buffer of its operands.  Who  *)
(* frees them is the subject of Frames and ExprRuntime, how the hash       *)
(* kernels group and match that of HashTable: equal keys, equal hashes.    *)
(***************************************************************************)
EXTENDS Arrow, Civil

CONSTANTS
  Requests, MaxOps, MaxRows,   \* as in Rows
  LeftFrames, RightFrames,     \* the frames a behaviour may start with
  Admitted                     \* the known deviations a run admits, see Admits

Deviations == {"sliced join", "empty right", "timestamp extreme"}
ASSUME AdmittedAssumption == Admitted \subseteq Deviations

VARIABLES
  frame,      \* [names, cols, length]
  right,      \* the right side of joins
  request, outcome, ops   \* as in Rows

vars == <<frame, right, request, outcome, ops>>

NoRequest == [op |-> "none"]

-----------------------------------------------------------------------------
(* Frames.                                                                 *)

Has(f, name) == name \in ToSet(f.names)
Place(f, name) == Max({p \in DOMAIN f.names : f.names[p] = name})
GetColumn(f, name) == f.cols[Place(f, name)]
DtypeOf(f, name) == GetColumn(f, name).dtype

\* The length of a result is that of its first column.
BuildResult(names, cols) == [names |-> names, cols |-> cols, length |-> cols[1].length]

EachColumn(f, Op(_), length) ==
  [names |-> f.names, cols |-> [p \in DOMAIN f.cols |-> Op(f.cols[p])], length |-> length]

SliceRange(f, start, end) ==
  LET s == Clamp(start, f.length)
      e == Max({s, Clamp(end, f.length)})
      Op(col) == SliceColumn(col, s, e) IN
  EachColumn(f, Op, e - s)

GatherRows(f, idx) == LET Op(col) == GatherColumn(col, idx) IN EachColumn(f, Op, Len(idx))

Entries(f, places) ==
  [names |-> [k \in DOMAIN places |-> f.names[places[k]]], cols |-> [k \in DOMAIN places |-> f.cols[places[k]]],
   length |-> f.length]

WithEntry(f, name, col) ==
  IF Has(f, name)
  THEN [f EXCEPT !.cols = [p \in DOMAIN f.names |-> IF f.names[p] = name THEN col ELSE f.cols[p]]]
  ELSE [f EXCEPT !.names = Append(@, name), !.cols = Append(@, col)]

-----------------------------------------------------------------------------
(* filter: a mask of the rows for which the predicate holds, and for which *)
(* it is not null.                                                         *)

\* A string is compared by its slot; one the dictionary lacks equals nothing.
Utf8Mask(col, cmp, lit) ==
  LET slot == IndexOf(col.dict, lit) IN
  IF slot >= 0 THEN Packed(col.length, {i \in RowsOfColumn(col) : Compare(cmp, Elem(col, i), slot)})
  ELSE [k \in 0 .. BytesFor(col.length) - 1 |-> IF cmp = "ne" THEN 0 .. 7 ELSE {}]

PredicateMask(col, cmp, lit) ==
  IF cmp = "true" THEN Packed(col.length, {i \in RowsOfColumn(col) : Elem(col, i) # 0})
  ELSE IF col.dtype = "utf8" THEN Utf8Mask(col, cmp, lit)
  ELSE Packed(col.length, {i \in RowsOfColumn(col) : Compare(cmp, Elem(col, i), lit)})

Effective(mask, vp, n) == IF vp = NullPtr THEN mask ELSE ValidityAnd(mask, vp, n)

\* The validity is dropped where no null is left.
Compact(col, mask, n) ==
  LET idx == FilterIndices(mask, n)
      kept == Filter(Data(col), mask, n)
      valid == {k \in 0 .. Len(idx) - 1 : GetBit(col, idx[k + 1])} IN
  Root(col.dtype, [k \in 0 .. Len(kept) - 1 |-> kept[k + 1]],
       IF col.vp = NullPtr \/ Cardinality(valid) = Len(idx) THEN NullPtr ELSE Packed(Len(idx), valid), Len(idx), col.dict)

CompileFilter(f, name, cmp, lit) ==
  LET col == GetColumn(f, name)
      mask == Effective(PredicateMask(col, cmp, lit), AlignValidity(col), f.length)
      Op(c) == Compact(c, mask, f.length) IN
  EachColumn(f, Op, Len(FilterIndices(mask, f.length)))

\* filterFn(row => row.name === null || row.name === lit): the cursor reads the
\* bitmap at the column's offset.
KeptByCursor(f, name, lit) ==
  LET Keep(i) == Cell(GetColumn(f, name), i) \in {Null, <<lit>>} IN
  SelectSeq([k \in 1 .. f.length |-> k - 1], Keep)

-----------------------------------------------------------------------------
(* withColumn.                                                             *)

\* Mutant: the string is not added to the dictionary.
FillNullUtf8KeepsDict(col, vp, string) ==
  LET found == IndexOf(col.dict, string)
      slot == IF found < 0 THEN Len(col.dict) ELSE found IN
  Root("utf8", [i \in RowsOfColumn(col) |-> IF Bit(vp, i) THEN Elem(col, i) ELSE slot], NullPtr, col.length, col.dict)

FillNullUtf8(col, vp, string) ==
  LET found == IndexOf(col.dict, string)
      dict == IF found < 0 THEN Append(col.dict, string) ELSE col.dict
      slot == IF found < 0 THEN Len(col.dict) ELSE found IN
  Root("utf8", [i \in RowsOfColumn(col) |-> IF Bit(vp, i) THEN Elem(col, i) ELSE slot], NullPtr, col.length, dict)

EvalFillNull(col, value) ==
  LET vp == AlignValidity(col) IN
  IF vp = NullPtr THEN Root(col.dtype, Data(col), NullPtr, col.length, col.dict)
  ELSE IF col.dtype = "utf8" THEN FillNullUtf8(col, vp, value)
  ELSE Root(col.dtype, FillNull(Column(Data(col), vp), value, col.length), NullPtr, col.length, << >>)

\* The first n letters, as in Rows.
Letters(string, n) == IF n = 0 THEN 0 ELSE IF n = 1 THEN string - (string % 10) ELSE string

\* Once for each string of the dictionary; equal results share a slot.  A slot
\* the dictionary lacks becomes 0.
EvalStrSlice(col, n) ==
  LET sliced == [k \in DOMAIN col.dict |-> Letters(col.dict[k], n)]
      dict == Interned(sliced)
      Remap(slot) == IF slot + 1 \in DOMAIN sliced THEN IndexOf(dict, sliced[slot + 1]) ELSE 0 IN
  Root("utf8", [i \in RowsOfColumn(col) |-> Remap(Elem(col, i))], AlignValidity(col), col.length, dict)

\* 0 under a null.
ExtractComponents(col, vp, c) ==
  LET Fields(v) == IF col.dtype = "date32" THEN Date32ToFields(v, c) ELSE TimestampUtcToFields(v, c) IN
  [i \in RowsOfColumn(col) |-> IF Bit(vp, i) THEN Fields(Elem(col, i)) ELSE 0]

\* The validity bitmap goes on as it is.
EvalDt(col, c) ==
  LET vp == AlignValidity(col) IN Root("i32", ExtractComponents(col, vp, c), vp, col.length, << >>)

\* A series of the frame's column realigns its bitmap for itself.
Shifted(col) == IF col.vp = NullPtr \/ col.off = 0 THEN col.vp ELSE Packed(col.length, ValidRows(col))

SeriesDt(col, c) ==
  LET vp == Shifted(col)
      data == ExtractComponents(col, vp, c) IN
  CreateColumn("i32", [k \in 1 .. col.length |-> IF Bit(vp, k - 1) THEN <<data[k - 1]>> ELSE Null])

SeriesStrSlice(col, n) ==
  LET sliced == [k \in DOMAIN col.dict |-> Letters(col.dict[k], n)] IN
  CreateColumn("utf8", [k \in 1 .. col.length |-> IF GetBit(col, k - 1) THEN <<sliced[Elem(col, k - 1) + 1]>> ELSE Null])

EvalIsNull(col) == Root("bool", IsNull(AlignValidity(col), col.length), NullPtr, col.length, << >>)

\* A column reference: a copy at bit offset 0.
EvalCol(col) == Root(col.dtype, Data(col), AlignValidity(col), col.length, col.dict)

-----------------------------------------------------------------------------
(* sortValues: the stable sort by one key after another, the last first.   *)

\* A string sorts by its rank among the strings of the dictionary.
Utf8Rank(col) ==
  LET rank == [k \in DOMAIN col.dict |->
                 Cardinality({m \in DOMAIN col.dict :
                   col.dict[m] < col.dict[k] \/ (col.dict[m] = col.dict[k] /\ m < k)})]
  IN [i \in RowsOfColumn(col) |-> IF Elem(col, i) + 1 \in DOMAIN rank THEN rank[Elem(col, i) + 1] ELSE 0]

KeyOrder(by) == Reverse(by)

SortPerm(f, by) ==
  LET ApplyKey(perm, key) ==
        LET col == GetColumn(f, key.name)
            data == IF col.dtype = "utf8" THEN Utf8Rank(col) ELSE Data(col) IN
        Argsort(Column(data, AlignValidity(col)), perm, key.descending)
  IN FoldLeft(ApplyKey, [k \in 1 .. f.length |-> k - 1], KeyOrder(by))

-----------------------------------------------------------------------------
(* groupby.                                                                *)

\* What a key column contributes to a row's hash: a string its slot.
KeyHash(col, vp, i) == IF Bit(vp, i) THEN <<Elem(col, i)>> ELSE Null

\* Ids in the order of first occurrence, and each group's first row.
ComputeGroups(f, keys) ==
  LET col == [k \in DOMAIN keys |-> GetColumn(f, keys[k])]
      vp == [k \in DOMAIN keys |-> AlignValidity(col[k])]
      hash == [i \in 0 .. f.length - 1 |-> [k \in DOMAIN keys |-> KeyHash(col[k], vp[k], i)]]
      Assign(firsts, i) == IF \E g \in DOMAIN firsts : hash[firsts[g]] = hash[i] THEN firsts ELSE Append(firsts, i)
      firstRow == FoldLeft(Assign, << >>, [k \in 1 .. f.length |-> k - 1])
  IN [firstRow |-> firstRow,
      ids |-> [i \in 0 .. f.length - 1 |-> CHOOSE g \in DOMAIN firstRow : hash[firstRow[g]] = hash[i]]]

GatherFirst(col, firstRow) == CreateColumn(col.dtype, [g \in DOMAIN firstRow |-> Cell(col, firstRow[g])])

\* One pass over the rows in order: Add(acc[g], i) for each of these rows, of group g.
Scatter(groups, rows, start, Add(_, _)) ==
  LET Step(acc, i) == [acc EXCEPT ![groups.ids[i]] = Add(@, i)]
      Chosen(i) == i \in rows
      order == SelectSeq([k \in 1 .. Cardinality(DOMAIN groups.ids) |-> k - 1], Chosen) IN
  FoldLeft(Step, [g \in DOMAIN groups.firstRow |-> start], order)

Counts(groups, rows) == LET Add(acc, i) == acc + 1 IN Scatter(groups, rows, 0, Add)

Sums(col, groups) ==
  LET Add(acc, i) == Plus(acc, Elem(col, i)) IN Scatter(groups, ValidRows(col), 0, Add)

\* A quotient of floats, rounded as in Rows.
Ratio(x, n) == IF Finite(x) THEN Quotient(x, n) ELSE x

ReduceMean(col, groups, counts) ==
  LET sums == Sums(col, groups) IN
  [g \in DOMAIN sums |-> IF counts[g] > 0 THEN <<Ratio(sums[g], counts[g])>> ELSE Null]

\* The mean first, and the squares in a second pass.
ReduceVar(col, groups, counts) ==
  LET sums == Sums(col, groups)
      Add(sse, i) == Plus(sse, SquaredDeviation(Elem(col, i), sums[groups.ids[i]], counts[groups.ids[i]]))
      sse == Scatter(groups, ValidRows(col), 0, Add)
      n(g) == counts[g] IN
  [g \in DOMAIN sse |-> IF n(g) < 2 THEN Null ELSE <<Ratio(sse[g], n(g) * n(g) * (n(g) - 1))>>]

\* NaN is passed over, and is the result of a group that has nothing else.
ReduceExtreme(col, groups, counts, least) ==
  LET Beats(v, w) == IF least THEN Below(v, w) ELSE Below(w, v)
      Add(ext, i) == IF ext = Null \/ Beats(Elem(col, i), ext[1]) THEN <<Elem(col, i)>> ELSE ext
      ext == Scatter(groups, {i \in ValidRows(col) : Elem(col, i) # NaN}, Null, Add) IN
  [g \in DOMAIN ext |-> IF counts[g] > 0 /\ ext[g] = Null THEN <<NaN>> ELSE ext[g]]

\* Of the stored elements: the slots of a string column.
ReduceNunique(col, groups) ==
  LET Add(seen, i) == seen \cup {Elem(col, i)}
      sets == Scatter(groups, ValidRows(col), {}, Add) IN
  [g \in DOMAIN sets |-> <<Cardinality(sets[g])>>]

ReduceFirstLast(col, groups, wantFirst) ==
  LET Add(chosen, i) == IF wantFirst /\ chosen # -1 THEN chosen ELSE i
      chosen == Scatter(groups, ValidRows(col), -1, Add) IN
  [g \in DOMAIN chosen |-> IF chosen[g] = -1 THEN Null ELSE Cell(col, chosen[g])]

ReduceSum(col, groups) ==
  LET sums == Sums(col, groups) IN
  [g \in DOMAIN sums |-> <<IF col.dtype = "i64" THEN WrapSigned(2 * Width, sums[g]) ELSE sums[g]>>]

AggDtype(agg, dtype) ==
  CASE agg \in {"size", "count", "nunique"} -> "i32"
    [] agg = "sum" -> IF dtype \in {"i32", "u32"} THEN "f64" ELSE dtype
    [] agg \in {"mean", "var"} -> "f64"
    [] agg \in {"min", "max", "first", "last"} -> dtype

ScatterReduce(agg, col, groups) ==
  LET counts == Counts(groups, ValidRows(col))
      sizes == Counts(groups, RowsOfColumn(col)) IN
  CreateColumn(AggDtype(agg, col.dtype),
    CASE agg = "size" -> [g \in DOMAIN sizes |-> <<sizes[g]>>]
      [] agg = "count" -> [g \in DOMAIN counts |-> <<counts[g]>>]
      [] agg = "nunique" -> ReduceNunique(col, groups)
      [] agg \in {"first", "last"} -> ReduceFirstLast(col, groups, agg = "first")
      [] agg = "var" -> ReduceVar(col, groups, counts)
      [] agg = "sum" -> ReduceSum(col, groups)
      [] agg = "mean" -> ReduceMean(col, groups, counts)
      [] agg = "min" -> ReduceExtreme(col, groups, counts, TRUE)
      [] agg = "max" -> ReduceExtreme(col, groups, counts, FALSE))

\* size needs no operand; an expression is evaluated into a column of its own.
Operand(f, keys, out) ==
  IF out.agg = "size" THEN GetColumn(f, keys[1])
  ELSE IF out.via = "expr" THEN EvalCol(GetColumn(f, out.name))
  ELSE GetColumn(f, out.name)

AggFrame(f, keys, outs) ==
  LET groups == ComputeGroups(f, keys) IN
  BuildResult(keys \o [a \in DOMAIN outs |-> outs[a].as],
              [k \in DOMAIN keys |-> GatherFirst(GetColumn(f, keys[k]), groups.firstRow)]
              \o [a \in DOMAIN outs |-> ScatterReduce(outs[a].agg, Operand(f, keys, outs[a]), groups)])

-----------------------------------------------------------------------------
(* join.                                                                   *)

\* A string key is the hash of its letters, looked up by the row's slot.
HashUtf8RowHashes(col, i) ==
  IF Elem(col, i) + 1 \in DOMAIN col.dict THEN DecodeSlot(col, Elem(col, i)) ELSE Unwritten

PrepareKey(col, i) == IF col.dtype = "utf8" THEN HashUtf8RowHashes(col, i) ELSE Elem(col, i)
CombinedHash(cols, i) == [k \in DOMAIN cols |-> PrepareKey(cols[k], i)]

\* A row takes part if no key of it is null.
CombinedValidity(cols, n) ==
  LET nullable == {k \in DOMAIN cols : cols[k].vp # NullPtr}
      valid == {i \in 0 .. n - 1 : \A k \in nullable : GetBit(cols[k], i)} IN
  IF nullable = {} THEN NullPtr ELSE Packed(n, valid)

\* The pairs of rows of the hash kernels: left rows in order, each with the right
\* rows in order; an unmatched left row has -1.
JoinHash(l, r, on, how) ==
  LET lcols == [k \in DOMAIN on |-> GetColumn(l, on[k])]
      rcols == [k \in DOMAIN on |-> GetColumn(r, on[k])]
      lvp == CombinedValidity(lcols, l.length)
      rvp == CombinedValidity(rcols, r.length)
      Meets(i) == LET Same(j) == Bit(rvp, j) /\ CombinedHash(lcols, i) = CombinedHash(rcols, j) IN
                  IF Bit(lvp, i) THEN SelectSeq([k \in 1 .. r.length |-> k - 1], Same) ELSE << >>
      Pairs(i) == IF Meets(i) = << >> /\ how = "left" THEN << <<i, -1>> >>
                  ELSE [k \in DOMAIN Meets(i) |-> <<i, Meets(i)[k]>>] IN
  FlattenSeq([i \in 1 .. l.length |-> Pairs(i - 1)])

BuildNullMask(rIdx) ==
  LET matched == {k \in 0 .. Len(rIdx) - 1 : rIdx[k + 1] >= 0} IN
  IF Cardinality(matched) = Len(rIdx) THEN NullPtr ELSE Packed(Len(rIdx), matched)

\* The source's bitmap goes to the kernel as it is: its bit offset is not used.
BuildGatherValidity(col, idx, nullMask) ==
  IF col.vp = NullPtr THEN nullMask
  ELSE LET gathered == GatherValidity(col.vp, idx, Blank(Len(idx))) IN
       IF nullMask = NullPtr THEN gathered ELSE ValidityAnd(nullMask, gathered, Len(idx))

GatherWasm(col, idx, nullMask) ==
  Root(col.dtype, [k \in 0 .. Len(idx) - 1 |-> Elem(col, idx[k + 1])],
       BuildGatherValidity(col, idx, nullMask), Len(idx), col.dict)

AssembleOutput(l, r, on, pairs) ==
  LET lIdx == [k \in DOMAIN pairs |-> pairs[k][1]]
      rIdx == [k \in DOMAIN pairs |-> pairs[k][2]]
      rIdxSafe == [k \in DOMAIN pairs |-> Max({0, rIdx[k]})]
      taken == SelectSeq(r.names, LAMBDA name : name \notin ToSet(on)) IN
  BuildResult(l.names \o [p \in DOMAIN taken |-> IF Has(l, taken[p]) THEN taken[p] \o "_right" ELSE taken[p]],
              [p \in DOMAIN l.names |-> GatherWasm(GetColumn(l, l.names[p]), lIdx, NullPtr)]
              \o [p \in DOMAIN taken |-> GatherWasm(GetColumn(r, taken[p]), rIdxSafe, BuildNullMask(rIdx))])

\* The inputs for which the code is known to deviate from Rows.
IsSliced(f) == \E p \in DOMAIN f.cols : f.cols[p].vp # NullPtr /\ f.cols[p].off > 0
Admits(l, r, how) ==
  /\ IsSliced(l) \/ IsSliced(r) => "sliced join" \in Admitted
  /\ r.length = 0 /\ how = "left" => "empty right" \in Admitted

-----------------------------------------------------------------------------
(* Operations.  One that is not accepted throws before it changes anything. *)

Numbers == {"f64", "f32", "i32", "u32", "i64"}
Temporal == {"date32", "timestamp"}
FitsLiteral(dtype, of) == IF of = "string" THEN dtype = "utf8" ELSE dtype \in Numbers \cup Temporal
Aggregates(agg, dtype) ==
  \/ agg = "count"
  \/ dtype \in Numbers
  \/ dtype = "utf8" /\ agg \in {"nunique", "first", "last"}
  \/ dtype \in Temporal /\ agg \in {"nunique", "first", "last", "min", "max"}
ResolveDt(dtype) == dtype \in Temporal
SeriesDtAllows(dtype, c) == dtype = "timestamp" \/ (dtype = "date32" /\ c \notin TimeOfDay)

\* An operation's outcome: its result, or an exception.
Performed(r, accepted, result) ==
  /\ ops < MaxOps
  /\ request' = r
  /\ frame' = (IF accepted THEN result ELSE frame)
  /\ outcome' = (IF accepted THEN "ok" ELSE "thrown")
  /\ frame'.length <= MaxRows
  /\ ops' = ops + 1
  /\ UNCHANGED right

Slice(r) == r.op = "slice" /\ Performed(r, TRUE, SliceRange(frame, r.from, r.to))
TailRows(r) == r.op = "tail" /\ Performed(r, TRUE, SliceRange(frame, Max({0, frame.length - r.n}), frame.length))

FilterRows(r) ==
  /\ r.op = "filter"
  /\ Performed(r, /\ Has(frame, r.name)
                  /\ IF r.cmp = "true" THEN DtypeOf(frame, r.name) = "bool"
                     ELSE /\ FitsLiteral(DtypeOf(frame, r.name), r.of)
                          /\ DtypeOf(frame, r.name) = "utf8" => r.cmp \in {"eq", "ne"},
                  CompileFilter(frame, r.name, r.cmp, r.lit))

FilterFn(r) ==
  /\ r.op = "filterFn"
  /\ Performed(r, Has(frame, r.name), GatherRows(frame, KeptByCursor(frame, r.name, r.lit)))

SortValues(r) ==
  /\ r.op = "sort"
  /\ Performed(r, \A k \in DOMAIN r.by : Has(frame, r.by[k].name), GatherRows(frame, SortPerm(frame, r.by)))

SelectColumns(r) ==
  /\ r.op = "select"
  /\ Performed(r, \A k \in DOMAIN r.names : Has(frame, r.names[k]),
               Entries(frame, [k \in DOMAIN r.names |-> Place(frame, r.names[k])]))

\* The columns that stay are looked up by name.
DropColumns(r) ==
  LET keep == SelectSeq(frame.names, LAMBDA name : name \notin ToSet(r.names)) IN
  /\ r.op = "drop"
  /\ Performed(r, \A k \in DOMAIN r.names : Has(frame, r.names[k]),
               Entries(frame, [k \in DOMAIN keep |-> Place(frame, keep[k])]))

WithFillNull(r) ==
  /\ r.op = "fillNull"
  /\ Performed(r, Has(frame, r.name) /\ FitsLiteral(DtypeOf(frame, r.name), r.of),
               WithEntry(frame, r.as, EvalFillNull(GetColumn(frame, r.name), r.lit)))

WithStrSlice(r) ==
  /\ r.op = "strSlice"
  /\ Performed(r, Has(frame, r.name) /\ DtypeOf(frame, r.name) = "utf8",
               WithEntry(frame, r.as, EvalStrSlice(GetColumn(frame, r.name), r.n)))

WithIsNull(r) ==
  /\ r.op = "isNull"
  /\ Performed(r, Has(frame, r.name), WithEntry(frame, r.as, EvalIsNull(GetColumn(frame, r.name))))

WithValues(r) ==
  /\ r.op = "assign"
  /\ Performed(r, Len(r.cells) = frame.length, WithEntry(frame, r.as, CreateColumn(r.dtype, r.cells)))

WithSeriesStr(r) ==
  /\ r.op = "seriesStr"
  /\ Performed(r, Has(frame, r.name) /\ DtypeOf(frame, r.name) = "utf8",
               WithEntry(frame, r.as, SeriesStrSlice(GetColumn(frame, r.name), r.n)))

WithDt(r) ==
  /\ r.op = "dt"
  /\ Performed(r, Has(frame, r.name) /\ ResolveDt(DtypeOf(frame, r.name)),
               WithEntry(frame, r.as, EvalDt(GetColumn(frame, r.name), r.c)))

WithSeriesDt(r) ==
  /\ r.op = "seriesDt"
  /\ Performed(r, Has(frame, r.name) /\ SeriesDtAllows(DtypeOf(frame, r.name), r.c),
               WithEntry(frame, r.as, SeriesDt(GetColumn(frame, r.name), r.c)))

\* fromArrow(toArrow(frame)), and fromArrow of another program's stream.
ArrowRoundTrip(r) ==
  LET received == Received(ToArrow(frame.names, [p \in DOMAIN frame.names |-> GetColumn(frame, frame.names[p])])) IN
  /\ r.op = "arrow"
  /\ Performed(r, Readable(received), FromArrow(received))

ReadArrow(r) ==
  LET received == Received(ForeignStream(r.fields, r.n)) IN
  /\ r.op = "fromArrow"
  /\ Performed(r, Readable(received), FromArrow(received))

\* The least or greatest of timestamps, bigints, is put into an array of floats.
ExtremeThrows(out) ==
  /\ out.agg \in {"min", "max"} /\ Has(frame, out.name) /\ DtypeOf(frame, out.name) = "timestamp"
  /\ ValidRows(GetColumn(frame, out.name)) # {}

GroupByAgg(r) ==
  /\ r.op = "agg"
  /\ (\E a \in DOMAIN r.outs : ExtremeThrows(r.outs[a])) => "timestamp extreme" \in Admitted
  /\ Performed(r, /\ \A a \in DOMAIN r.outs : ~ExtremeThrows(r.outs[a])
                  /\ \A k \in DOMAIN r.keys : Has(frame, r.keys[k])
                  /\ \A a \in DOMAIN r.outs :
                       \/ r.outs[a].agg = "size"
                       \/ Has(frame, r.outs[a].name) /\ Aggregates(r.outs[a].agg, DtypeOf(frame, r.outs[a].name)),
                  AggFrame(frame, r.keys, r.outs))

JoinFrames(r) ==
  /\ r.op = "join"
  /\ Admits(frame, right, r.how)
  /\ Performed(r, \A k \in DOMAIN r.on :
                    Has(frame, r.on[k]) /\ Has(right, r.on[k]) /\ DtypeOf(frame, r.on[k]) = DtypeOf(right, r.on[k]),
               AssembleOutput(frame, right, r.on, JoinHash(frame, right, r.on, r.how)))

Init ==
  /\ frame \in LeftFrames
  /\ right \in RightFrames
  /\ request = NoRequest
  /\ outcome = "ok"
  /\ ops = 0

Next ==
  \E r \in Requests :
    \/ Slice(r) \/ TailRows(r) \/ FilterRows(r) \/ FilterFn(r) \/ SortValues(r) \/ SelectColumns(r) \/ DropColumns(r)
    \/ WithFillNull(r) \/ WithStrSlice(r) \/ WithSeriesStr(r) \/ WithIsNull(r) \/ WithValues(r)
    \/ WithDt(r) \/ WithSeriesDt(r) \/ ArrowRoundTrip(r) \/ ReadArrow(r)
    \/ GroupByAgg(r) \/ JoinFrames(r)

Spec == Init /\ [][Next]_vars

-----------------------------------------------------------------------------
(* Properties.                                                             *)

\* The table a stored frame stands for.
Table(f) ==
  [names |-> f.names, dtypes |-> [p \in DOMAIN f.cols |-> f.cols[p].dtype],
   rows |-> [i \in 1 .. f.length |-> [p \in DOMAIN f.cols |-> ColumnToArray(f.cols[p])[i]]]]

R == INSTANCE Rows WITH table <- Table(frame), other <- Table(right)

\* Whatever the operations so far have left of bit offsets, shared bitmaps, slots
\* and padding (gather.ts, compile.ts, groupby.ts, join.ts), each next one gives
\* the rows that its definition on rows gives.
ImplementsRows == R!Spec

\* The slot of every row, a null one too, is a slot of its dictionary: a join
\* gathers the hashes of all of them unchecked (join.ts, hashUtf8RowHashes).
SlotsReadable ==
  \A p \in DOMAIN frame.cols :
    LET col == frame.cols[p] IN
    col.dtype = "utf8" /\ Len(col.dict) > 0 => \A i \in RowsOfColumn(col) : Elem(col, i) + 1 \in DOMAIN col.dict
=============================================================================
