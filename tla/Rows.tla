-------------------------------- MODULE Rows --------------------------------
(***************************************************************************)
(* What a data frame promises: a table of rows, and operations that are    *)
(* defined row by row.  A cell is a null or a value; columns, bitmaps,     *)
(* dictionaries and offsets do not exist here.  Columns implements it.     *)
(*                                                                         *)
(* A string has at most two letters: it is the number 10 * first + second, *)
(* 0 for no letter, so that strings compare as these numbers do.           *)
(***************************************************************************)
EXTENDS Scalars, Calendar, SequencesExt

CONSTANTS
  Requests,   \* records with a field op, and those that operation reads
  MaxOps,     \* bound: operations of a behaviour
  MaxRows     \* bound: rows of a table

VARIABLES
  table,      \* [names, dtypes, rows]: the frame operated upon
  other,      \* the right side of its joins
  request,    \* the last operation asked for
  outcome,    \* "ok", or "thrown" by it
  ops         \* operations so far

vars == <<table, other, request, outcome, ops>>

Null == << >>
Numbers == {"f64", "f32", "i32", "u32", "i64"}
Temporal == {"date32", "timestamp"}
NoRequest == [op |-> "none"]

Has(t, name) == name \in ToSet(t.names)
\* A name stands for the last column that has it.
Place(t, name) == Max({p \in DOMAIN t.names : t.names[p] = name})
DtypeOf(t, name) == t.dtypes[Place(t, name)]
CellOf(t, i, name) == t.rows[i][Place(t, name)]

Clamp(n, limit) == Max({0, Min({n, limit})})

\* NaN is the largest float.
Less(v, w) == (w = NaN /\ v # NaN) \/ Below(v, w)

\* The first n letters.
Letters(string, n) == IF n = 0 THEN 0 ELSE IF n = 1 THEN string - (string % 10) ELSE string

WithRows(t, rows) == [t EXCEPT !.rows = rows]

-----------------------------------------------------------------------------
(* Rows kept, dropped and reordered.                                       *)

Slice(t, from, to) == WithRows(t, SubSeq(t.rows, Clamp(from, Len(t.rows)) + 1, Clamp(to, Len(t.rows))))

Holds(cell, cmp, lit) ==
  /\ cell # Null
  /\ CASE cmp = "eq" -> cell[1] = lit
       [] cmp = "ne" -> cell[1] # lit
       [] cmp = "gt" -> Below(lit, cell[1])
       [] cmp = "true" -> cell[1] = 1

Filter(t, name, cmp, lit) ==
  LET Kept(row) == Holds(row[Place(t, name)], cmp, lit) IN WithRows(t, SelectSeq(t.rows, Kept))

\* filterFn(row => row.name === null || row.name === lit)
FilterFn(t, name, lit) ==
  LET Kept(row) == row[Place(t, name)] \in {Null, <<lit>>} IN WithRows(t, SelectSeq(t.rows, Kept))

\* Nulls are last in both directions.
Ahead(a, b, descending) ==
  a # Null /\ (b # Null => IF descending THEN Less(b[1], a[1]) ELSE Less(a[1], b[1]))

\* The first key that tells two rows apart decides, then their order.
SortValues(t, by) ==
  LET KeyAhead(k, i, j) == Ahead(CellOf(t, i, by[k].name), CellOf(t, j, by[k].name), by[k].descending)
      Decides(k, i, j) == KeyAhead(k, i, j) \/ KeyAhead(k, j, i)
      Before(i, j) == \/ \E k \in DOMAIN by : KeyAhead(k, i, j) /\ \A m \in 1 .. k - 1 : ~Decides(m, i, j)
                      \/ i < j /\ \A k \in DOMAIN by : ~Decides(k, i, j)
      rank == [i \in DOMAIN t.rows |-> 1 + Cardinality({j \in DOMAIN t.rows : Before(j, i)})]
  IN WithRows(t, [p \in DOMAIN t.rows |-> t.rows[CHOOSE i \in DOMAIN t.rows : rank[i] = p]])

-----------------------------------------------------------------------------
(* Columns kept, dropped and added.                                        *)

Project(t, places) ==
  [names |-> [p \in DOMAIN places |-> t.names[places[p]]],
   dtypes |-> [p \in DOMAIN places |-> t.dtypes[places[p]]],
   rows |-> [i \in DOMAIN t.rows |-> [p \in DOMAIN places |-> t.rows[i][places[p]]]]]

Select(t, names) == Project(t, [k \in DOMAIN names |-> Place(t, names[k])])

\* The columns that stay are picked by name.
Drop(t, names) ==
  LET Stays(name) == name \notin ToSet(names) IN Select(t, SelectSeq(t.names, Stays))

\* Cell(i) is the new cell of row i.
WithColumn(t, name, dtype, Cell(_)) ==
  IF Has(t, name)
  THEN [t EXCEPT !.dtypes = [p \in DOMAIN t.names |-> IF t.names[p] = name THEN dtype ELSE t.dtypes[p]],
                 !.rows = [i \in DOMAIN t.rows |->
                             [p \in DOMAIN t.names |-> IF t.names[p] = name THEN Cell(i) ELSE t.rows[i][p]]]]
  ELSE [names |-> Append(t.names, name), dtypes |-> Append(t.dtypes, dtype),
        rows |-> [i \in DOMAIN t.rows |-> Append(t.rows[i], Cell(i))]]

FillNull(t, as, name, value) ==
  LET Cell(i) == IF CellOf(t, i, name) = Null THEN <<value>> ELSE CellOf(t, i, name) IN
  WithColumn(t, as, DtypeOf(t, name), Cell)

StrSlice(t, as, name, n) ==
  LET Cell(i) == IF CellOf(t, i, name) = Null THEN Null ELSE <<Letters(CellOf(t, i, name)[1], n)>> IN
  WithColumn(t, as, "utf8", Cell)

IsNull(t, as, name) ==
  LET Cell(i) == IF CellOf(t, i, name) = Null THEN <<1>> ELSE <<0>> IN WithColumn(t, as, "bool", Cell)

Assign(t, as, dtype, cells) ==
  LET Cell(i) == cells[i] IN WithColumn(t, as, dtype, Cell)

\* The field c of dates and instants.
Dt(t, as, name, c) ==
  LET Field(v) == IF DtypeOf(t, name) = "date32" THEN DayField(v, c) ELSE InstantField(v, c)
      Cell(i) == IF CellOf(t, i, name) = Null THEN Null ELSE <<Field(CellOf(t, i, name)[1])>> IN
  WithColumn(t, as, "i32", Cell)

-----------------------------------------------------------------------------
(* Arrow: a frame is what its stream says, a stream of another program what *)
(* its fields say, their instants in milliseconds.                         *)

MsOf(v, unit) ==
  CASE unit = "Timestamp(s)" -> IF v * 1000 \in Signed(2 * Width) THEN <<v * 1000>> ELSE Null
    [] unit = "Timestamp(ms)" -> <<v>>
    [] unit = "Timestamp(us)" -> <<Quotient(v, 1000)>>
    [] unit = "Timestamp(ns)" -> <<Quotient(v, 1000000)>>

ArrowDtypes ==
  [type \in {"Float64", "Float32", "Int32", "UInt32", "Int64", "Bool", "Utf8", "Date32"} |->
     CASE type = "Float64" -> "f64" [] type = "Float32" -> "f32" [] type = "Int32" -> "i32" [] type = "UInt32" -> "u32"
       [] type = "Int64" -> "i64" [] type = "Bool" -> "bool" [] type = "Utf8" -> "utf8" [] type = "Date32" -> "date32"]

Instants == {"Timestamp(s)", "Timestamp(ms)", "Timestamp(us)", "Timestamp(ns)"}

FromArrow(fields, n) ==
  LET Meaning(f, cell) == IF cell = Null \/ f.type \notin Instants THEN cell ELSE MsOf(cell[1], f.type) IN
  [names |-> [p \in DOMAIN fields |-> fields[p].name],
   dtypes |-> [p \in DOMAIN fields |-> IF fields[p].type \in Instants THEN "timestamp" ELSE ArrowDtypes[fields[p].type]],
   rows |-> [i \in 1 .. n |-> [p \in DOMAIN fields |-> Meaning(fields[p], fields[p].cells[i])]]]

-----------------------------------------------------------------------------
(* groupby(keys).agg(outs): one row for each value of the keys, null among *)
(* them, in the order they first occur.                                    *)

KeyOf(t, i, keys) == [k \in DOMAIN keys |-> CellOf(t, i, keys[k])]

FirstRows(t, keys) ==
  LET First(i) == \A j \in 1 .. i - 1 : KeyOf(t, j, keys) # KeyOf(t, i, keys) IN
  SelectSeq([i \in DOMAIN t.rows |-> i], First)

\* A quotient of floats, rounded in the model's unit.
Ratio(x, n) == IF Finite(x) THEN Quotient(x, n) ELSE x

Total(dtype, values) ==
  LET Add(x, y) == IF dtype = "i64" THEN WrapSigned(2 * Width, x + y) ELSE Plus(x, y) IN FoldLeft(Add, 0, values)

Extreme(values, Beats(_, _)) ==
  LET numbers == ToSet(values) \ {NaN} IN
  IF numbers = {} THEN NaN ELSE CHOOSE v \in numbers : \A w \in numbers : ~Beats(w, v)

Variance(values) ==
  LET n == Len(values)
      total == FoldLeft(Plus, 0, values)
      Add(sse, x) == Plus(sse, SquaredDeviation(x, total, n)) IN
  Ratio(FoldLeft(Add, 0, values), n * n * (n - 1))

\* Of the cells of one group; empty says what an operation without values gives.
Aggregate(agg, dtype, cells) ==
  LET NotNull(cell) == cell # Null
      valid == SelectSeq(cells, NotNull)
      values == [k \in DOMAIN valid |-> valid[k][1]]
      n == Len(values)
      Smaller(v, w) == Below(v, w)
      Larger(v, w) == Below(w, v) IN
  CASE agg = "size" -> <<Len(cells)>>
    [] agg = "count" -> <<n>>
    [] agg = "nunique" -> <<Cardinality(ToSet(values))>>
    [] agg = "sum" -> <<Total(dtype, values)>>
    [] agg = "mean" /\ n > 0 -> <<Ratio(FoldLeft(Plus, 0, values), n)>>
    [] agg = "min" /\ n > 0 -> <<Extreme(values, Smaller)>>
    [] agg = "max" /\ n > 0 -> <<Extreme(values, Larger)>>
    [] agg = "first" /\ n > 0 -> <<values[1]>>
    [] agg = "last" /\ n > 0 -> <<values[n]>>
    [] agg = "var" /\ n > 1 -> <<Variance(values)>>
    [] OTHER -> Null

AggDtype(agg, dtype) ==
  CASE agg \in {"size", "count", "nunique"} -> "i32"
    [] agg = "sum" -> IF dtype \in {"i32", "u32"} THEN "f64" ELSE dtype
    [] agg \in {"mean", "var"} -> "f64"
    [] agg \in {"min", "max", "first", "last"} -> dtype

Agg(t, keys, outs) ==
  LET firsts == FirstRows(t, keys)
      Members(g) == SelectSeq([i \in DOMAIN t.rows |-> i], LAMBDA i : KeyOf(t, i, keys) = KeyOf(t, firsts[g], keys))
      Cells(g, name) == [m \in DOMAIN Members(g) |-> CellOf(t, Members(g)[m], name)]
      Source(out) == IF out.agg = "size" THEN keys[1] ELSE out.name IN   \* size reads no column
  [names |-> keys \o [a \in DOMAIN outs |-> outs[a].as],
   dtypes |-> [k \in DOMAIN keys |-> DtypeOf(t, keys[k])]
              \o [a \in DOMAIN outs |-> AggDtype(outs[a].agg, DtypeOf(t, Source(outs[a])))],
   rows |-> [g \in DOMAIN firsts |->
               KeyOf(t, firsts[g], keys)
               \o [a \in DOMAIN outs |->
                     Aggregate(outs[a].agg, DtypeOf(t, Source(outs[a])), Cells(g, Source(outs[a])))]]]

-----------------------------------------------------------------------------
(* An equijoin: a null key meets nothing.                                  *)

Matches(l, r, i, on) ==
  LET Meets(j) == \A k \in DOMAIN on : CellOf(l, i, on[k]) # Null /\ CellOf(l, i, on[k]) = CellOf(r, j, on[k]) IN
  SelectSeq([j \in DOMAIN r.rows |-> j], Meets)

Join(l, r, on, how) ==
  LET IsKey(name) == name \in ToSet(on)
      taken == SelectSeq(r.names, LAMBDA name : ~IsKey(name))
      LeftPart(i) == [p \in DOMAIN l.names |-> CellOf(l, i, l.names[p])]
      RightPart(j) == [p \in DOMAIN taken |-> CellOf(r, j, taken[p])]
      Joined(i) ==
        LET m == Matches(l, r, i, on) IN
        IF m = << >>
        THEN IF how = "left" THEN << LeftPart(i) \o [p \in DOMAIN taken |-> Null] >> ELSE << >>
        ELSE [k \in DOMAIN m |-> LeftPart(i) \o RightPart(m[k])] IN
  [names |-> l.names \o [p \in DOMAIN taken |-> IF Has(l, taken[p]) THEN taken[p] \o "_right" ELSE taken[p]],
   dtypes |-> [p \in DOMAIN l.names |-> DtypeOf(l, l.names[p])] \o [p \in DOMAIN taken |-> DtypeOf(r, taken[p])],
   rows |-> FlattenSeq([i \in DOMAIN l.rows |-> Joined(i)])]

-----------------------------------------------------------------------------
(* The frame and its operations.                                           *)

\* The dtypes an aggregation accepts.
Aggregates(agg, dtype) ==
  \/ agg = "count"
  \/ dtype \in Numbers
  \/ dtype = "utf8" /\ agg \in {"nunique", "first", "last"}
  \/ dtype \in Temporal /\ agg \in {"nunique", "first", "last", "min", "max"}

\* A number is compared with a date as days, with a timestamp as milliseconds.
FitsLiteral(dtype, of) == IF of = "string" THEN dtype = "utf8" ELSE dtype \in Numbers \cup Temporal

\* Whether the operation is one the frame accepts; it throws otherwise.
Accepts(t, o, r) ==
  CASE r.op \in {"slice", "tail", "arrow"} -> TRUE
    [] r.op = "dt" -> Has(t, r.name) /\ DtypeOf(t, r.name) \in Temporal
    [] r.op = "seriesDt" -> /\ Has(t, r.name)
                            /\ \/ DtypeOf(t, r.name) = "timestamp"
                               \/ /\ DtypeOf(t, r.name) = "date32"
                                  /\ r.c \notin Clock   \* though dt accepts them
    [] r.op = "fromArrow" -> \A p \in DOMAIN r.fields : r.fields[p].type \in Instants \cup DOMAIN ArrowDtypes
    [] r.op = "filter" -> Has(t, r.name) /\ IF r.cmp = "true" THEN DtypeOf(t, r.name) = "bool"
                                            ELSE /\ FitsLiteral(DtypeOf(t, r.name), r.of)
                                                 /\ DtypeOf(t, r.name) = "utf8" => r.cmp \in {"eq", "ne"}
    [] r.op \in {"filterFn", "isNull"} -> Has(t, r.name)
    [] r.op = "fillNull" -> Has(t, r.name) /\ FitsLiteral(DtypeOf(t, r.name), r.of)
    [] r.op \in {"strSlice", "seriesStr"} -> Has(t, r.name) /\ DtypeOf(t, r.name) = "utf8"
    [] r.op = "assign" -> Len(r.cells) = Len(t.rows)
    [] r.op = "sort" -> \A k \in DOMAIN r.by : Has(t, r.by[k].name)
    [] r.op \in {"select", "drop"} -> \A k \in DOMAIN r.names : Has(t, r.names[k])
    [] r.op = "agg" -> /\ \A k \in DOMAIN r.keys : Has(t, r.keys[k])
                       /\ \A a \in DOMAIN r.outs :
                            \/ r.outs[a].agg = "size"
                            \/ Has(t, r.outs[a].name) /\ Aggregates(r.outs[a].agg, DtypeOf(t, r.outs[a].name))
    [] r.op = "join" -> \A k \in DOMAIN r.on :
                          Has(t, r.on[k]) /\ Has(o, r.on[k]) /\ DtypeOf(t, r.on[k]) = DtypeOf(o, r.on[k])

Result(t, o, r) ==
  CASE r.op = "slice" -> Slice(t, r.from, r.to)
    [] r.op = "tail" -> Slice(t, Len(t.rows) - r.n, Len(t.rows))
    [] r.op = "filter" -> Filter(t, r.name, r.cmp, r.lit)
    [] r.op = "filterFn" -> FilterFn(t, r.name, r.lit)
    [] r.op = "sort" -> SortValues(t, r.by)
    [] r.op = "select" -> Select(t, r.names)
    [] r.op = "drop" -> Drop(t, r.names)
    [] r.op = "fillNull" -> FillNull(t, r.as, r.name, r.lit)
    [] r.op \in {"strSlice", "seriesStr"} -> StrSlice(t, r.as, r.name, r.n)
    [] r.op = "isNull" -> IsNull(t, r.as, r.name)
    [] r.op \in {"dt", "seriesDt"} -> Dt(t, r.as, r.name, r.c)
    [] r.op = "arrow" -> Select(t, t.names)
    [] r.op = "fromArrow" -> FromArrow(r.fields, r.n)
    [] r.op = "assign" -> Assign(t, r.as, r.dtype, r.cells)
    [] r.op = "agg" -> Agg(t, r.keys, r.outs)
    [] r.op = "join" -> Join(t, o, r.on, r.how)

Perform(r) ==
  /\ ops < MaxOps
  /\ request' = r
  /\ IF Accepts(table, other, r)
     THEN table' = Result(table, other, r) /\ outcome' = "ok"
     ELSE table' = table /\ outcome' = "thrown"
  /\ Len(table'.rows) <= MaxRows
  /\ ops' = ops + 1
  /\ UNCHANGED other

Init ==
  /\ table \in [names : Seq(STRING), dtypes : Seq(STRING), rows : Seq(Seq(Seq(Int)))]
  /\ other \in [names : Seq(STRING), dtypes : Seq(STRING), rows : Seq(Seq(Seq(Int)))]
  /\ request = NoRequest
  /\ outcome = "ok"
  /\ ops = 0

Next == \E r \in Requests : Perform(r)

Spec == Init /\ [][Next]_vars
=============================================================================
