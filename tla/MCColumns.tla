----------------------------- MODULE MCColumns -----------------------------
(***************************************************************************)
(* Frames of ten rows, so that a bitmap has two bytes and a slice can      *)
(* start within the first, between the two and within the second.          *)
(***************************************************************************)
EXTENDS Columns

CONSTANT JoinsOnly   \* whether the requests are the few that joins need

\* Strings: b a, c, and a; an empty string; nulls where there is << >>.
Cells(values) == [k \in DOMAIN values |-> IF values[k] = -100 THEN Null ELSE <<values[k]>>]
N == -100
A == 10
AB == 12
B == 20
C == 30

Frame(names, cols) == [names |-> names, cols |-> cols, length |-> cols[1].length]

\* Nulls on both sides of the byte's end, ties, NaN, a string seen first after a null.
Left ==
  Frame(<<"s", "x", "n">>,
        <<CreateColumn("utf8", Cells(<<B, N, A, B, AB, N, A, B, A, N>>)),
          CreateColumn("f64", Cells(<<1, NaN, N, 1, 0, 2, N, NaN, NaN, 0>>)),
          CreateColumn("i64", Cells(<<2, 1, 2, 1, 2, 1, 1, 2, 2, 1>>))>>)

\* A column of nulls only, whose dictionary is empty, and one without nulls.
Sparse ==
  Frame(<<"s", "x">>,
        <<CreateColumn("utf8", Cells(<<N, N, N>>)), CreateColumn("f64", Cells(<<2, 1, 2>>))>>)

\* A leap day and the day after it, the ends of years, days and instants before 1970.
Dated ==
  Frame(<<"s", "d", "t", "x">>,
        <<CreateColumn("utf8", Cells(<<A, B, N, A, B, A, A, N, B, B>>)),
          CreateColumn("date32", Cells(<<11016, N, -1, 11017, 0, N, 16070, 10956, -16001, 11016>>)),
          CreateColumn("timestamp", Cells(<<-1, 86400500, N, -86400001, N, 172799999, 0, -1, 45296789, N>>)),
          CreateColumn("f64", Cells(<<2, 1, N, 0, 1, 2, 1, N, 0, 1>>))>>)

RightRoot ==
  Frame(<<"s", "x", "b">>,
        <<CreateColumn("utf8", Cells(<<C, AB, N, B>>)),
          CreateColumn("f64", Cells(<<NaN, 0, 1, N>>)),
          CreateColumn("bool", Cells(<<1, N, 0, 1>>))>>)

RightWithout == Frame(<<"s", "u">>, <<CreateColumn("utf8", Cells(<<A, B, B>>)), CreateColumn("utf8", Cells(<<C, C, 0>>))>>)

MCLeftFrames == IF JoinsOnly THEN {Left, Sparse} ELSE {Left, Sparse, Dated}
MCRightFrames == {RightRoot, SliceRange(RightWithout, 1, 3)}
\* No rows, but strings in the dictionary: what a filter that keeps nothing returns.
MCEmptyRight == {SliceRange(RightRoot, 1, 4), SliceRange(RightWithout, 3, 3)}

Out(as, name, agg, via) == [as |-> as, name |-> name, agg |-> agg, via |-> via]
By(name, descending) == [name |-> name, descending |-> descending]

Slices == {[op |-> "slice", from |-> 3, to |-> 12], [op |-> "slice", from |-> 8, to |-> 10], [op |-> "slice", from |-> 1, to |-> 2]}
Joins == {[op |-> "join", on |-> <<"s">>, how |-> "left"], [op |-> "join", on |-> <<"x", "s">>, how |-> "inner"]}

Field(name, type, dictId, values) == [name |-> name, type |-> type, dictId |-> dictId, cells |-> Cells(values)]

\* Two fields share a dictionary, another has none; instants in each unit, one of
\* which has no milliseconds.
Streams ==
  {[op |-> "fromArrow", n |-> 9,
    fields |-> <<Field("s", "Utf8", NoId, <<B, N, A, B, AB, N, A, 0, N>>),
                 Field("b", "Bool", NoId, <<1, 0, N, 1, 1, 0, N, 0, 1>>),
                 Field("q", "Utf8", 4, <<C, C, N, A, B, C, N, A, A>>),
                 Field("u", "Utf8", 4, <<B, N, B, B, N, A, 33, A, C>>),
                 Field("x", "Float64", NoId, <<1, N, 0, 2, NaN, 1, N, 0, 2>>),
                 Field("d", "Date32", NoId, <<0, 1, -1, N, 11016, 365, 59, N, 1>>)>>],
   [op |-> "fromArrow", n |-> 3,
    fields |-> <<Field("n", "Int64", NoId, <<1, 1, 2>>), Field("t", "Timestamp(s)", NoId, <<536870, -536871, N>>),
                 Field("s", "Utf8", NoId, <<A, B, C>>),
                 Field("d", "Timestamp(us)", NoId, <<-1500, 1999, N>>), Field("x", "Timestamp(ns)", NoId, <<N, -2500000, 999999>>)>>],
   [op |-> "fromArrow", n |-> 1, fields |-> <<Field("x", "UInt64", NoId, <<1>>)>>]}

Temporals ==
  Streams \cup
  {[op |-> "arrow"],
   [op |-> "dt", as |-> "n", name |-> "d", c |-> "dayOfYear"],
   [op |-> "dt", as |-> "n", name |-> "t", c |-> "hour"],
   [op |-> "dt", as |-> "x", name |-> "d", c |-> "second"],
   [op |-> "seriesDt", as |-> "n", name |-> "d", c |-> "month"],
   [op |-> "seriesDt", as |-> "d", name |-> "t", c |-> "millisecond"],
   [op |-> "seriesDt", as |-> "d", name |-> "d", c |-> "minute"],
   [op |-> "dt", as |-> "t", name |-> "t", c |-> "year"],
   [op |-> "dt", as |-> "n", name |-> "d", c |-> "day"],
   [op |-> "dt", as |-> "d", name |-> "t", c |-> "minute"],
   [op |-> "seriesDt", as |-> "t", name |-> "t", c |-> "weekday"],
   [op |-> "seriesDt", as |-> "t", name |-> "d", c |-> "quarter"],
   [op |-> "seriesStr", as |-> "s", name |-> "s", n |-> 1],
   [op |-> "filter", name |-> "t", cmp |-> "gt", lit |-> -1, of |-> "number"],
   [op |-> "fillNull", as |-> "t", name |-> "t", lit |-> 1, of |-> "number"],
   [op |-> "sort", by |-> <<By("d", TRUE)>>],
   [op |-> "agg", keys |-> <<"t">>, outs |-> <<Out("d", "d", "min", "name"), Out("x", "d", "nunique", "expr")>>],
   [op |-> "agg", keys |-> <<"s">>, outs |-> <<Out("t", "t", "last", "name")>>],
   [op |-> "agg", keys |-> <<"s">>, outs |-> <<Out("t", "t", "max", "name")>>]}

MCRequests ==
  IF JoinsOnly THEN Slices \cup Joins
  ELSE Slices \cup Joins \cup Temporals \cup
    {[op |-> "tail", n |-> 4],
     [op |-> "filter", name |-> "s", cmp |-> "ne", lit |-> B, of |-> "string"],
     [op |-> "filter", name |-> "s", cmp |-> "ne", lit |-> 33, of |-> "string"],
     [op |-> "filter", name |-> "x", cmp |-> "gt", lit |-> 0, of |-> "number"],
     [op |-> "filter", name |-> "b", cmp |-> "true", lit |-> 0, of |-> "number"],
     [op |-> "filterFn", name |-> "s", lit |-> A],
     [op |-> "sort", by |-> <<By("x", TRUE), By("s", FALSE)>>],
     [op |-> "sort", by |-> <<By("s", TRUE)>>],
     [op |-> "select", names |-> <<"x", "s">>],
     [op |-> "drop", names |-> <<"n">>],
     [op |-> "fillNull", as |-> "s", name |-> "s", lit |-> C, of |-> "string"],
     [op |-> "fillNull", as |-> "x", name |-> "x", lit |-> 2, of |-> "number"],
     [op |-> "strSlice", as |-> "s", name |-> "s", n |-> 1],
     [op |-> "isNull", as |-> "b", name |-> "s"],
     [op |-> "assign", as |-> "x", dtype |-> "f64", cells |-> Cells(<<1, N, 1, NaN, 0, 0, 1, N, 2>>)],
     [op |-> "agg", keys |-> <<"s">>,
      outs |-> <<Out("x", "x", "min", "name"), Out("n", "n", "sum", "expr"), Out("u", "x", "var", "name"), Out("size", "x", "size", "name")>>],
     [op |-> "agg", keys |-> <<"x", "n">>,
      outs |-> <<Out("s", "s", "last", "name"), Out("b", "s", "nunique", "name"), Out("m", "n", "mean", "expr")>>],
     [op |-> "agg", keys |-> <<"n">>,
      outs |-> <<Out("s", "s", "first", "expr"), Out("x", "x", "max", "name"), Out("c", "s", "count", "name")>>]}
=============================================================================
