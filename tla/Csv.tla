-------------------------------- MODULE Csv --------------------------------
(***************************************************************************)
(* The CSV reader (io/csv.ts).  ChunkParser takes the text in chunks of    *)
(* any length and keeps what it cannot decide yet; fromCSV then picks the  *)
(* header and the data rows, infers a type for each column from the first  *)
(* rows and parses every cell.                                             *)
(*                                                                         *)
(* A text is a sequence of characters: the quote, CR, LF, those of the     *)
(* delimiter and of the data.  Nine data characters stand for literals a   *)
(* type is inferred from; any other field is text.                         *)
(***************************************************************************)
EXTENDS Integers, Sequences, FiniteSets

CONSTANTS
  Inputs,      \* records: text, delimiter and the options of fromCSV
  InferRows    \* INFER_ROWS, 100 in the code

ASSUME InferRowsAssumption == InferRows \in Nat \ {0}

\* An empty delimiter never lets the parser advance.
ASSUME InputsAssumption ==
  \A in \in Inputs :
    /\ in.text \in Seq(STRING) /\ in.delimiter \in Seq(STRING) \ {<< >>}
    /\ in.skipRows \in Nat /\ in.maxRows \in Nat

Quote == "quote"
CR == "cr"
LF == "lf"

VARIABLES
  input,     \* what is read
  fed,       \* characters fed so far
  cuts,      \* chunks fed so far
  buf,       \* fed and not parsed
  rec,       \* the record under way: its row, its field, whether in quotes
  rows,      \* the rows given to onRow
  phase,     \* feeding, parsed, built, or what fromCSV throws
  frame      \* the columns: for each name, its dtype and its cells

readerVars == <<input, fed, cuts, buf, rec, rows, phase, frame>>

-----------------------------------------------------------------------------
(* The parser.                                                             *)

NewRecord == [row |-> << >>, field |-> << >>, inQuote |-> FALSE]
WithField(r) == Append(r.row, r.field)

StartsWith(s, d, i) == i + Len(d) - 1 <= Len(s) /\ \A k \in DOMAIN d : s[i + k - 1] = d[k]

\* What the loop of parse does next at position p.i of the text s.
Data(p, s) == [p EXCEPT !.rec.field = Append(@, s[p.i]), !.i = @ + 1]
Separator(p, d) == [p EXCEPT !.rec.row = WithField(p.rec), !.rec.field = << >>, !.i = @ + Len(d)]
EmitRow(p, width) == [p EXCEPT !.rows = Append(@, WithField(p.rec)), !.rec = NewRecord, !.i = @ + width]
OpenQuote(p) == [p EXCEPT !.rec.inQuote = TRUE, !.i = @ + 1]
CloseQuote(p) == [p EXCEPT !.rec.inQuote = FALSE, !.i = @ + 1]
EscapedQuote(p) == [p EXCEPT !.rec.field = Append(@, Quote), !.i = @ + 2]

\* Mutant: the last quote of a chunk closes its field.
QuoteAtOnce(p, s, eof) ==
  IF p.i < Len(s) /\ s[p.i + 1] = Quote THEN EscapedQuote(p) ELSE CloseQuote(p)

\* A quote within quotes: what it means depends on the next character; the last
\* one of a chunk has to wait.
QuoteInQuotes(p, s, eof) ==
  CASE p.i < Len(s) /\ s[p.i + 1] = Quote -> EscapedQuote(p)
    [] p.i < Len(s) /\ s[p.i + 1] # Quote -> CloseQuote(p)
    [] p.i = Len(s) /\ eof -> CloseQuote(p)
    [] p.i = Len(s) /\ ~eof -> p

CarriageReturn(p, s, eof) ==
  CASE p.i < Len(s) /\ s[p.i + 1] = LF -> EmitRow(p, 2)
    [] p.i < Len(s) /\ s[p.i + 1] # LF -> Data(p, s)
    [] p.i = Len(s) /\ eof -> EmitRow(p, 1)
    [] p.i = Len(s) /\ ~eof -> p

Iteration(p, s, d, eof) ==
  LET ch == s[p.i] IN
  CASE p.rec.inQuote /\ ch = Quote -> QuoteInQuotes(p, s, eof)
    [] p.rec.inQuote /\ ch # Quote -> Data(p, s)
    [] ~p.rec.inQuote /\ ch = Quote -> OpenQuote(p)
    [] ~p.rec.inQuote /\ ch # Quote /\ StartsWith(s, d, p.i) -> Separator(p, d)
    [] ~p.rec.inQuote /\ ch = CR /\ ~StartsWith(s, d, p.i) -> CarriageReturn(p, s, eof)
    [] ~p.rec.inQuote /\ ch = LF /\ ~StartsWith(s, d, p.i) -> EmitRow(p, 1)
    [] ~p.rec.inQuote /\ ch \notin {Quote, CR, LF} /\ ~StartsWith(s, d, p.i) -> Data(p, s)

\* The loop, which visits some of the positions: an iteration that does not
\* advance has left it.
Visit(p, k, s, d, eof) == IF p.i = k THEN Iteration(p, s, d, eof) ELSE p
Unread(r) == [i |-> 1, rec |-> r, rows |-> << >>]

Parse(s, d, eof, r) ==
  LET at[k \in 0 .. Len(s)] == IF k = 0 THEN Unread(r) ELSE Visit(at[k - 1], k, s, d, eof) IN
  at[Len(s)]

Rest(s, i) == SubSeq(s, i, Len(s))

-----------------------------------------------------------------------------
(* Types.                                                                  *)

Int32 == "7"            \* fits i32
SafeInt == "3000000000"
BigInt == "9007199254740993"    \* beyond 2^53 - 1, within i64
HugeInt == "9223372036854775809"    \* beyond i64
Decimal == "1.5"
TrueText == "true"
FalseText == "FALSE"
Date == "2024-02-29"
Instant == "2024-02-29T12:00Z"

isI32(cell) == cell = <<Int32>>
isI64Overflow(cell) == cell = <<BigInt>>
isAnyI64(cell) == cell \in {<<Int32>>, <<SafeInt>>, <<BigInt>>}
isF64(cell) == isAnyI64(cell) \/ cell \in {<<HugeInt>>, <<Decimal>>}
isBool(cell) == cell \in {<<TrueText>>, <<FalseText>>}

BoolOrText(cell) == IF isBool(cell) THEN "bool" ELSE "utf8"

\* Mutant: a column of integers stays one when a decimal comes.
promoteSticky(state, cell) ==
  CASE state = "i32" /\ isI64Overflow(cell) -> "i64"
    [] state = "i32" /\ ~isI64Overflow(cell) -> IF isI32(cell) THEN "i32" ELSE IF isF64(cell) THEN "f64" ELSE BoolOrText(cell)
    [] state = "i64" -> IF isF64(cell) THEN "i64" ELSE BoolOrText(cell)
    [] state = "f64" -> IF isF64(cell) THEN "f64" ELSE BoolOrText(cell)
    [] state = "bool" -> BoolOrText(cell)
    [] state = "utf8" -> "utf8"

promote(state, cell) ==
  CASE state = "utf8" -> "utf8"
    [] state = "i32" -> IF isI32(cell) THEN "i32" ELSE IF isI64Overflow(cell) THEN "i64"
                        ELSE IF isF64(cell) THEN "f64" ELSE BoolOrText(cell)
    [] state = "i64" -> IF isAnyI64(cell) THEN "i64" ELSE IF isF64(cell) THEN "f64" ELSE BoolOrText(cell)
    [] state = "f64" -> IF isF64(cell) THEN "f64" ELSE BoolOrText(cell)
    [] state = "bool" -> BoolOrText(cell)

Seen(state, cell) == IF cell \in input.nullValues THEN state ELSE promote(state, cell)

inferDtypeFromSample(sample) ==
  LET state[k \in 0 .. Len(sample)] == IF k = 0 THEN "i32" ELSE Seen(state[k - 1], sample[k]) IN
  IF \A k \in DOMAIN sample : sample[k] \in input.nullValues THEN "utf8" ELSE state[Len(sample)]

Throws == [error |-> TRUE]
Null == [null |-> TRUE]
IsNumber(cell) == isF64(cell) \/ cell = << >>

\* Number() of the empty text is 0, of a text that is no number NaN, and of an
\* integer beyond 2^53 the nearest float.
NumberOf(cell) ==
  CASE cell = <<BigInt>> -> <<"9007199254740992">>
    [] cell = <<HugeInt>> -> <<"9223372036854775808">>
    [] cell \notin {<<BigInt>>, <<HugeInt>>} -> IF IsNumber(cell) THEN cell ELSE <<"NaN">>

parseCell(cell, dtype) ==
  CASE cell \in input.nullValues -> Null
    [] cell \notin input.nullValues /\ dtype = "utf8" -> [text |-> cell]
    [] cell \notin input.nullValues /\ dtype = "bool" -> [bool |-> cell = <<TrueText>>]
    [] cell \notin input.nullValues /\ dtype \in {"i32", "u32", "f64", "f32"} -> [number |-> NumberOf(cell)]
    [] cell \notin input.nullValues /\ dtype = "i64" ->
         IF isAnyI64(cell) \/ cell \in {<<HugeInt>>, << >>} THEN [bigint |-> cell] ELSE Throws
    [] cell \notin input.nullValues /\ dtype = "date32" -> IF cell = <<Date>> THEN [date |-> cell] ELSE Throws
    [] cell \notin input.nullValues /\ dtype = "timestamp" -> IF cell = <<Instant>> THEN [instant |-> cell] ELSE Throws

-----------------------------------------------------------------------------
ReaderInit ==
  /\ input \in Inputs
  /\ fed = 0 /\ cuts = 0
  /\ buf = << >> /\ rec = NewRecord /\ rows = << >>
  /\ phase = "feeding" /\ frame = << >>

Feed(n) ==
  /\ phase = "feeding" /\ fed < Len(input.text)
  /\ n <= Len(input.text) - fed
  /\ LET s == buf \o SubSeq(input.text, fed + 1, fed + n)
         p == Parse(s, input.delimiter, FALSE, rec) IN
     /\ buf' = Rest(s, p.i) /\ rec' = p.rec /\ rows' = rows \o p.rows
  /\ fed' = fed + n /\ cuts' = cuts + 1
  /\ UNCHANGED <<input, phase, frame>>

\* finish: a last row without a line end is emitted unless it is empty.
Finish ==
  /\ phase = "feeding" /\ fed = Len(input.text)
  /\ LET p == Parse(buf, input.delimiter, TRUE, rec)
         left == p.rec.row # << >> \/ p.rec.field # << >> IN
     /\ phase' = IF left /\ p.rec.inQuote THEN "unterminated" ELSE "parsed"
     /\ rows' = rows \o p.rows \o IF left /\ ~p.rec.inQuote THEN <<WithField(p.rec)>> ELSE << >>
     /\ rec' = IF left /\ ~p.rec.inQuote THEN NewRecord ELSE p.rec
     /\ buf' = Rest(buf, p.i)
  /\ UNCHANGED <<input, fed, cuts, frame>>

-----------------------------------------------------------------------------
(* fromCSV, once the rows are there.                                       *)

Default(i) == <<"column", i>>

\* The given names replace those of the header, from the first on, and may be
\* more than those.
ColNames ==
  LET first == rows[input.skipRows + 1]
      own == IF input.header THEN first ELSE [i \in DOMAIN first |-> Default(i)]
      n == Len(input.columns) IN
  [i \in 1 .. IF n > Len(own) THEN n ELSE Len(own) |-> IF i <= n THEN input.columns[i] ELSE own[i]]

DataRows ==
  LET from == input.skipRows + IF input.header THEN 2 ELSE 1
      to == from + input.maxRows - 1 IN
  SubSeq(rows, from, IF to < Len(rows) THEN to ELSE Len(rows))

Names == {ColNames[c] : c \in DOMAIN ColNames}
Forced(name) == name \in DOMAIN input.dtypes

\* Columns are kept by name: of two with one name the last remains.
LastOf(name) == CHOOSE c \in DOMAIN ColNames : ColNames[c] = name /\ \A b \in DOMAIN ColNames : ColNames[b] = name => b <= c
ColumnText(name) == [r \in DOMAIN DataRows |-> DataRows[r][LastOf(name)]]

DtypeOf(name) ==
  IF Forced(name) THEN input.dtypes[name]
  ELSE IF DataRows = << >> THEN "utf8"
  ELSE inferDtypeFromSample(SubSeq(ColumnText(name), 1, IF Len(DataRows) < InferRows THEN Len(DataRows) ELSE InferRows))

Cell(name, r) == parseCell(ColumnText(name)[r], DtypeOf(name))

Columns == [name \in Names |-> [dtype |-> DtypeOf(name), cells |-> [r \in DOMAIN DataRows |-> Cell(name, r)]]]

\* Every cell is parsed, those a later column of the name replaces too.
CellThrows(r, c) == parseCell(DataRows[r][c], DtypeOf(ColNames[c])) = Throws

Nothing == input.skipRows >= Len(rows)
Ragged == \E r \in DOMAIN DataRows : Len(DataRows[r]) # Len(ColNames)
Unparseable == \E r \in DOMAIN DataRows, c \in DOMAIN ColNames : CellThrows(r, c)

Builds(what, result) ==
  /\ phase = "parsed"
  /\ phase' = what /\ frame' = result
  /\ UNCHANGED <<input, fed, cuts, buf, rec, rows>>

BuildEmpty == Nothing /\ Builds("built", << >>)
BuildRagged == ~Nothing /\ Ragged /\ Builds("ragged", << >>)
BuildUnparseable == ~Nothing /\ ~Ragged /\ Unparseable /\ Builds("unparseable", << >>)
BuildColumns == ~Nothing /\ ~Ragged /\ ~Unparseable /\ Builds("built", Columns)

ReaderNext ==
  \/ \E n \in 1 .. Len(input.text) - fed : Feed(n)
  \/ Finish \/ BuildEmpty \/ BuildRagged \/ BuildUnparseable \/ BuildColumns

ReaderSpec == ReaderInit /\ [][ReaderNext]_readerVars

-----------------------------------------------------------------------------
(* Properties.                                                             *)

\* RFC 4180 without a parser: a character is within quotes when an odd number
\* of quotes stands before it.  A row ends with LF or CRLF; any other CR is data.
Inside(t, i) == Cardinality({k \in 1 .. i - 1 : t[k] = Quote}) % 2 = 1
Open(t) == Inside(t, Len(t) + 1)

SecondQuote(t, i) == i > 1 /\ t[i - 1] = Quote /\ Inside(t, i - 1)
InDelimiter(t, d, i) == \E k \in 1 .. Len(d) - 1 : k < i /\ StartsWith(t, d, i - k)

Kind(t, d, i) ==
  CASE t[i] = Quote -> IF ~Inside(t, i) /\ SecondQuote(t, i) THEN "data" ELSE "nothing"
    [] t[i] # Quote /\ Inside(t, i) -> "data"
    [] t[i] # Quote /\ ~Inside(t, i) /\ StartsWith(t, d, i) -> "separator"
    [] t[i] # Quote /\ ~Inside(t, i) /\ ~StartsWith(t, d, i) ->
         CASE InDelimiter(t, d, i) -> "nothing"
           [] ~InDelimiter(t, d, i) /\ t[i] = CR -> IF i < Len(t) /\ t[i + 1] = LF THEN "row end" ELSE "data"
           [] ~InDelimiter(t, d, i) /\ t[i] = LF -> IF i > 1 /\ t[i - 1] = CR THEN "nothing" ELSE "row end"
           [] ~InDelimiter(t, d, i) /\ t[i] \notin {CR, LF} -> "data"

Take(taken, kind, ch) ==
  CASE kind = "data" -> [taken EXCEPT !.field = Append(@, ch)]
    [] kind = "separator" -> [taken EXCEPT !.row = Append(@, taken.field), !.field = << >>]
    [] kind = "row end" -> [rows |-> Append(taken.rows, Append(taken.row, taken.field)), row |-> << >>, field |-> << >>]
    [] kind = "nothing" -> taken

Untaken == [rows |-> << >>, row |-> << >>, field |-> << >>]

\* What the first k characters give.
Taken(t, d) ==
  LET after[k \in 0 .. Len(t)] == IF k = 0 THEN Untaken ELSE Take(after[k - 1], Kind(t, d, k), t[k]) IN
  after

\* The last row needs no line end.
Unended(t) == t # << >> /\ ~(t[Len(t)] = LF /\ ~Inside(t, Len(t)))

Reference(t, d) ==
  LET end == Taken(t, d)[Len(t)] IN
  end.rows \o IF Unended(t) /\ ~Open(t) THEN <<Append(end.row, end.field)>> ELSE << >>

\* Where the reader leaves RFC 4180 at the end of a text.  A CR that ends it is
\* read as if LF came after it.
Completed(t) == IF t # << >> /\ t[Len(t)] = CR /\ ~Inside(t, Len(t)) THEN Append(t, LF) ELSE t

\* A last line of quotes alone, whose one field is empty, is not seen: neither
\* the row nor the quote it may have left open.
Blank(t, d) == Unended(t) /\ Taken(t, d)[Len(t)].row = << >> /\ Taken(t, d)[Len(t)].field = << >>
Unseen(t, d) == IF Blank(t, d) /\ ~Open(t) THEN <<<< << >> >>>> ELSE << >>

\* A delimiter of characters that mean nothing else, no two of which overlap.
Plain(d) ==
  /\ \A k \in DOMAIN d : d[k] \notin {Quote, CR, LF}
  /\ \A n \in 1 .. Len(d) - 1 : \E k \in 1 .. Len(d) - n : d[k] # d[k + n]

\* The rows are those of the text wherever it was cut into chunks, a CRLF and an
\* escaped quote included, and a quote left open is reported, but for the end of a
\* text as described above; a delimiter of several characters must not be cut.
RowsIndependentOfChunks ==
  phase # "feeding" /\ Plain(input.delimiter) /\ (Len(input.delimiter) = 1 \/ cuts <= 1) =>
    LET t == Completed(input.text)
        d == input.delimiter IN
    /\ Reference(t, d) = rows \o Unseen(t, d)
    /\ phase = "unterminated" <=> Open(t) /\ ~Blank(t, d)

Sampled(name) == {r \in DOMAIN DataRows : r <= InferRows /\ ColumnText(name)[r] \notin input.nullValues}

\* A column is of floats when a cell among rows is no i64, or when an integer that
\* is no i32 comes before every one that needs i64.
Floats(texts, at) ==
  \E q \in at :
    \/ isF64(texts[q]) /\ ~isAnyI64(texts[q])
    \/ isAnyI64(texts[q]) /\ ~isI32(texts[q]) /\ \A s \in at : isI64Overflow(texts[s]) => q < s

\* A type that was inferred holds the rows it was inferred from: none of them makes
\* fromCSV throw, no text is changed and no number lost, but the last digits of an
\* integer beyond 2^53 in a column of floats.
InferredHolds ==
  /\ phase = "built" =>
       \A name \in {x \in DOMAIN frame : ~Forced(x) /\ frame[x].dtype # "bool"} :
         \A r \in Sampled(name) :
           LET cell == ColumnText(name)[r]
               got == frame[name].cells[r] IN
           \/ \E kind \in DOMAIN got : got[kind] = cell
           \/ /\ frame[name].dtype = "f64" /\ Floats(ColumnText(name), Sampled(name))
              /\ cell \in {<<BigInt>>, <<HugeInt>>} /\ got = [number |-> NumberOf(cell)]
  /\ phase = "unparseable" =>
       \E r \in DOMAIN DataRows, c \in DOMAIN ColNames :
         CellThrows(r, c) /\ (Forced(ColNames[c]) \/ r > InferRows \/ LastOf(ColNames[c]) # c)

\* A column is of type bool only when its sample is of booleans: "bool when only
\* true/false strings appear".
BoolsOnly ==
  phase = "built" =>
    \A name \in {x \in DOMAIN frame : ~Forced(x) /\ frame[x].dtype = "bool"} :
      \A r \in Sampled(name) : isBool(ColumnText(name)[r])

\* A column is of type i64 when its sample is of integers and one of them is beyond
\* 2^53: "promotes when any non-null cell is a valid strict-integer string whose
\* absolute value is above 9_007_199_254_740_991".  MCCsvWide.cfg shows that it is f64
\* when the first that is no i32 is within 2^53.
WideIsI64 ==
  phase = "built" =>
    \A name \in {x \in DOMAIN frame : ~Forced(x)} :
      LET cells == {ColumnText(name)[r] : r \in Sampled(name)} IN
      (\A cell \in cells : isAnyI64(cell)) /\ (\E cell \in cells : isI64Overflow(cell)) => frame[name].dtype = "i64"
=============================================================================
