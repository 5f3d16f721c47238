------------------------------- MODULE Arrow -------------------------------
(***************************************************************************)
(* Arrow IPC streams (io/arrow.ts): the messages toArrow writes of a       *)
(* frame, and the columns fromArrow reads from a stream, its own or        *)
(* another program's.  A message with a body has buffers, offsets and      *)
(* lengths in bytes within it, in the order of the fields.  How a message  *)
(* is encoded (flatbuffers, io/fb.ts) is not modelled, nor its null        *)
(* counts, which no reader here uses, nor the time zone of a column.       *)
(***************************************************************************)
EXTENDS ColumnBuffers

\* The dictionary of a field that has none.
NoId == -1

Pad8(n) == 8 * ((n + 7) \div 8)

ByteSize(dtype) ==
  CASE dtype \in {"f64", "i64", "timestamp"} -> 8 [] dtype \in {"f32", "i32", "u32", "date32", "utf8"} -> 4 [] OTHER -> 1   \* bool

\* A string is the number of its two letters (see Rows); here they are its bytes.
LettersOf(string) == SelectSeq(<<string \div 10, string % 10>>, LAMBDA letter : letter # 0)
StringOf(letters) == IF letters = << >> THEN 0 ELSE IF Len(letters) = 1 THEN 10 * letters[1] ELSE 10 * letters[1] + letters[2]

-----------------------------------------------------------------------------
(* Bodies: the content of each buffer that is not empty, by its offset.    *)

EmptyBody == [buffers |-> << >>, content |-> << >>, size |-> 0]

\* Mutant: the next buffer starts where this one ends.
PushBufferUnpadded(body, content, bytes) ==
  IF bytes = 0 THEN [body EXCEPT !.buffers = Append(@, [offset |-> 0, length |-> 0])]
  ELSE [buffers |-> Append(body.buffers, [offset |-> body.size, length |-> bytes]),
        content |-> (body.size :> content) @@ body.content, size |-> body.size + bytes]

PushBuffer(body, content, bytes) ==
  IF bytes = 0 THEN [body EXCEPT !.buffers = Append(@, [offset |-> 0, length |-> 0])]
  ELSE [buffers |-> Append(body.buffers, [offset |-> body.size, length |-> bytes]),
        content |-> (body.size :> content) @@ body.content, size |-> body.size + Pad8(bytes)]

ReadBody(body, b) ==
  LET offset == body.buffers[b].offset IN IF offset \in DOMAIN body.content THEN body.content[offset] ELSE << >>

\* A typed array of n elements starts at a multiple of their size and ends within the body.
ReadsAs(body, b, n, size) ==
  body.buffers[b].offset % size = 0 /\ body.buffers[b].offset + n * size <= body.size

-----------------------------------------------------------------------------
(* toArrow.                                                                *)

ArrowType(dtype) ==
  CASE dtype = "f64" -> "Float64" [] dtype = "f32" -> "Float32"
    [] dtype = "i32" -> "Int32" [] dtype = "u32" -> "UInt32" [] dtype = "i64" -> "Int64"
    [] dtype = "bool" -> "Bool" [] dtype = "utf8" -> "Utf8"
    [] dtype = "date32" -> "Date32" [] dtype = "timestamp" -> "Timestamp(ms)"

\* Strings have dictionaries, numbered in the order of the columns.
DictId(cols, p) ==
  IF cols[p].dtype = "utf8" THEN Cardinality({q \in 1 .. p - 1 : cols[q].dtype = "utf8"}) ELSE NoId

BuildField(name, dtype, id) == [name |-> name, type |-> ArrowType(dtype), dictId |-> id]

\* The bytes at an offset of 0 are copied as they are.
ExtractValidity(col) ==
  IF col.vp = NullPtr THEN NullPtr
  ELSE IF col.off = 0 THEN [k \in 0 .. BytesFor(col.length) - 1 |-> col.vp[k]]
  ELSE Packed(col.length, ValidRows(col))

PackBools(col) == Packed(col.length, {i \in RowsOfColumn(col) : Elem(col, i) # 0})
UnpackBools(bits, n) == [i \in 0 .. n - 1 |-> IF Bit(bits, i) THEN 1 ELSE 0]

PushColumn(body, col) ==
  LET n == col.length
      withValidity == PushBuffer(body, ExtractValidity(col), IF col.vp = NullPtr THEN 0 ELSE BytesFor(n)) IN
  IF col.dtype = "bool" THEN PushBuffer(withValidity, PackBools(col), BytesFor(n))
  ELSE PushBuffer(withValidity, Data(col), n * ByteSize(col.dtype))

\* Where each string ends, after a 0 for the first to start at.
Offsets(strings) ==
  LET Ending(ends, string) == Append(ends, Last(ends) + Len(LettersOf(string))) IN FoldLeft(Ending, <<0>>, strings)

AllLetters(strings) == FlattenSeq([k \in DOMAIN strings |-> LettersOf(strings[k])])

PushStrings(body, strings) ==
  LET withOffsets == PushBuffer(body, Offsets(strings), 4 * (Len(strings) + 1)) IN
  PushBuffer(withOffsets, AllLetters(strings), Len(AllLetters(strings)))

\* A batch has as many rows as its first field: without fields it has none.
BatchMeta(nodes, body) ==
  [length |-> IF nodes = << >> THEN 0 ELSE nodes[1], nodes |-> Len(nodes), body |-> body]

DictionaryBatch(id, dict) ==
  [header |-> "dictionary", id |-> id] @@ BatchMeta(<<Len(dict)>>, PushStrings(PushBuffer(EmptyBody, NullPtr, 0), dict))

RecordBatch(cols) ==
  [header |-> "record"] @@ BatchMeta([p \in DOMAIN cols |-> cols[p].length], FoldLeft(PushColumn, EmptyBody, cols))

Schema(names, cols) ==
  [header |-> "schema", fields |-> [p \in DOMAIN cols |-> BuildField(names[p], cols[p].dtype, DictId(cols, p))]]

\* The columns are looked up by name.
ToArrow(names, cols) ==
  LET strings == SelectSeq(cols, LAMBDA col : col.dtype = "utf8") IN
  <<Schema(names, cols)>> \o [k \in DOMAIN strings |-> DictionaryBatch(k - 1, strings[k].dict)]
  \o <<RecordBatch(cols), [header |-> "end"]>>

-----------------------------------------------------------------------------
(* fromArrow.                                                              *)

\* The messages before the end, or all there are.
Received(stream) ==
  LET ends == {k \in DOMAIN stream : stream[k].header = "end"} IN
  IF ends = {} THEN stream ELSE SubSeq(stream, 1, Min(ends) - 1)

DtypeOfType(type) ==
  CASE type = "Float64" -> "f64" [] type = "Float32" -> "f32"
    [] type = "Int32" -> "i32" [] type = "UInt32" -> "u32" [] type = "Int64" -> "i64"
    [] type = "Bool" -> "bool" [] type = "Utf8" -> "utf8" [] type = "Date32" -> "date32"
    [] type \in {"Timestamp(s)", "Timestamp(ms)", "Timestamp(us)", "Timestamp(ns)"} -> "timestamp"
    [] OTHER -> "none"   \* UInt64, Date64, nested types

IsPlain(field) == field.type = "Utf8" /\ field.dictId = NoId

\* A plain string has offsets and bytes where others have their data.
FirstBuffer(fields, p) == 2 * p - 1 + Cardinality({q \in 1 .. p - 1 : IsPlain(fields[q])})

Records(messages) == {k \in DOMAIN messages : messages[k].header = "record"}
TheRecord(messages) == messages[Min(Records(messages))]

\* The last dictionary of that number before the record batch.
Dictionaries(messages, id) ==
  {k \in 1 .. Min(Records(messages)) : messages[k].header = "dictionary" /\ messages[k].id = id}

StringAt(bytes, offsets, k) == StringOf(SubSeq(bytes, offsets[k] + 1, offsets[k + 1]))

DictionaryFromRawBytes(message) ==
  [k \in 1 .. message.length |-> StringAt(ReadBody(message.body, 3), ReadBody(message.body, 2), k)]

\* One slot for each different string, those under nulls among them.
BuildDictFromPlainUtf8(bytes, offsets, n) ==
  LET strings == [k \in 1 .. n |-> StringAt(bytes, offsets, k)]
      dict == Interned(strings) IN
  [dict |-> dict, indices |-> [i \in 0 .. n - 1 |-> IndexOf(dict, strings[i + 1])]]

\* Whether every message can be read; fromArrow throws otherwise.
Readable(messages) ==
  /\ messages # << >> /\ messages[1].header = "schema"
  /\ \A p \in DOMAIN messages[1].fields : DtypeOfType(messages[1].fields[p].type) # "none"
  /\ Records(messages) # {}
  /\ \A k \in 1 .. Min(Records(messages)) :
       messages[k].header = "dictionary" => ReadsAs(messages[k].body, 2, messages[k].length + 1, 4)
  /\ LET fields == messages[1].fields
         record == TheRecord(messages)
         Reads(p, n, size) == ReadsAs(record.body, FirstBuffer(fields, p) + 1, n, size) IN
     /\ record.nodes = Len(fields)
     /\ \A p \in DOMAIN fields :
          CASE IsPlain(fields[p]) -> Reads(p, record.length + 1, 4)
            [] fields[p].type = "Utf8" /\ ~IsPlain(fields[p]) ->
                 Dictionaries(messages, fields[p].dictId) # {} /\ Reads(p, record.length, 4)
            [] fields[p].type # "Utf8" ->
                 fields[p].type = "Bool" \/ Reads(p, record.length, ByteSize(DtypeOfType(fields[p].type)))

ParseColumn(messages, p) ==
  LET fields == messages[1].fields
      record == TheRecord(messages)
      n == record.length
      b == FirstBuffer(fields, p)
      Buffer(k) == ReadBody(record.body, b + k)
      validity == IF record.body.buffers[b].length > 0 THEN [k \in 0 .. BytesFor(n) - 1 |-> Buffer(0)[k]] ELSE NullPtr
      plain == BuildDictFromPlainUtf8(Buffer(2), Buffer(1), n)
      data == [i \in 0 .. n - 1 |-> Buffer(1)[i]]
      dtype == DtypeOfType(fields[p].type) IN
  CASE IsPlain(fields[p]) -> Root("utf8", plain.indices, validity, n, plain.dict)
    [] dtype = "utf8" /\ ~IsPlain(fields[p]) ->
         Root("utf8", data, validity, n, DictionaryFromRawBytes(messages[Max(Dictionaries(messages, fields[p].dictId))]))
    [] dtype = "bool" -> Root("bool", UnpackBools(Buffer(1), n), validity, n, << >>)
    [] dtype \notin {"utf8", "bool"} -> Root(dtype, data, validity, n, << >>)

\* The most seconds whose milliseconds are an i64.
SecMsMax == Quotient(Two(2 * Width - 1) - 1, 1000)

\* Seconds without milliseconds become null; parts of a millisecond are cut off.
RescaleTimestampToMs(cell, type) ==
  IF cell = Null THEN Null
  ELSE CASE type = "Timestamp(s)" -> IF Magnitude(cell[1]) > SecMsMax THEN Null ELSE <<cell[1] * 1000>>
         [] type = "Timestamp(us)" -> <<Quotient(cell[1], 1000)>>
         [] type = "Timestamp(ns)" -> <<Quotient(cell[1], 1000000)>>

FromArrow(messages) ==
  LET fields == messages[1].fields
      parsed == [p \in DOMAIN fields |-> ParseColumn(messages, p)]
      Rescaled(p) == LET cells == ColumnToArray(parsed[p]) IN
                     CreateColumn("timestamp", [i \in DOMAIN cells |-> RescaleTimestampToMs(cells[i], fields[p].type)])
      InUnit(p) == parsed[p].dtype # "timestamp" \/ fields[p].type = "Timestamp(ms)" IN
  [names |-> [p \in DOMAIN fields |-> fields[p].name],
   cols |-> [p \in DOMAIN fields |-> IF InUnit(p) THEN parsed[p] ELSE Rescaled(p)],
   length |-> TheRecord(messages).length]

-----------------------------------------------------------------------------
(* Another program's streams: bitmaps padded with ones to eight bytes,     *)
(* fields that share a dictionary, plain strings.                          *)

ForeignStream(fields, n) ==
  LET Valid(f) == {i \in 0 .. n - 1 : f.cells[i + 1] # Null}
      Value(f, i) == IF i \in Valid(f) THEN f.cells[i + 1][1] ELSE 0
      Strings(id) == Interned(FlattenSeq(FlattenSeq([p \in DOMAIN fields |-> IF fields[p].dictId = id THEN fields[p].cells ELSE << >>])))
      ids == SetToSeq({fields[p].dictId : p \in DOMAIN fields} \ {NoId})
      Padded(rows) == [k \in 0 .. Pad8(BytesFor(n)) - 1 |-> {b \in 0 .. 7 : 8 * k + b \in rows \/ 8 * k + b >= n}]
      Push(body, f) ==
        LET nulls == Cardinality(Valid(f)) < n
            withValidity == PushBuffer(body, Padded(Valid(f)), IF nulls THEN Pad8(BytesFor(n)) ELSE 0)
            slots == [i \in 0 .. n - 1 |-> IF i \in Valid(f) THEN IndexOf(Strings(f.dictId), Value(f, i)) ELSE 0]
            values == [i \in 0 .. n - 1 |-> Value(f, i)] IN
        IF IsPlain(f) THEN PushStrings(withValidity, [k \in 1 .. n |-> Value(f, k - 1)])
        ELSE IF f.type = "Utf8" THEN PushBuffer(withValidity, slots, 4 * n)
        ELSE IF f.type = "Bool" THEN PushBuffer(withValidity, Padded({i \in Valid(f) : Value(f, i) = 1}), BytesFor(n))
        ELSE PushBuffer(withValidity, values, n * ByteSize(DtypeOfType(f.type))) IN
  <<[header |-> "schema", fields |-> [p \in DOMAIN fields |-> [name |-> fields[p].name, type |-> fields[p].type, dictId |-> fields[p].dictId]]]>>
  \o [k \in DOMAIN ids |-> DictionaryBatch(ids[k], Strings(ids[k]))]
  \o <<[header |-> "record", length |-> n, nodes |-> Len(fields), body |-> FoldLeft(Push, EmptyBody, fields)], [header |-> "end"]>>
=============================================================================
