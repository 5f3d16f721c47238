--------------------------- MODULE ColumnBuffers ---------------------------
(***************************************************************************)
(* A column as it is stored (memory/column.ts): its elements, a validity   *)
(* bitmap read at the bit offset a slice leaves behind, and for strings    *)
(* the dictionary whose slots the elements are.  Element i is data[at + i] *)
(* and its validity bit off + i of vp.                                     *)
(***************************************************************************)
EXTENDS Elementwise, Select

Null == << >>

\* What a kernel reads past the end of a buffer: no slot, and no sensible number.
Unwritten == -1

Root(dtype, data, vp, length, dict) ==
  [dtype |-> dtype, data |-> data, at |-> 0, vp |-> vp, off |-> 0, length |-> length, dict |-> dict]

RowsOfColumn(col) == 0 .. col.length - 1
Elem(col, i) == IF col.at + i \in DOMAIN col.data THEN col.data[col.at + i] ELSE Unwritten
Data(col) == [i \in RowsOfColumn(col) |-> Elem(col, i)]
GetBit(col, i) == Bit(col.vp, col.off + i)
ValidRows(col) == {i \in RowsOfColumn(col) : GetBit(col, i)}

\* A string's slot, counted from 0, or -1.
IndexOf(dict, string) == IF string \in ToSet(dict) THEN (CHOOSE k \in DOMAIN dict : dict[k] = string) - 1 ELSE -1

Interned(strings) ==
  LET Intern(dict, s) == IF s \in ToSet(dict) THEN dict ELSE Append(dict, s) IN FoldLeft(Intern, << >>, strings)

CreateStringColumn(cells) ==
  LET dict == Interned(FlattenSeq(cells))
      valid == {i \in 0 .. Len(cells) - 1 : cells[i + 1] # Null}
      data == [i \in 0 .. Len(cells) - 1 |-> IF i \in valid THEN IndexOf(dict, cells[i + 1][1]) ELSE 0]
  IN Root("utf8", data, IF Null \in ToSet(cells) THEN Packed(Len(cells), valid) ELSE NullPtr, Len(cells), dict)

CreateNumericColumn(dtype, cells) ==
  LET valid == {i \in 0 .. Len(cells) - 1 : cells[i + 1] # Null}
      data == [i \in 0 .. Len(cells) - 1 |-> IF i \in valid THEN cells[i + 1][1] ELSE 0]
  IN Root(dtype, data, IF Null \in ToSet(cells) THEN Packed(Len(cells), valid) ELSE NullPtr, Len(cells), << >>)

CreateColumn(dtype, cells) ==
  IF dtype = "utf8" THEN CreateStringColumn(cells) ELSE CreateNumericColumn(dtype, cells)

DecodeSlot(col, slot) == col.dict[slot + 1]

\* Strings at their slots, everything else as stored.
Cell(col, i) ==
  IF ~GetBit(col, i) THEN Null
  ELSE IF col.dtype = "utf8" THEN <<DecodeSlot(col, Elem(col, i))>> ELSE <<Elem(col, i)>>

ColumnToArray(col) == [i \in 1 .. col.length |-> Cell(col, i - 1)]

Clamp(n, limit) == Max({0, Min({n, limit})})

\* The start of the data moves, the bitmap stays and its offset grows.
SliceColumn(col, start, end) ==
  LET s == Clamp(start, col.length)
      e == Max({s, Clamp(end, col.length)}) IN
  [col EXCEPT !.at = @ + s, !.off = @ + s, !.length = e - s]

\* Mutant: the pointer moves by whole bytes, the bits within a byte stay.
AlignValidityToByte(col) ==
  IF col.vp = NullPtr THEN NullPtr
  ELSE LET shift == col.off \div 8 IN [k \in {b \in DOMAIN col.vp : b + shift \in DOMAIN col.vp} |-> col.vp[k + shift]]

\* A kernel reads bit 0 for row 0: the bitmap from the byte the slice starts at,
\* or a copy if it starts within one.
AlignValidity(col) ==
  LET shift == col.off \div 8 IN
  IF col.vp = NullPtr THEN NullPtr
  ELSE IF col.off % 8 = 0
       THEN [k \in {b \in DOMAIN col.vp : b + shift \in DOMAIN col.vp} |-> col.vp[k + shift]]
  ELSE Packed(col.length, ValidRows(col))

Blank(n) == [k \in 0 .. BytesFor(n) - 1 |-> {}]

\* Row k of the result is row idx[k] of the column.
GatherColumn(col, idx) ==
  LET vp == IF col.vp = NullPtr THEN NullPtr ELSE GatherValidity(AlignValidity(col), idx, Blank(Len(idx))) IN
  Root(col.dtype, Gather(Data(col), idx), vp, Len(idx), col.dict)
=============================================================================
