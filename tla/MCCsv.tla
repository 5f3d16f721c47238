------------------------------- MODULE MCCsv -------------------------------
(***************************************************************************)
(* Inputs for Csv: every short text, cut in every way, and small tables    *)
(* with the options of fromCSV.                                            *)
(***************************************************************************)
EXTENDS Csv, SequencesExt

Input(text, delimiter) ==
  [text |-> text, delimiter |-> delimiter, header |-> TRUE, skipRows |-> 0, maxRows |-> 9,
   columns |-> << >>, dtypes |-> << >>, nullValues |-> {<< >>}]

Texts(alphabet, n) == UNION {[1 .. len -> alphabet] : len \in 0 .. n}

ShortTexts ==
  {Input(t, <<"d">>) : t \in Texts({Quote, CR, LF, "d", Int32}, 5)}
  \cup {Input(t, <<"d", "e">>) : t \in Texts({Quote, LF, "d", "e"}, 4)}
  \cup {Input(t, <<"d", "e", "f">>) : t \in Texts({CR, "d", "e", "f"}, 4)}

\* A column without a header.
Fields == {<< >>, <<Int32>>, <<SafeInt>>, <<BigInt>>, <<HugeInt>>, <<Decimal>>, <<TrueText>>, <<FalseText>>, <<Int32, Int32>>}
Lines(fields) == FlattenSeq([i \in DOMAIN fields |-> Append(fields[i], LF)])
Tables ==
  {[Input(Lines(<<a, b, c>>), <<"d">>) EXCEPT !.header = FALSE] : a, b, c \in Fields}

\* Two columns with the options of fromCSV; the second header repeats a name.
TwoColumns(cell) == <<"a", "d", "b", LF, Int32, "d">> \o cell \o <<LF, Int32, "d", Date>>
SameNames == <<"a", "d", "a", LF, Decimal, "d", BigInt>>
WithOptions ==
  {[Input(TwoColumns(cell), <<"d">>) EXCEPT !.dtypes = (<<"b">> :> dtype), !.skipRows = skip, !.maxRows = most, !.columns = given] :
     cell \in {<<Date>>, <<BigInt>>, <<Instant>>}, dtype \in {"i64", "date32", "timestamp", "utf8", "f64"}, skip \in {0, 1, 3},
     most \in {1, 9}, given \in {<< >>, <<<<"x">>>>, <<<<"x">>, <<"b">>, <<"y">>>>}}
  \cup {Input(SameNames, <<"d">>)}

MCInputs == ShortTexts \cup Tables \cup WithOptions

\* Tables of booleans and numbers.
MCTables == Tables
=============================================================================
