--------------------------- MODULE CsvRoundTrip ---------------------------
(***************************************************************************)
(* A table on its way to CSV and back: CsvExporter writes the batches of a *)
(* .kiodb file as text, a later run of the program imports that text.      *)
(***************************************************************************)
EXTENDS CsvImport

CONSTANT Tables  \* the tables: sequences of batches

\* The values of a column of the schema.
ValuesOf(c) ==
    CASE ColumnTypes[c] = "TEXT" -> Seq(STRING)
      [] ColumnTypes[c] = "CHAR" -> STRING
      [] ColumnTypes[c] = "INTEGER" -> Nat

\* A batch has a column for each of the schema, all as long as the first.
IsBatch(batch) ==
    /\ batch = [c \in Columns |-> batch[c]]
    /\ \A c \in Columns :
           batch[c] \in Seq(ValuesOf(c)) /\ Len(batch[c]) = Len(batch[1])

ASSUME TablesAssumption ==
    \A t \in Tables : t \in Seq(Range(t)) /\ \A k \in DOMAIN t : IsBatch(t[k])

\* What the exporter writes are characters.
ASSUME CharactersAssumption == {Quote, Comma, Newline} \union Range(Digit) \subseteq STRING

VARIABLES
    table,     \* the batches of the .kiodb file
    exported,  \* how many of them have been written
    epc        \* "exporting" or "closed"

exportVars == <<table, exported, epc>>
roundVars == <<exportVars, importVars>>

----------------------------------------------------------------------------
(* WriteBatchToStream *)

Decimal[n \in Nat] ==
    IF n < 10 THEN <<Digit[n + 1]>>
    ELSE Append(Decimal[n \div 10], Digit[(n % 10) + 1])

\* Mutant: quotes inside a value are written as they are.
EscapedAsIs(value) == value

\* WriteEscapedString: each quote twice.
Escaped(value) ==
    FlattenSeq([i \in DOMAIN value |->
                   IF value[i] = Quote THEN <<Quote, Quote>> ELSE <<value[i]>>])

\* ShouldQuoteColumn and WriteColumnValue.
CellText(c, value) ==
    CASE ColumnTypes[c] = "TEXT" -> <<Quote>> \o Escaped(value) \o <<Quote>>
      [] ColumnTypes[c] = "CHAR" -> <<Quote>> \o Escaped(<<value>>) \o <<Quote>>
      [] ColumnTypes[c] = "INTEGER" -> Decimal[value]

RowText(batch, r) ==
    FlattenSeq([c \in Columns |->
                   CellText(c, batch[c][r])
                     \o IF c < Len(ColumnTypes) THEN <<Comma>> ELSE <<Newline>>])

\* The row count is the one of the metadata, the length of the first column.
BatchText(batch) == FlattenSeq([r \in DOMAIN batch[1] |-> RowText(batch, r)])

----------------------------------------------------------------------------
RoundInit ==
    /\ table \in Tables
    /\ exported = 0 /\ epc = "exporting"
    /\ file = <<>> /\ ReaderInit

\* ExportFile: one batch of the reader after the other, each appended.
ExportBatch ==
    /\ epc = "exporting" /\ exported < Len(table)
    /\ file' = file \o BatchText(table[exported + 1])
    /\ exported' = exported + 1
    /\ UNCHANGED <<table, epc, readerVars>>

\* The exporter's destructor closes the file.
CloseExport ==
    /\ epc = "exporting" /\ exported = Len(table)
    /\ epc' = "closed"
    /\ UNCHANGED <<table, exported, importVars>>

\* The import of the text, in a later run of the program.
Reimport == epc = "closed" /\ ImportStep /\ UNCHANGED exportVars

RoundNext == ExportBatch \/ CloseExport \/ Reimport

RoundSpec == RoundInit /\ [][RoundNext]_roundVars

----------------------------------------------------------------------------
(* Properties *)

Table == [c \in Columns |-> FlattenSeq([k \in DOMAIN table |-> table[k][c]])]

\* What was exported comes back, value by value (README.md:146): the text of
\* every table parses, and gives the columns it was written from, whatever
\* quotes, commas and newlines the values hold and wherever the blocks fall.
ComesBack == ipc # "failed" /\ (ipc = "done" => Delivered = Table)
=============================================================================
