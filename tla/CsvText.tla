------------------------------ MODULE CsvText ------------------------------
(***************************************************************************)
(* CSV text and what the program makes of a buffer of it: the cut at the   *)
(* end of the last whole row, the parser that appends fields to the        *)
(* columns of a batch, and the row parser that reads schema files.         *)
(*                                                                         *)
(* A character is a string of length one, a text a sequence of them.  The  *)
(* state after i characters of a buffer is the i-th value of a function,   *)
(* for loops that look one character ahead and may jump over it.           *)
(***************************************************************************)
EXTENDS Naturals, Sequences, SequencesExt

CONSTANT ColumnTypes  \* Schema: the types of the columns, in order

ASSUME ColumnTypeAssumption ==
    ColumnTypes \in Seq({"TEXT", "CHAR", "INTEGER"}) /\ ColumnTypes # <<>>

Quote == "\""
Comma == ","
Newline == "\n"
CR == "\r"
Digit == <<"0", "1", "2", "3", "4", "5", "6", "7", "8", "9">>

Columns == DOMAIN ColumnTypes

----------------------------------------------------------------------------
(* Quotes: the state the three loops share *)

\* Character i of a buffer is the first of a doubled quote inside quotes.
Doubled(buffer, i, in_quote) ==
    buffer[i] = Quote /\ in_quote /\ i < Len(buffer) /\ buffer[i + 1] = Quote

QuoteState == [in_quote : BOOLEAN, jump : BOOLEAN]

QuoteStart == [in_quote |-> FALSE, jump |-> FALSE]

\* Character i: a doubled quote is jumped over, any other quote toggles.
QuoteStep(buffer, i) == [q \in QuoteState |->
    IF q.jump \/ buffer[i] # Quote THEN [q EXCEPT !.jump = FALSE]
    ELSE IF Doubled(buffer, i, q.in_quote) THEN [q EXCEPT !.jump = TRUE]
    ELSE [q EXCEPT !.in_quote = ~@]]

QuoteStates(buffer) ==
    LET state[i \in 0 .. Len(buffer)] ==
          IF i = 0 THEN QuoteStart ELSE QuoteStep(buffer, i)[state[i - 1]]
    IN  state

\* Mutant: a newline inside quotes ends a row as well.
AnyNewline(buffer, states, i) == buffer[i] = Newline

\* Character i is a newline that ends a row.
EndsRow(buffer, states, i) == buffer[i] = Newline /\ ~states[i].in_quote

RowEnds(buffer) ==
    LET states == QuoteStates(buffer)
    IN  {i \in DOMAIN buffer : EndsRow(buffer, states, i)}

\* CutBatchToNewLine: the length up to the end of the last whole row, 0 (npos)
\* when there is none.
CutBatchToNewLine(buffer) == Max({0} \union RowEnds(buffer))

----------------------------------------------------------------------------
(* The parser of a batch *)

\* A '\r' before the end of the row is dropped, wherever it came from.
DropCR(field) ==
    IF field # <<>> /\ Last(field) = CR THEN Front(field) ELSE field

\* from_chars over the whole field.
ParsesAsNumber(field) == field # <<>> /\ Range(field) \subseteq Range(Digit)

DigitValue(ch) == CHOOSE d \in 0 .. 9 : Digit[d + 1] = ch

ParseNum(field) ==
    LET number[i \in 0 .. Len(field)] ==
          IF i = 0 THEN 0 ELSE 10 * number[i - 1] + DigitValue(field[i])
    IN  number[Len(field)]

\* AppendField throws: no such column, an empty CHAR, not a number.
FieldRejected(c, field) ==
    \/ c \notin Columns
    \/ ColumnTypes[c] = "CHAR" /\ field = <<>>
    \/ ColumnTypes[c] = "INTEGER" /\ ~ParsesAsNumber(field)

Value(c, field) ==
    CASE ColumnTypes[c] = "TEXT" -> field
      [] ColumnTypes[c] = "CHAR" -> field[1]
      [] ColumnTypes[c] = "INTEGER" -> ParseNum(field)

\* What a parse has appended so far, as <<column, field>> in order, and the
\* local variables of ParseBuffer.
ParseState ==
    [cells : Seq(Nat \X Seq(STRING)), field : Seq(STRING), col : Nat,
     row_started : BOOLEAN, thrown : BOOLEAN]

ParseStart ==
    [cells |-> <<>>, field |-> <<>>, col |-> 1, row_started |-> FALSE,
     thrown |-> FALSE]

\* Mutant: an empty field is taken for none.
AppendNonEmptyField(p, field) ==
    IF field = <<>> THEN p
    ELSE IF FieldRejected(p.col, field) THEN [p EXCEPT !.thrown = TRUE]
    ELSE [p EXCEPT !.cells = Append(@, <<p.col, field>>), !.field = <<>>]

AppendField(p, field) ==
    IF FieldRejected(p.col, field) THEN [p EXCEPT !.thrown = TRUE]
    ELSE [p EXCEPT !.cells = Append(@, <<p.col, field>>), !.field = <<>>]

\* Character i, q the quotes before it.
ParseStep(buffer, i, q) == [p \in ParseState |->
    IF p.thrown \/ q.jump THEN p
    ELSE IF buffer[i] = Quote THEN
        IF Doubled(buffer, i, q.in_quote)
        THEN [p EXCEPT !.field = Append(@, Quote), !.row_started = TRUE]
        ELSE [p EXCEPT !.row_started = TRUE]
    ELSE IF buffer[i] = Comma /\ ~q.in_quote THEN
        [AppendField(p, p.field) EXCEPT !.col = @ + 1, !.row_started = TRUE]
    ELSE IF buffer[i] = Newline /\ ~q.in_quote THEN
        [AppendField(p, DropCR(p.field)) EXCEPT !.col = 1, !.row_started = FALSE]
    ELSE [p EXCEPT !.field = Append(@, buffer[i]), !.row_started = TRUE]]

\* What follows the loop: a quote left open throws, and a last row without
\* newline is appended.
ParseEnd(q) == [p \in ParseState |->
    IF q.in_quote THEN [p EXCEPT !.thrown = TRUE]
    ELSE IF ~p.thrown /\ (p.field # <<>> \/ p.col # 1 \/ p.row_started)
    THEN AppendField(p, DropCR(p.field))
    ELSE p]

ParseStates(buffer) ==
    LET states == QuoteStates(buffer)
        parse[i \in 0 .. Len(buffer)] ==
          IF i = 0 THEN ParseStart
          ELSE ParseStep(buffer, i, states[i - 1])[parse[i - 1]]
    IN  parse

ParseBuffer(buffer) ==
    ParseEnd(QuoteStates(buffer)[Len(buffer)])[ParseStates(buffer)[Len(buffer)]]

\* The columns of a batch, each cell appended to its own.
BatchOf(cells) ==
    LET batch[n \in 0 .. Len(cells)] ==
          IF n = 0 THEN [c \in Columns |-> <<>>]
          ELSE [batch[n - 1] EXCEPT ![cells[n][1]] =
                   Append(@, Value(cells[n][1], cells[n][2]))]
    IN  batch[Len(cells)]

----------------------------------------------------------------------------
(* CSVRowParser: the parser of schema files, which keeps whole rows *)

\* The rows returned, the row and the value ParseNext is in, and whether it
\* has taken a character.
RowState ==
    [rows : Seq(Seq(Seq(STRING))), row : Seq(Seq(STRING)), elem : Seq(STRING),
     open : BOOLEAN]

RowStart == [rows |-> <<>>, row |-> <<>>, elem |-> <<>>, open |-> FALSE]

\* Mutant: a comma inside quotes ends the value.
RowStepSplitsQuotes(buffer, i, q) == [r \in RowState |->
    IF q.jump THEN r
    ELSE IF buffer[i] = Quote THEN
        IF Doubled(buffer, i, q.in_quote)
        THEN [r EXCEPT !.elem = Append(@, Quote), !.open = TRUE]
        ELSE [r EXCEPT !.open = TRUE]
    ELSE IF buffer[i] = Comma THEN
        [r EXCEPT !.row = Append(@, r.elem), !.elem = <<>>, !.open = TRUE]
    ELSE IF buffer[i] = Newline /\ ~q.in_quote THEN
        [RowStart EXCEPT !.rows = Append(r.rows, Append(r.row, DropCR(r.elem)))]
    ELSE [r EXCEPT !.elem = Append(@, buffer[i]), !.open = TRUE]]

RowStep(buffer, i, q) == [r \in RowState |->
    IF q.jump THEN r
    ELSE IF buffer[i] = Quote THEN
        IF Doubled(buffer, i, q.in_quote)
        THEN [r EXCEPT !.elem = Append(@, Quote), !.open = TRUE]
        ELSE [r EXCEPT !.open = TRUE]
    ELSE IF buffer[i] = Comma /\ ~q.in_quote THEN
        [r EXCEPT !.row = Append(@, r.elem), !.elem = <<>>, !.open = TRUE]
    ELSE IF buffer[i] = Newline /\ ~q.in_quote THEN
        [RowStart EXCEPT !.rows = Append(r.rows, Append(r.row, DropCR(r.elem)))]
    ELSE [r EXCEPT !.elem = Append(@, buffer[i]), !.open = TRUE]]

RowStates(buffer) ==
    LET states == QuoteStates(buffer)
        parse[i \in 0 .. Len(buffer)] ==
          IF i = 0 THEN RowStart
          ELSE RowStep(buffer, i, states[i - 1])[parse[i - 1]]
    IN  parse

\* CSVBatchReader::ParseBuffer: every row of a buffer whose quotes match.
ParseRows(buffer) ==
    LET r == RowStates(buffer)[Len(buffer)]
    IN  IF r.open THEN Append(r.rows, Append(r.row, r.elem)) ELSE r.rows

\* The values of a list of rows, as the cells of a batch.
CellsOfRows(rows) ==
    FlattenSeq([r \in DOMAIN rows |->
                   [c \in DOMAIN rows[r] |-> <<c, rows[r][c]>>]])
=============================================================================
