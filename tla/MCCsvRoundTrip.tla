-------------------------- MODULE MCCsvRoundTrip --------------------------
(* Tables of up to two rows, in one batch or in two, with the characters    *)
(* that the text has to quote in every place of a value.                    *)
EXTENDS CsvRoundTrip

CONSTANT TextChars  \* the characters of TEXT values

MCColumnTypes == <<"INTEGER", "CHAR", "TEXT">>

Texts == UNION {[1 .. n -> TextChars] : n \in 0 .. 2}
FirstRows == {0, 10} \X {Quote, Comma, Newline} \X Texts
LastRows == {7} \X {Quote, "a"} \X {<<>>, <<Quote, Newline>>}

Rows(rows) == [c \in Columns |-> [r \in DOMAIN rows |-> rows[r][c]]]

MCTables ==
    {<<>>} \union {<<Rows(<<r>>)>> : r \in FirstRows}
      \union {<<Rows(<<r, s>>)>> : r \in FirstRows, s \in LastRows}
      \union {<<Rows(<<r>>), Rows(<<s>>)>> : r \in FirstRows, s \in LastRows}

QuotedChars == {Quote, Comma, Newline}
CarriageReturn == {CR, "a"}

NoFiles == {}  \* the file is the one the exporter writes
=============================================================================
