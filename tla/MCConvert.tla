----------------------------- MODULE MCConvert -----------------------------
(* Every CSV file up to a length over the characters the parser tells       *)
(* apart, and longer ones over the characters that decide where a row ends. *)
EXTENDS Convert

CONSTANTS AnyLength, RowLength, QuoteLength  \* bounds: lengths of the files

MCColumnTypes == <<"TEXT", "CHAR">>

\* A right one; a row without a type, an unknown type, a name twice.
MCSchemaFiles ==
    {<<<<"a", "string">>, <<"b", "CHAR">>>>,
     <<<<"a", "string">>, <<"b">>>>,
     <<<<"a", "string">>, <<"b", "BLOB">>>>,
     <<<<"a", "string">>, <<"a", "CHAR">>>>}

FilesOver(chars, length) == UNION {[1 .. n -> chars] : n \in 0 .. length}

MCFiles ==
    FilesOver({Quote, Comma, Newline, CR, "a"}, AnyLength)
      \union FilesOver({Quote, Comma, Newline, "a"}, RowLength)
      \union FilesOver({Quote, Newline}, QuoteLength)
=============================================================================
