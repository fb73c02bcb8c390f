------------------------------- MODULE Table -------------------------------
(* Rows as the operators of a query see them: a value per column.            *)
(* Integers stand for the values of the column types that C++ orders totally *)
(* (integers, dates, timestamps, strings and characters; not NaN).           *)
EXTENDS Integers, Sequences

CONSTANTS
    Column,  \* columns of a row
    Row      \* rows

ASSUME RowsAssumption == Row \subseteq [Column -> Int]
=============================================================================
