------------------------------ MODULE MCKioDb ------------------------------
(* Four batches for a schema of two columns: an ordinary one, one of no rows *)
(* whose first chunk has no bytes (its second, of another encoding, has      *)
(* one), one with a column too few and one with a column too many.           *)
EXTENDS KioDb

MCBatch == {"full", "empty", "narrow", "wide"}

MCSize == [full |-> <<1, 2>>, empty |-> <<0, 1>>, narrow |-> <<1>>,
           wide |-> <<1, 1, 1>>]

MCRows == [full |-> 2, empty |-> 0, narrow |-> 1, wide |-> 1]

\* All the columns, one of them, a reordered scan, and a column the schema
\* does not have.
MCProjections == {<<0, 1>>, <<1>>, <<1, 0>>, <<0, 2>>}
=============================================================================
