--------------------------- MODULE MCColumnCodec ---------------------------
(* Columns of up to MaxRows values at the boundaries of their type.         *)
EXTENDS ColumnCodec

CONSTANT MaxRows  \* bound: rows of a column

UpTo(n, values) == UNION {[1 .. k -> values] : k \in 0 .. n}

MCColumnsOf ==
    [t \in Types |->
        UpTo(MaxRows,
             CASE t = "BIGINT" -> {-128, -127, -1, 0, 1, 63, 127}
               [] t = "SMALLINT" -> {-8, -1, 0, 7}
               [] t = "CHAR" -> {-8, 0, 1, 7}
               [] t = "DOUBLE" -> {0, 1, 120, 128, 255}  \* both zeros, infinity, a NaN
               [] t = "TEXT" -> {<<>>, <<0>>, <<1>>, <<15, 0>>, <<1, 2, 3>>})]
=============================================================================
