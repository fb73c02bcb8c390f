--------------------------- MODULE MCOrderedQuery ---------------------------
(* Files of up to three row groups and five rows with two columns, duplicate *)
(* sort keys and an empty row group; constraints whose bounds fall on the    *)
(* minimum, on the maximum, inside and outside a row group, on the column    *)
(* the rows are sorted by and on the other; limits and offsets that end      *)
(* before, at and after the end of the input.                                *)
EXTENDS OrderedQuery

MCColumn == {"k", "v"}

R(k, v) == [k |-> k, v |-> v]

MCRow == {R(k, v) : k \in 1 .. 2, v \in 1 .. 2} \cup {R(3, 1)}

G(rows) ==
    [rows |-> rows,
     stats |-> [col \in MCColumn |->
                   FindMinMax([i \in DOMAIN rows |-> rows[i][col]])]]

MCTables ==
    {<<G(<<R(2, 1), R(1, 2)>>), G(<<>>), G(<<R(1, 1), R(3, 1)>>)>>,
     <<G(<<R(1, 1), R(1, 1)>>), G(<<R(2, 2), R(2, 1)>>), G(<<R(1, 2)>>)>>,
     <<>>}

MCRowGroup == UNION {{t[g] : g \in DOMAIN t} : t \in MCTables}

Exactly(col, x) ==
    [column |-> col, lower |-> {x}, upper |-> {x}, lower_inclusive |-> TRUE,
     upper_inclusive |-> TRUE, not_equal |-> {}]

Differs(col, x) ==
    [column |-> col, lower |-> {}, upper |-> {}, lower_inclusive |-> TRUE,
     upper_inclusive |-> TRUE, not_equal |-> {x}]

Within(col, x, y, inclusive) ==
    [column |-> col, lower |-> {x}, upper |-> {y},
     lower_inclusive |-> inclusive, upper_inclusive |-> inclusive,
     not_equal |-> {}]

MCConstraint ==
    {Exactly("k", 1), Exactly("v", 2), Differs("k", 1), Differs("v", 1),
     Within("k", 2, 3, TRUE), Within("k", 1, 3, FALSE)}

\* ORDER BY v DESC, k ASC
MCSortColumns ==
    <<[column |-> "v", order |-> "DESC"], [column |-> "k", order |-> "ASC"]>>

MCAccepts == {MCRow, MCRow \ {R(1, 1)}}
=============================================================================
