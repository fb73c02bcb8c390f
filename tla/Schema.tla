------------------------------- MODULE Schema -------------------------------
(***************************************************************************)
(* The schema of a file or of a batch: a sequence of columns, each a name  *)
(* and a type.  It is loaded from the rows of a schema CSV, or derived     *)
(* from another schema by an operator of a query.                          *)
(***************************************************************************)
EXTENDS Integers, Sequences, TLC

\* The element type of the vector that holds a column, by Schema::Types.
CppType ==
    [BIGINT |-> "int64", TIMESTAMP |-> "int64", INTEGER |-> "int32",
     DATE |-> "int32", SMALLINT |-> "int16", DOUBLE |-> "double",
     TEXT |-> "string", VARCHAR |-> "string", CHAR |-> "char"]

Types == DOMAIN CppType

\* The spellings ParseType knows; any other throws.
ParseType ==
    [t \in {"BIGINT", "INTEGER", "SMALLINT", "TEXT", "VARCHAR", "CHAR",
            "TIMESTAMP", "DATE", "DOUBLE"} |-> t]
    @@ ("int64" :> "BIGINT") @@ ("INTENGER" :> "INTEGER")
    @@ ("string" :> "TEXT") @@ ("VARCHAR(255)" :> "VARCHAR")
    @@ ("double" :> "DOUBLE") @@ ("Float64" :> "DOUBLE")

Col(name, type) == [name |-> name, type |-> type]

\* The same name twice makes ResetFromRows and ResetFromColumns throw.
HasDuplicates(schema) ==
    \E i, j \in DOMAIN schema : i # j /\ schema[i].name = schema[j].name

ResetFromRowsThrows(rows) ==
    \/ \E i \in DOMAIN rows :
           Len(rows[i]) # 2 \/ rows[i][2] \notin DOMAIN ParseType
    \/ \E i, j \in DOMAIN rows : i # j /\ rows[i][1] = rows[j][1]

ResetFromRows(rows) ==
    [i \in DOMAIN rows |-> Col(rows[i][1], ParseType[rows[i][2]])]

HasColumn(schema, name) == \E i \in DOMAIN schema : schema[i].name = name

\* std::out_of_range unless HasColumn.
ColumnIndex(schema, name) ==
    CHOOSE i \in DOMAIN schema : schema[i].name = name

ColumnType(schema, name) == schema[ColumnIndex(schema, name)].type

ProjectByIndices(schema, indices) ==
    [k \in DOMAIN indices |-> schema[indices[k]]]

\* ProjectByNames, and what the operators do that look names up themselves.
ProjectThrows(schema, names) ==
    \/ \E k \in DOMAIN names : ~HasColumn(schema, names[k])
    \/ \E i, j \in DOMAIN names : i # j /\ names[i] = names[j]

Indices(schema, names) == [k \in DOMAIN names |-> ColumnIndex(schema, names[k])]
=============================================================================
