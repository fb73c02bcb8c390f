---------------------------- MODULE QueryMeaning ----------------------------
(***************************************************************************)
(* What a query means, without batches, row groups, constraints or         *)
(* operators that remember: a table is a sequence of rows whose values go  *)
(* by the names of the columns, and every node of the query makes a table  *)
(* of its child's.  ORDER BY and LIMIT leave a choice among equal rows, so *)
(* that a query means a set of tables.                                     *)
(***************************************************************************)
EXTENDS Pipeline

LOCAL Q == INSTANCE SequencesExt
LOCAL F == INSTANCE FiniteSetsExt

Restricted(row, names) == [n \in names |-> row[n]]

AsTuple(schema, row) == [c \in DOMAIN schema |-> row[schema[c].name]]

NamesOf(schema) == {schema[c].name : c \in DOMAIN schema}

\* The rows of the whole file.
FileRows ==
    Q!FlattenSeq([g \in DOMAIN file.row_groups |->
        [i \in 1 .. file.row_groups[g].row_num |->
            [n \in NamesOf(file.schema) |->
                file.row_groups[g].columns[ColumnIndex(file.schema, n)][i]]]])

ExpressionMeaning(e, row) ==
    CASE e.kind = "minute" -> FormatTimestamp(row[e.columns[1]]).minute
      [] e.kind = "truncMinute" ->
           TimeToSeconds([FormatTimestamp(row[e.columns[1]]) EXCEPT !.second = 0])
      [] OTHER -> Evaluate(e, [k \in DOMAIN e.columns |-> row[e.columns[k]]])

\* An aggregate of the rows with these numbers.
AggregateMeaning(spec, schema, rows, members) ==
    LET Arg(i) == rows[i][spec.column_name]
        args == {Arg(i) : i \in members}
        Before(x, y) == Less(ColumnType(schema, spec.column_name), x, y)
        sum == F!MapThenSumSet(Arg, members)
    IN  CASE spec.kind = "COUNT" -> Cardinality(members)
          [] spec.kind = "COUNT_DISTINCT" -> Cardinality(args)
          [] spec.kind = "SUM" -> sum
          [] spec.kind = "AVG" -> Quotient0(sum, Cardinality(members))
          [] spec.kind = "MIN" -> CHOOSE x \in args : \A y \in args \ {x} : Before(x, y)
          [] spec.kind = "MAX" -> CHOOSE x \in args : \A y \in args \ {x} : Before(y, x)

LineMeaning(specs, schema, rows, members) ==
    [n \in {specs[k].result_name : k \in DOMAIN specs} |->
        AggregateMeaning(CHOOSE s \in {specs[k] : k \in DOMAIN specs} :
                             s.result_name = n,
                         schema, rows, members)]

GroupMeaning(node, schema, rows) ==
    LET Key(i) == Restricted(rows[i], {node.keys[k] : k \in DOMAIN node.keys})
        lines == {Key(i) @@ LineMeaning(node.aggregates, schema, rows,
                                {j \in DOMAIN rows : Key(j) = Key(i)})
                     : i \in DOMAIN rows}
    IN  Q!SetToSeq(lines)

\* The rows offset + 1 to offset + limit of some order that agrees with the pairs of
\* precedes.
Windows(rows, limit, offset, precedes) ==
    LET places == {i \in DOMAIN rows : offset < i /\ i <= offset + limit}
    IN  {[i \in 1 .. Cardinality(places) |-> rows[order[offset + i]]]
            : order \in SortedOrders(Len(rows), precedes)}

SchemaMeaning(node, schema) ==
    CASE node.op = "scan" -> ProjectByIndices(file.schema,
                                              Indices(file.schema, ScanColumns))
      [] node.op = "project" -> ProjectByIndices(schema,
                                                 Indices(schema, node.columns))
      [] node.op = "compute" ->
           schema \o [k \in DOMAIN node.specs |->
                         Col(node.specs[k].name, node.specs[k].type)]
      [] node.op = "global" -> AggregateSchema(schema, node.aggregates)
      [] node.op = "group" -> GroupSchema(schema, node.keys, node.aggregates)
      [] OTHER -> schema

RowMeaning(node, row) ==
    CASE node.op = "project" ->
           Restricted(row, {node.columns[k] : k \in DOMAIN node.columns})
      [] node.op = "compute" ->
           row @@ [n \in {node.specs[k].name : k \in DOMAIN node.specs} |->
                      ExpressionMeaning(CHOOSE e \in {node.specs[k] :
                                                     k \in DOMAIN node.specs} :
                                            e.name = n, row)]

\* The tables a node may make of a table.
TableMeaning(node, schema, rows) ==
    LET precedes ==
            {<<i, j>> \in (DOMAIN rows) \X (DOMAIN rows) :
                RowComesBefore(schema, node.keys, AsTuple(schema, rows[i]),
                               AsTuple(schema, rows[j]))}
    IN  CASE node.op = "filter" ->
               {SelectSeq(rows, LAMBDA row : \A k \in DOMAIN node.predicate :
                    Holds(node.predicate[k], row[node.predicate[k].column]))}
          [] node.op \in {"project", "compute"} ->
               {[i \in DOMAIN rows |-> RowMeaning(node, rows[i])]}
          [] node.op = "global" ->
               {<<LineMeaning(node.aggregates, schema, rows, DOMAIN rows)>>}
          [] node.op = "group" -> {GroupMeaning(node, schema, rows)}
          [] node.op = "sort" -> Windows(rows, Len(rows), 0, precedes)
          [] node.op = "orderedLimit" ->
               Windows(rows, node.limit, node.offset, precedes)
          [] node.op = "limit" ->
               Windows(rows, node.limit, node.offset, {})

Meaning ==
    Q!FoldRight(
        LAMBDA node, result :
            [schema |-> SchemaMeaning(node, result.schema),
             tables |-> IF node.op = "scan" THEN {FileRows}
                        ELSE UNION {TableMeaning(node, result.schema, t)
                                       : t \in result.tables}],
        Queries[query], [schema |-> <<>>, tables |-> {}])

Ops == {Queries[query][i].op : i \in DOMAIN Queries[query]}

\* The result files that answer the query.  Without ORDER BY and LIMIT the
\* rows come in any order.
Answers ==
    LET ordered == Ops \cap {"sort", "orderedLimit", "limit"} # {}
        Orders_(t) == IF ordered THEN {t} ELSE Windows(t, Len(t), 0, {})
    IN  {[i \in DOMAIN t |-> AsTuple(Meaning.schema, t[i])]
            : t \in UNION {Orders_(t) : t \in Meaning.tables}}

-----------------------------------------------------------------------------
(* Correctness.                                                              *)

CONSTANT HitsSchema  \* the schema of the ClickBench table

\* Every column a plan names exists where it is named and holds values of the
\* C++ type its user takes it for: no query throws over a table of hits, though
\* names and types are looked up when the first row arrives.
NoQueryFails == outcome = "failed" => file.schema # HitsSchema

\* An exception comes before the first row reaches the result file.
FailureLeavesNoRows == outcome = "failed" => csv = <<>>

\* Nothing to aggregate: the global aggregate gets no batch and returns none.
NothingRead ==
    "global" \in Ops /\ \A g \in DOMAIN file.row_groups : ~RowGroupMayMatch(g)

\* The result file answers the query: pruned row groups, the cut of the table
\* into batches, batches of no rows, the order the operators are put in and
\* what they remember between batches do not show in it.
AnswerIsMeaning ==
    outcome = "ok" => IF NothingRead THEN csv = <<>> ELSE csv \in Answers

\* A batch has the columns of its schema, and each holds as many values as the
\* row count says, which travels beside them.
BatchesConsistent ==
    ret # NoBatch =>
        /\ Len(ret.columns) = Len(ret.schema)
        /\ \A c \in DOMAIN ret.columns : Len(ret.columns[c]) = ret.row_count
=============================================================================
