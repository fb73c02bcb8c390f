----------------------------- MODULE Aggregates -----------------------------
(***************************************************************************)
(* COUNT, SUM, AVG, MIN, MAX and COUNT DISTINCT: the running states of     *)
(* AggregateOperatorBase, which take a column of a batch at a time, and    *)
(* the value the accumulator of GROUP BY ends with for one group.          *)
(***************************************************************************)
EXTENDS Columns, FiniteSets

LOCAL INSTANCE SequencesExt

Aggregate(kind, column, name) ==
    [kind |-> kind, column_name |-> column, result_name |-> name]

InferAggregateResultType(kind, input_type) ==
    CASE kind \in {"COUNT", "COUNT_DISTINCT"} -> "BIGINT"
      [] kind = "SUM" -> IF input_type = "DOUBLE" THEN "DOUBLE" ELSE "BIGINT"
      [] kind = "AVG" -> "DOUBLE"
      [] OTHER -> input_type

\* MakeAggregateStates looks up every column but COUNT's.
AggregatesThrow(schema, specs) ==
    \/ \E k \in DOMAIN specs :
           /\ specs[k].kind # "COUNT"
           /\ ~HasColumn(schema, specs[k].column_name)
    \/ \E i, j \in DOMAIN specs :
           i # j /\ specs[i].result_name = specs[j].result_name

InputType(schema, spec) ==
    IF spec.kind = "COUNT" THEN "BIGINT" ELSE ColumnType(schema, spec.column_name)

AggregateSchema(schema, specs) ==
    [k \in DOMAIN specs |->
        Col(specs[k].result_name,
            InferAggregateResultType(specs[k].kind, InputType(schema, specs[k])))]

SumOf(values) == FoldLeft(LAMBDA sum, x : sum + x, 0, values)

Elements(values) == {values[i] : i \in DOMAIN values}

MinOf(type, values) ==
    CHOOSE x \in Elements(values) : \A y \in Elements(values) : ~Less(type, y, x)

MaxOf(type, values) ==
    CHOOSE x \in Elements(values) : \A y \in Elements(values) : ~Less(type, x, y)

Quotient0(sum, count) ==
    IF count = 0 THEN [num |-> 0, den |-> 1] ELSE [num |-> sum, den |-> count]

-----------------------------------------------------------------------------
(* AggregateState: the result's vector, avg_sum, avg_count and the distinct  *)
(* values.  MIN and MAX start with no value, the others with zero.           *)

MakeAggregateState(schema, spec) ==
    [column_idx |-> IF spec.kind = "COUNT" THEN 1
                    ELSE ColumnIndex(schema, spec.column_name),
     input_type |-> InputType(schema, spec),
     result |-> CASE spec.kind \in {"MIN", "MAX"} -> <<>>
                  [] spec.kind = "AVG" -> <<Quotient0(0, 0)>>
                  [] OTHER -> <<0>>,
     avg_sum |-> 0, avg_count |-> 0, distinct_values |-> {}]

\* ExecGlobalOperation, by kind.
ApplyAggregateOperation(spec, state, batch) ==
    LET values == batch.columns[state.column_idx]
        known == state.result \o values
    IN  CASE spec.kind = "COUNT" ->
               [state EXCEPT !.result = <<@[1] + batch.row_count>>]
          [] spec.kind = "SUM" -> [state EXCEPT !.result = <<@[1] + SumOf(values)>>]
          [] spec.kind = "AVG" ->
               [state EXCEPT !.avg_sum = @ + SumOf(values),
                             !.avg_count = @ + batch.row_count]
          [] spec.kind = "COUNT_DISTINCT" ->
               [state EXCEPT !.distinct_values = @ \cup Elements(values)]
          [] known = <<>> -> state
          [] spec.kind = "MIN" ->
               [state EXCEPT !.result = <<MinOf(state.input_type, known)>>]
          [] spec.kind = "MAX" ->
               [state EXCEPT !.result = <<MaxOf(state.input_type, known)>>]

\* The column FinalizeAggregation makes of a state.
FinalizeAggregation(spec, state) ==
    CASE spec.kind = "AVG" -> <<Quotient0(state.avg_sum, state.avg_count)>>
      [] spec.kind = "COUNT_DISTINCT" -> <<Cardinality(state.distinct_values)>>
      [] OTHER -> state.result

-----------------------------------------------------------------------------
(* GROUP BY.                                                                 *)

\* What AddGroup and UpdateGroup leave for a group whose rows hold these
\* values in the aggregate's column, as AppendOutputColumns shows it.
GroupValue(spec, type, values) ==
    CASE spec.kind = "COUNT" -> Len(values)
      [] spec.kind = "SUM" -> SumOf(values)
      [] spec.kind = "AVG" -> Quotient0(SumOf(values), Len(values))
      [] spec.kind = "MIN" -> MinOf(type, values)
      [] spec.kind = "MAX" -> MaxOf(type, values)
      [] spec.kind = "COUNT_DISTINCT" -> Cardinality(Elements(values))

GroupSchema(schema, keys, specs) ==
    [k \in DOMAIN keys |-> Col(keys[k], ColumnType(schema, keys[k]))]
        \o AggregateSchema(schema, specs)

\* One line per distinct key, in the order of first appearance.
GroupLines(schema, rows, keys, specs) ==
    LET Key(row) == [k \in DOMAIN keys |-> row[ColumnIndex(schema, keys[k])]]
        leaders == SetToSortSeq({i \in DOMAIN rows :
                       \A j \in 1 .. i - 1 : Key(rows[j]) # Key(rows[i])}, <)
        Members(i) == SelectSeq(rows, LAMBDA row : Key(row) = Key(rows[i]))
        Arg(row, spec) == IF spec.kind = "COUNT" THEN 0
                          ELSE row[ColumnIndex(schema, spec.column_name)]
    IN  [n \in DOMAIN leaders |->
            Key(rows[leaders[n]]) \o
            [a \in DOMAIN specs |->
                LET members == Members(leaders[n])
                IN  GroupValue(specs[a], InputType(schema, specs[a]),
                        [i \in DOMAIN members |-> Arg(members[i], specs[a])])]]
=============================================================================
