---------------------------- MODULE Expressions ----------------------------
(***************************************************************************)
(* The computed columns of the ClickBench plans.  An expression reads      *)
(* columns that have to hold values of its C++ types and gives one value   *)
(* per row for a new column of its type.                                   *)
(***************************************************************************)
EXTENDS Columns, DateCodes

kMinutesPerHour == 60

Expression(name, type, kind, columns, cpps, x) ==
    [name |-> name, type |-> type, kind |-> kind, columns |-> columns,
     cpps |-> cpps, x |-> x]

StringLength(column, result) ==
    Expression(result, "BIGINT", "size", <<column>>, <<"string">>, 0)

Int32Minus(column, x, result) ==
    Expression(result, "INTEGER", "minus", <<column>>, <<"int32">>, x)

\* Mutant: the column is taken for one of SMALLINT.
MinuteOfSmallInt(column, result) ==
    Expression(result, "BIGINT", "minute", <<column>>, <<"int16">>, 0)

MinuteColumn(column, result) ==
    Expression(result, "BIGINT", "minute", <<column>>, <<"int64">>, 0)

DateTruncMinute(column, result) ==
    Expression(result, "TIMESTAMP", "truncMinute", <<column>>, <<"int64">>, 0)

DomainColumn(column, result) ==
    Expression(result, "TEXT", "domain", <<column>>, <<"string">>, 0)

ConstantOne == Expression("one", "BIGINT", "one", <<>>, <<>>, 1)

AggregatedSumPlus(sum_column, count_column, multiplier, result) ==
    Expression(result, "BIGINT", "sumPlus", <<sum_column, count_column>>,
               <<"int64", "int64">>, multiplier)

CaseSource ==
    Expression("Src", "TEXT", "caseSource",
               <<"SearchEngineID", "AdvEngineID", "Referer">>,
               <<"int16", "int16", "string">>, 0)

UrlDestination == Expression("Dst", "TEXT", "same", <<"URL">>, <<"string">>, 0)

MinuteOfTimestamp(t) == Remainder(Quotient(t, kSecondsPerMinute), kMinutesPerHour)

TruncateToMinute(t) == t - Remainder(t, kSecondsPerMinute)

\* The value for a row whose arguments are a.
Evaluate(e, a) ==
    CASE e.kind = "size" -> TextSize(a[1])
      [] e.kind = "minus" -> a[1] - e.x
      [] e.kind = "minute" -> MinuteOfTimestamp(a[1])
      [] e.kind = "truncMinute" -> TruncateToMinute(a[1])
      [] e.kind = "domain" -> RefererDomain(a[1])
      [] e.kind = "one" -> 1
      [] e.kind = "sumPlus" -> a[1] + e.x * a[2]
      [] e.kind = "caseSource" -> IF a[1] = 0 /\ a[2] = 0 THEN a[3] ELSE <<>>
      [] e.kind = "same" -> a[1]

\* The && and the if of CaseSource take a column's value only when the ones
\* before it are 0.
Takes(e, schema, row, k) ==
    e.kind = "caseSource" =>
        \A j \in 1 .. k - 1 : row[ColumnIndex(schema, e.columns[j])] = 0

\* ColumnIndex at the first row, or std::get when a value is taken.
ExpressionThrows(e, schema, row) ==
    \/ \E k \in DOMAIN e.columns : ~HasColumn(schema, e.columns[k])
    \/ \E k \in DOMAIN e.columns :
           /\ CppType[ColumnType(schema, e.columns[k])] # e.cpps[k]
           /\ Takes(e, schema, row, k)

Arguments(e, schema, row) ==
    [k \in DOMAIN e.columns |-> row[ColumnIndex(schema, e.columns[k])]]
=============================================================================
