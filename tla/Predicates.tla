----------------------------- MODULE Predicates -----------------------------
(***************************************************************************)
(* The predicates of the filters, as exec_pred builds them, and the        *)
(* constraints that let a scan pass over row groups.  A predicate is a     *)
(* sequence of tests of one column each, tried in order until one fails    *)
(* (And); a column's name and type are looked up when its test is first    *)
(* tried.                                                                  *)
(***************************************************************************)
EXTENDS Columns, MinMax

\* A test of a column that has to hold values of a C++ type.
Test(column, cpp, op, value) ==
    [column |-> column, cpp |-> cpp, op |-> op, value |-> value]

EqualTo(cpp, column, x) == <<Test(column, cpp, "=", x)>>
NotEqualTo(cpp, column, x) == <<Test(column, cpp, "#", x)>>
GreaterEqual(cpp, column, x) == <<Test(column, cpp, ">=", x)>>
LessEqual(cpp, column, x) == <<Test(column, cpp, "<=", x)>>
StringNotEmpty(column) == <<Test(column, "string", "notEmpty", "")>>
Contains(column, needle) == <<Test(column, "string", "contains", needle)>>
NotContains(column, needle) == <<Test(column, "string", "notContains", needle)>>
InSmallInt(column, l, r) == <<Test(column, "int16", "in", {l, r})>>

Holds(test, x) ==
    CASE test.op = "=" -> x = test.value
      [] test.op = "#" -> x # test.value
      [] test.op = ">=" -> x >= test.value
      [] test.op = "<=" -> x <= test.value
      [] test.op = "notEmpty" -> x # <<>>
      [] test.op = "contains" -> TextHolds(x, test.value)
      [] test.op = "notContains" -> ~TextHolds(x, test.value)
      [] test.op = "in" -> x \in test.value

\* ColumnIndex, or std::get in GetColumnData.
TestThrows(test, schema) ==
    HasColumn(schema, test.column)
        => CppType[ColumnType(schema, test.column)] # test.cpp

TestHolds(test, schema, row) == Holds(test, row[ColumnIndex(schema, test.column)])

\* The first test that does not hold, or throws, ends the row.
PredicateThrows(predicate, schema, row) ==
    \E k \in DOMAIN predicate :
        /\ \A j \in 1 .. k - 1 : /\ ~TestThrows(predicate[j], schema)
                                 /\ TestHolds(predicate[j], schema, row)
        /\ TestThrows(predicate[k], schema)

PredicateHolds(predicate, schema, row) ==
    \A k \in DOMAIN predicate : TestHolds(predicate[k], schema, row)

-----------------------------------------------------------------------------
(* MinMaxConstraint: bounds that hold values of one C++ type, for statistics *)
(* that are parsed as one type of the schema.                                *)

Constraint(column, type, cpp, lower, upper, not_equal) ==
    [column |-> column, type |-> type, cpp |-> cpp, lower |-> lower,
     upper |-> upper, lower_inclusive |-> TRUE, upper_inclusive |-> TRUE,
     not_equal |-> not_equal]

EqConstraint(column, type, cpp, x) == Constraint(column, type, cpp, {x}, {x}, {})

BetweenConstraint(column, type, cpp, lower, upper) ==
    Constraint(column, type, cpp, {lower}, {upper}, {})

NotEqConstraint(column, type, cpp, x) == Constraint(column, type, cpp, {}, {}, {x})

\* ParseNum<int16_t> of a statistic that needs more bits.
ParseMinMaxThrows(type, chunk) ==
    /\ CppType[type] = "int16"
    /\ ~({chunk.min, chunk.max} \subseteq -32768 .. 32767)

ConstraintThrows(schema, c, chunk) ==
    HasColumn(schema, c.column)
        => /\ chunk.has_min_max
           /\ CppType[c.type] # c.cpp \/ ParseMinMaxThrows(c.type, chunk)
=============================================================================
