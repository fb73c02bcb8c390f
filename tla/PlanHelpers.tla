---------------------------- MODULE PlanHelpers ----------------------------
(***************************************************************************)
(* exec_plan: the nodes plans are built from.  Every operator has one      *)
(* child, so that a plan is the sequence of its nodes from the root to the *)
(* scan.                                                                   *)
(***************************************************************************)
EXTENDS Aggregates, Predicates, Expressions

LOCAL S == INSTANCE SequencesExt

\* Every column of the file, whichever they are: the helper opens the file to
\* list them.
AllColumns == <<"*">>

Scan(columns, constraints) ==
    <<[op |-> "scan", columns |-> columns, constraints |-> constraints]>>

Filter(child, predicate) ==
    <<[op |-> "filter", predicate |-> predicate]>> \o child

And(predicates) == S!FlattenSeq(predicates)

Project(child, columns) == <<[op |-> "project", columns |-> columns]>> \o child

Compute(child, specs) == <<[op |-> "compute", specs |-> specs]>> \o child

Global(child, aggregates) ==
    <<[op |-> "global", aggregates |-> aggregates]>> \o child

Group(child, keys, aggregates) ==
    <<[op |-> "group", keys |-> keys, aggregates |-> aggregates]>> \o child

SortKey(column, order) == [column_name |-> column, order |-> order]

Sort(child, keys) == <<[op |-> "sort", keys |-> keys]>> \o child

TopK(child, keys, limit) ==
    <<[op |-> "topK", keys |-> keys, limit |-> limit]>> \o child

Limit(child, limit, offset) ==
    <<[op |-> "limit", limit |-> limit, offset |-> offset]>> \o child

\* ORDER BY ... LIMIT ... OFFSET as a query asks for it, and the operators
\* that OrderedLimit makes of it.
OrderedLimit(child, keys, limit, offset) ==
    <<[op |-> "orderedLimit", keys |-> keys, limit |-> limit,
       offset |-> offset]>> \o child

OperatorsOf(node) ==
    CASE node.op # "orderedLimit" -> <<node>>
      [] node.offset = 0 -> TopK(<<>>, node.keys, node.limit)
      [] OTHER -> Limit(TopK(<<>>, node.keys, node.limit + node.offset),
                        node.limit, node.offset)

Physical(nodes) == S!FlattenSeq([i \in DOMAIN nodes |-> OperatorsOf(nodes[i])])

Count(name) == Aggregate("COUNT", "", name)
Sum(column, name) == Aggregate("SUM", column, name)
Avg(column, name) == Aggregate("AVG", column, name)
Min(column, name) == Aggregate("MIN", column, name)
Max(column, name) == Aggregate("MAX", column, name)
CountDistinct(column, name) == Aggregate("COUNT_DISTINCT", column, name)
=============================================================================
