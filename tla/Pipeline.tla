------------------------------ MODULE Pipeline ------------------------------
(***************************************************************************)
(* "kio_db query": the plan of a ClickBench query over a .kiodb file,      *)
(* pulled batch by batch by the ResultWriterOperator.                      *)
(*                                                                         *)
(* One operator is active at a time.  It is called (dir = "call") by its   *)
(* parent or gets its child's answer back (dir = "return"), a batch or     *)
(* nullopt (NoBatch), and either calls its child, returns, or throws; an   *)
(* exception ends the command.  What an operator keeps between the calls   *)
(* is its entry of mem.  The hash table of GROUP BY, the heap of Top-K and *)
(* the reader are modules of their own; here these operators do what those *)
(* modules show that they do.                                              *)
(***************************************************************************)
EXTENDS ClickBenchQueries

LOCAL S == INSTANCE SequencesExt

CONSTANT Files(_)  \* the files a query is run on

VARIABLES
    query,    \* the query's number
    file,     \* its schema, and per row group row_num and the columns
    mem,      \* the members (and, in a loop, the locals) of each operator
    active,   \* the operator that is to act; 0 is the result writer
    dir,      \* "call" or "return"
    ret,      \* what the child returned
    csv,      \* the rows written to the result file
    outcome   \* "building" the plan, "running"; then "ok" or "failed"

vars == <<query, file, mem, active, dir, ret, csv, outcome>>

command == <<query, file>>

Node == Plans[query][active]

\* One of these operators acts, on a call or on its child's answer.
IsAt(ops, d) ==
    /\ outcome = "running" /\ active > 0 /\ dir = d
    /\ Node.op \in ops

\* An absent schema is the empty set.
Members(node) ==
    CASE node.op = "scan" -> [next_row_group |-> 0]
      [] node.op = "limit" -> [skipped |-> 0, returned |-> 0]
      [] node.op \in {"filter", "project", "compute"} -> [schema |-> {}]
      [] node.op = "global" -> [done |-> FALSE, schema |-> {}, states |-> <<>>]
      [] OTHER -> [done |-> FALSE, schema |-> {}, rows |-> <<>>]

My == mem[active]

Set(members) == mem' = [mem EXCEPT ![active] = members]

\* The schema remembered since the first batch.
Known(schema) == IF My.schema = {} THEN schema ELSE CHOOSE s \in My.schema : TRUE

CallChild ==
    /\ active' = active + 1 /\ dir' = "call" /\ ret' = NoBatch
    /\ UNCHANGED <<csv, outcome>>

Return(batch) ==
    /\ active' = active - 1 /\ dir' = "return" /\ ret' = batch
    /\ UNCHANGED <<csv, outcome>>

Throw ==
    /\ outcome' = "failed"
    /\ UNCHANGED <<mem, active, dir, ret, csv>>

Batch(schema, columns, row_count) ==
    [schema |-> schema, columns |-> columns, row_count |-> row_count]

Init ==
    /\ query \in DOMAIN Queries
    /\ file \in Files(query)
    /\ mem = [i \in DOMAIN Plans[query] |-> Members(Plans[query][i])]
    /\ active = 0 /\ dir = "call" /\ ret = NoBatch
    /\ csv = <<>> /\ outcome = "building"

ScanNode == Plans[query][Len(Plans[query])]

ScanColumns ==
    IF ScanNode.columns = AllColumns
    THEN [c \in DOMAIN file.schema |-> file.schema[c].name]
    ELSE ScanNode.columns

\* MakeClickBenchQuery, then the result file is opened.
BuildPlan ==
    /\ outcome = "building"
    /\ IF ProjectThrows(file.schema, ScanColumns)
       THEN Throw
       ELSE /\ outcome' = "running"
            /\ UNCHANGED <<mem, active, dir, ret, csv>>
    /\ UNCHANGED command

-----------------------------------------------------------------------------
(* ResultWriterOperator::Next.                                               *)

WriterCalls ==
    /\ outcome = "running" /\ active = 0 /\ dir = "call"
    /\ CallChild
    /\ UNCHANGED <<query, file, mem>>

WriterTakes ==
    /\ outcome = "running" /\ active = 0 /\ dir = "return"
    /\ IF ret = NoBatch
       THEN outcome' = "ok" /\ UNCHANGED csv
       ELSE /\ csv' = IF ret.columns = <<>> THEN csv ELSE csv \o RowsOf(ret)
            /\ UNCHANGED outcome
    /\ dir' = "call"
    /\ UNCHANGED <<query, file, mem, active, ret>>

-----------------------------------------------------------------------------
(* TableScanOperator::Next.                                                  *)

ScanSchema ==
    ProjectByIndices(file.schema, Indices(file.schema, ScanColumns))

Chunk(g, c) == FindMinMax(file.row_groups[g].columns[ColumnIndex(file.schema, c.column)])

\* The constraints are tried in order until one rules the row group out.
RowGroupThrows(g) ==
    \E k \in DOMAIN ScanNode.constraints :
        LET c == ScanNode.constraints
        IN  /\ \A j \in 1 .. k - 1 :
                   /\ ~ConstraintThrows(file.schema, c[j], Chunk(g, c[j]))
                   /\ ConstraintMayMatch(Chunk(g, c[j]), c[j])
            /\ ConstraintThrows(file.schema, c[k], Chunk(g, c[k]))

RowGroupMayMatch(g) ==
    \A k \in DOMAIN ScanNode.constraints :
        ConstraintMayMatch(Chunk(g, ScanNode.constraints[k]),
                           ScanNode.constraints[k])

RowGroupsLeft == My.next_row_group + 1 .. Len(file.row_groups)

\* Every row group before g is passed over.
SkippedUpTo(g) ==
    \A h \in My.next_row_group + 1 .. g - 1 :
        ~RowGroupThrows(h) /\ ~RowGroupMayMatch(h)

ScanReads ==
    /\ IsAt({"scan"}, "call")
    /\ \E g \in RowGroupsLeft :
           /\ SkippedUpTo(g)
           /\ ~RowGroupThrows(g) /\ RowGroupMayMatch(g)
           /\ Set([next_row_group |-> g])
           /\ Return(Batch(ScanSchema,
                  LET indices == Indices(file.schema, ScanColumns)
                  IN  [k \in DOMAIN indices |-> file.row_groups[g].columns[indices[k]]],
                  file.row_groups[g].row_num))
    /\ UNCHANGED command

ScanEnds ==
    /\ IsAt({"scan"}, "call")
    /\ SkippedUpTo(Len(file.row_groups) + 1)
    /\ Set([next_row_group |-> Len(file.row_groups)])
    /\ Return(NoBatch)
    /\ UNCHANGED command

-----------------------------------------------------------------------------
(* The operators that answer each batch with a batch.                        *)

PassesCall ==
    /\ IsAt({"filter", "project", "compute"}, "call")
    /\ CallChild
    /\ UNCHANGED <<query, file, mem>>

PassesEnd ==
    /\ IsAt({"filter", "project", "compute"}, "return") /\ ret = NoBatch
    /\ Return(NoBatch)
    /\ UNCHANGED <<query, file, mem>>

\* A predicate and a computed column look names and types up at the first row
\* they meet, a projection at the first batch, and keep what they found.
FilterThrows ==
    \E i \in 1 .. ret.row_count :
        PredicateThrows(Node.predicate, Known(ret.schema), RowsOf(ret)[i])

FilterBatch ==
    /\ IsAt({"filter"}, "return") /\ ret # NoBatch /\ ~FilterThrows
    /\ LET schema == Known(ret.schema)
           selected_rows ==
               S!SetToSortSeq({i \in 1 .. ret.row_count :
                   PredicateHolds(Node.predicate, schema, RowsOf(ret)[i])}, <)
       IN  /\ Set([schema |-> IF ret.row_count = 0 THEN My.schema ELSE {schema}])
           /\ Return(Batch(ret.schema, GatherRows(ret.columns, selected_rows),
                           Len(selected_rows)))
    /\ UNCHANGED command

ProjectBatch ==
    /\ IsAt({"project"}, "return") /\ ret # NoBatch
    /\ ~ProjectThrows(Known(ret.schema), Node.columns)
    /\ LET schema == Known(ret.schema)
           indices == Indices(schema, Node.columns)
       IN  /\ Set([schema |-> {schema}])
           /\ Return(Batch(ProjectByIndices(schema, indices),
                           [k \in DOMAIN indices |-> ret.columns[indices[k]]],
                           ret.row_count))
    /\ UNCHANGED command

\* Mutant: the batch goes on with the schema of the child.
ComputedSchemaOfChild == Known(ret.schema)

ComputedSchema ==
    Known(ret.schema) \o
        [k \in DOMAIN Node.specs |-> Col(Node.specs[k].name, Node.specs[k].type)]

ComputeThrows ==
    \/ HasDuplicates(ComputedSchema)
    \/ \E k \in DOMAIN Node.specs, i \in 1 .. ret.row_count :
           ExpressionThrows(Node.specs[k], Known(ret.schema), RowsOf(ret)[i])

ComputeBatch ==
    /\ IsAt({"compute"}, "return") /\ ret # NoBatch /\ ~ComputeThrows
    /\ LET schema == Known(ret.schema)
           Computed(e) == [i \in 1 .. ret.row_count |->
                              Evaluate(e, Arguments(e, schema, RowsOf(ret)[i]))]
       IN  /\ Set([schema |-> {schema}])
           /\ Return(Batch(ComputedSchema,
                   ret.columns \o [k \in DOMAIN Node.specs |-> Computed(Node.specs[k])],
                   ret.row_count))
    /\ UNCHANGED command

-----------------------------------------------------------------------------
(* The operators that drain their child in one call: GlobalAgrOperator,      *)
(* GroupAgrOperator, SortOperator and TopKOperator.                          *)

Blocking == {"global", "group", "sort", "topK"}

BlockingCalled ==
    /\ IsAt(Blocking, "call")
    /\ IF My.done \/ (Node.op = "topK" /\ Node.limit = 0)
       THEN Return(NoBatch) /\ UNCHANGED mem
       ELSE CallChild /\ Set([My EXCEPT !.done = TRUE])
    /\ UNCHANGED command

NoInput ==
    /\ IsAt(Blocking, "return") /\ ret = NoBatch /\ My.schema = {}
    /\ Return(NoBatch)
    /\ UNCHANGED <<query, file, mem>>

\* The first batch's schema lacks a column, or the output's has one twice.
FirstBatchThrows ==
    /\ My.schema = {}
    /\ CASE Node.op = "global" -> AggregatesThrow(ret.schema, Node.aggregates)
         [] Node.op = "group" ->
              /\ \A k \in DOMAIN Node.keys : HasColumn(ret.schema, Node.keys[k])
              /\ ~AggregatesThrow(ret.schema, Node.aggregates)
              => HasDuplicates(GroupSchema(ret.schema, Node.keys, Node.aggregates))
         [] OTHER ->
              \E k \in DOMAIN Node.keys :
                  ~HasColumn(ret.schema, Node.keys[k].column_name)

\* A batch of GROUP BY, ORDER BY or Top-K: its rows are taken in.
CollectBatch ==
    /\ IsAt(Blocking \ {"global"}, "return") /\ ret # NoBatch
    /\ ~FirstBatchThrows
    /\ Set([My EXCEPT !.schema = {Known(ret.schema)}, !.rows = @ \o RowsOf(ret)])
    /\ CallChild
    /\ UNCHANGED command

\* A batch of a global aggregate: every state takes in its column.
AggregateBatch ==
    /\ IsAt({"global"}, "return") /\ ret # NoBatch
    /\ ~FirstBatchThrows
    /\ LET specs == Node.aggregates
           states == IF My.schema # {} THEN My.states
                     ELSE [k \in DOMAIN specs |->
                              MakeAggregateState(ret.schema, specs[k])]
       IN  Set([My EXCEPT
                   !.schema = {Known(ret.schema)},
                   !.states = [k \in DOMAIN specs |->
                       ApplyAggregateOperation(specs[k], states[k], ret)]])
    /\ CallChild
    /\ UNCHANGED command

InputEnds(op) == IsAt({op}, "return") /\ ret = NoBatch /\ My.schema # {}

GlobalEnds ==
    /\ InputEnds("global")
    /\ Return(Batch(AggregateSchema(Known(<<>>), Node.aggregates),
                    [k \in DOMAIN Node.aggregates |->
                        FinalizeAggregation(Node.aggregates[k], My.states[k])],
                    1))
    /\ UNCHANGED <<query, file, mem>>

GroupEnds ==
    /\ InputEnds("group")
    /\ Return(BatchOf(GroupSchema(Known(<<>>), Node.keys, Node.aggregates),
                      GroupLines(Known(<<>>), My.rows, Node.keys, Node.aggregates)))
    /\ UNCHANGED <<query, file, mem>>

\* An order the sort may leave the collected rows in.
SortedRows(order) == [i \in DOMAIN order |-> My.rows[order[i]]]

Orders ==
    SortedOrders(Len(My.rows),
        {<<i, j>> \in (DOMAIN My.rows) \X (DOMAIN My.rows) :
            RowComesBefore(Known(<<>>), Node.keys, My.rows[i], My.rows[j])})

SortEnds ==
    /\ InputEnds("sort")
    /\ \E order \in Orders : Return(BatchOf(Known(<<>>), SortedRows(order)))
    /\ UNCHANGED <<query, file, mem>>

\* The first rows of a sorted order: what TopK shows of the heap's result.
TopKEnds ==
    /\ InputEnds("topK")
    /\ \E order \in Orders :
           LET kept == IF Len(order) < Node.limit THEN Len(order) ELSE Node.limit
           IN  Return(BatchOf(Known(<<>>), SubSeq(SortedRows(order), 1, kept)))
    /\ UNCHANGED <<query, file, mem>>

-----------------------------------------------------------------------------
(* LimitOperator::Next.                                                      *)

LimitCalled ==
    /\ IsAt({"limit"}, "call")
    /\ IF My.returned < Node.limit THEN CallChild ELSE Return(NoBatch)
    /\ UNCHANGED <<query, file, mem>>

LimitEnds ==
    /\ IsAt({"limit"}, "return") /\ ret = NoBatch
    /\ Return(NoBatch)
    /\ UNCHANGED <<query, file, mem>>

LimitSkips ==
    /\ IsAt({"limit"}, "return") /\ ret # NoBatch
    /\ My.skipped + ret.row_count <= Node.offset \/ ret.row_count = 0
    /\ Set([My EXCEPT !.skipped = @ + ret.row_count])
    /\ CallChild
    /\ UNCHANGED command

LimitReturns ==
    /\ IsAt({"limit"}, "return") /\ ret # NoBatch /\ ret.row_count > 0
    /\ My.skipped + ret.row_count > Node.offset
    /\ LET start == IF My.skipped < Node.offset THEN Node.offset - My.skipped ELSE 0
           available == ret.row_count - start
           remaining == Node.limit - My.returned
           rows_to_return == IF available < remaining THEN available ELSE remaining
       IN  /\ Set([skipped |-> IF My.skipped < Node.offset THEN Node.offset
                               ELSE My.skipped,
                   returned |-> My.returned + rows_to_return])
           /\ Return(Batch(ret.schema,
                           [c \in DOMAIN ret.columns |->
                               SubSeq(ret.columns[c], start + 1, start + rows_to_return)],
                           rows_to_return))
    /\ UNCHANGED command

-----------------------------------------------------------------------------
(* Exceptions.                                                               *)

\* What the operator is about to do throws.
Throwing ==
    CASE dir = "call" ->
           /\ Node.op = "scan"
           /\ \E g \in RowGroupsLeft : SkippedUpTo(g) /\ RowGroupThrows(g)
      [] ret = NoBatch -> FALSE
      [] Node.op = "filter" -> FilterThrows
      [] Node.op = "project" -> ProjectThrows(Known(ret.schema), Node.columns)
      [] Node.op = "compute" -> ComputeThrows
      [] Node.op \in Blocking -> FirstBatchThrows
      [] OTHER -> FALSE

\* The exception reaches main, which prints it and returns 1.
OperatorThrows ==
    /\ outcome = "running" /\ active > 0 /\ Throwing
    /\ Throw /\ UNCHANGED command

\* The command has ended.
Ended == outcome \in {"ok", "failed"} /\ UNCHANGED vars

Next ==
    \/ BuildPlan \/ WriterCalls \/ WriterTakes
    \/ ScanReads \/ ScanEnds
    \/ PassesCall \/ PassesEnd \/ FilterBatch \/ ProjectBatch \/ ComputeBatch
    \/ BlockingCalled \/ NoInput \/ CollectBatch \/ AggregateBatch
    \/ GlobalEnds \/ GroupEnds \/ SortEnds \/ TopKEnds
    \/ LimitCalled \/ LimitEnds \/ LimitSkips \/ LimitReturns
    \/ OperatorThrows \/ Ended

Spec == Init /\ [][Next]_vars
=============================================================================
