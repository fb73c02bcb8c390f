------------------------------ MODULE GroupAgr ------------------------------
(***************************************************************************)
(* GroupAgrOperator::Next, the blocking GROUP BY operator: it drains its   *)
(* child, finds or inserts the group of every row in a CompactGroupTable,  *)
(* keeps the group's key in its own output columns and the running         *)
(* aggregates in a GroupAggregateAccumulator indexed by group, and returns *)
(* one batch with one row per group.                                       *)
(*                                                                         *)
(* The child is any operator: it returns batches of any row count (a       *)
(* filter returns batches of no rows) until it returns nullopt.            *)
(***************************************************************************)
EXTENDS CompactGroupTable, Integers, FiniteSets

CONSTANTS
    Row,                          \* a row: its key, the aggregated value
    kInitialCompactGroupReserve,  \* 4096 in the code
    MaxBatch,                     \* bound: rows of one batch of the child
    MaxRows                       \* bound: rows the child returns in all

ASSUME RowAssumption == Row \subseteq [key : Value, arg : Int]

ASSUME ReserveAssumption ==
    /\ kInitialCompactGroupReserve \in Nat /\ MaxBatch \in Nat
    /\ 0 .. kInitialCompactGroupReserve \subseteq Reserves

VARIABLES
    phase,   \* "start", "running" or "done" (done_ and the return)
    left,    \* rows of the current batch still to process
    arg,     \* the current row's aggregated value
    acc,     \* states_ of the accumulator, by group
    result,  \* the ExecBatch returned, NoBatch until then
    rows     \* history: the rows the operator has finished with

agrVars == <<phase, left, arg, acc, result, rows>>

vars == <<tableVars, agrVars>>

NoBatch == [row_count |-> -1, lines |-> <<>>]

Init ==
    /\ TableInit
    /\ phase = "start" /\ left = 0 /\ arg = 0
    /\ acc = <<>> /\ rows = <<>>
    /\ result = NoBatch

-----------------------------------------------------------------------------
(* The child's answers.                                                      *)

InitialCompactGroupReserve(n) ==
    IF n < kInitialCompactGroupReserve THEN n ELSE kInitialCompactGroupReserve

ChildMayReturn(n) == Len(rows) + n <= MaxRows

\* The first call returns a batch: the table is built for its row count.
FirstBatch(n) ==
    /\ phase = "start"
    /\ ChildMayReturn(n)
    /\ phase' = "running"
    /\ left' = n
    /\ Construct(InitialCompactGroupReserve(n))
    /\ UNCHANGED <<arg, acc, result, rows>>

\* The first call returns nullopt: so does the operator, with no schema to
\* build an empty result from.
NoInput ==
    /\ phase = "start"
    /\ phase' = "done"
    /\ UNCHANGED <<tableVars, left, arg, acc, result, rows>>

NextBatch(n) ==
    /\ phase = "running" /\ pc = "idle" /\ left = 0
    /\ ChildMayReturn(n)
    /\ left' = n
    /\ UNCHANGED <<tableVars, phase, arg, acc, result, rows>>

-----------------------------------------------------------------------------
(* The loop over the rows of a batch.                                        *)

StartRow(r) ==
    /\ phase = "running" /\ left > 0
    /\ FindOrInsert(r.key)
    /\ arg' = r.arg
    /\ left' = left - 1
    /\ UNCHANGED <<phase, acc, result, rows>>

State ==
    [count : Nat, sum : Int, min : Int, max : Int, distinct : SUBSET Int]

NewState(a) ==
    [count |-> 1, sum |-> a, min |-> a, max |-> a, distinct |-> {a}]

\* Mutant: a row that is not a new minimum is never compared with the maximum.
UpdatedMinOrMax(st, a) ==
    [count |-> st.count + 1,
     sum |-> st.sum + a,
     min |-> IF a < st.min THEN a ELSE st.min,
     max |-> IF a < st.min THEN a ELSE st.max,
     distinct |-> st.distinct \cup {a}]

Updated(st, a) ==
    [count |-> st.count + 1,
     sum |-> st.sum + a,
     min |-> IF a < st.min THEN a ELSE st.min,
     max |-> IF a > st.max THEN a ELSE st.max,
     distinct |-> st.distinct \cup {a}]

FinishRow == rows' = Append(rows, [key |-> key, arg |-> arg])

\* The row opened a group: AppendGroupKey, then AddGroup.
AddGroup ==
    /\ AppendGroupKey
    /\ acc' = Append(acc, NewState(arg))
    /\ FinishRow
    /\ UNCHANGED <<phase, left, arg, result>>

UpdateGroup ==
    /\ UseGroup
    /\ acc' = [acc EXCEPT ![slots[slot_idx]] = Updated(@, arg)]
    /\ FinishRow
    /\ UNCHANGED <<phase, left, arg, result>>

-----------------------------------------------------------------------------
(* The child is exhausted: the key columns and the accumulator's columns     *)
(* become the output, and groups.Size() its row count.                       *)

OutputLine(g) ==
    [key |-> columns[g], count |-> acc[g].count, sum |-> acc[g].sum,
     min |-> acc[g].min, max |-> acc[g].max, distinct |-> acc[g].distinct]

ReturnResult ==
    /\ phase = "running" /\ pc = "idle" /\ left = 0
    /\ phase' = "done"
    /\ result' = [row_count |-> Len(keys),
                  lines |-> [g \in DOMAIN columns |-> OutputLine(g)]]
    /\ UNCHANGED <<tableVars, left, arg, acc, rows>>

Step ==
    \/ TableStep /\ UNCHANGED agrVars
    \/ AddGroup
    \/ UpdateGroup

Next ==
    \/ \E n \in 0 .. MaxBatch : FirstBatch(n) \/ NextBatch(n)
    \/ NoInput
    \/ \E r \in Row : StartRow(r)
    \/ Step
    \/ ReturnResult

\* Only the operator's own computation is fair: nothing obliges the child to
\* end its input.
Spec == Init /\ [][Next]_vars /\ WF_vars(Step)

-----------------------------------------------------------------------------
(* Correctness.                                                              *)

TypeOK ==
    /\ TableTypeOK
    /\ phase \in {"start", "running", "done"}
    /\ left \in Nat /\ arg \in Int
    /\ rows \in Seq(Row)
    /\ acc \in Seq(State) /\ Len(acc) = Len(columns)
    /\ phase = "start" => pc = "unbuilt"

\* The operator refines GROUP BY: between rows, its output columns and its
\* accumulator hold exactly the answer to the rows processed so far.
Promise == INSTANCE GroupBy WITH
               answer <- [g \in DOMAIN columns |-> OutputLine(g)]

RefinesGroupBy == Promise!Spec

\* The batch returned is the whole answer, and its row count, which comes from
\* the table, is the length of columns that come from the operator and from
\* the accumulator.
ResultConsistent ==
    result # NoBatch =>
        /\ result.row_count = Len(result.lines)
        /\ result.lines = Promise!Answer(rows)

\* Every row that was begun is finished: construction, growth and both walks
\* end, though each is a loop with no bound of its own.
RowsFinish ==
    pc \notin {"unbuilt", "idle"} ~> pc = "idle"

-----------------------------------------------------------------------------
(* The inductive invariant of the operator, above that of the table.         *)

\* Key and aggregated value of a call that has begun are those of one row.
RowInHand ==
    pc \notin {"unbuilt", "reserve", "idle"} =>
        [key |-> key, arg |-> arg] \in Row

\* The slot FindOrInsert answers with is still the group's when it is used.
FoundMatches ==
    pc = "found" =>
        /\ slot_idx \in Slot /\ slots[slot_idx] # Free
        /\ Matches(slots[slot_idx], key)

\* The rows finished whose key is v.
RowsOf(v) == {i \in DOMAIN rows : rows[i].key = v}

\* COUNT, COUNT DISTINCT, MIN and MAX of the rows whose key is v (any NaN has a
\* group of its own, of which only the bounds are said).
StateIsOf(st, v) ==
    /\ st.min \in st.distinct /\ st.max \in st.distinct
    /\ \A a \in st.distinct : st.min <= a /\ a <= st.max
    /\ v \notin NotSelfEqual => /\ st.count = Cardinality(RowsOf(v))
                                /\ st.distinct = {rows[i].arg : i \in RowsOf(v)}

\* The state of a group is of its rows, all of them and no other's.
StatesHoldTheirRows ==
    \A g \in DOMAIN columns : StateIsOf(acc[g], columns[g])

\* Every row finished has a group.
RowsHaveGroups ==
    \A i \in DOMAIN rows : \E g \in DOMAIN columns : columns[g] = rows[i].key

AgrInv ==
    /\ TypeOK
    /\ TableInv
    /\ RowInHand
    /\ FoundMatches
    /\ StatesHoldTheirRows
    /\ RowsHaveGroups

\* The g-th leader among rows rs has key v; st has the sum of its line (the
\* other values follow from StatesHoldTheirRows, but for a NaN, whose group
\* never grows).
IsLine(rs, g, v, st) ==
    LET i == Promise!Nth(rs, g)
    IN  /\ i \in Promise!Leaders(rs)
        /\ Cardinality({j \in Promise!Leaders(rs) : j <= i}) = g
        /\ v = rs[i].key
        /\ st.sum = Promise!Line(rs, i).sum
        /\ v \in NotSelfEqual => st = NewState(rs[i].arg)

InOrder(rs, values, states) ==
    /\ Len(values) = Cardinality(Promise!Leaders(rs))
    /\ \A g \in DOMAIN values : IsLine(rs, g, values[g], states[g])

\* The groups are numbered as the answer orders its lines.
LinesInOrder == InOrder(rows, columns, acc)

\* The result was taken between two calls, and nothing moves after it.
ResultTaken ==
    /\ result # NoBatch =>
           /\ phase = "done"
           /\ result = [row_count |-> Len(keys),
                        lines |-> [g \in DOMAIN columns |-> OutputLine(g)]]
    /\ phase = "done" => pc \in {"unbuilt", "idle"}

\* The invariant behind ResultConsistent and RefinesGroupBy.
AnswerInv == AgrInv /\ LinesInOrder /\ ResultTaken
=============================================================================
