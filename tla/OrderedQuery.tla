---------------------------- MODULE OrderedQuery ----------------------------
(***************************************************************************)
(* The plan of SELECT ... WHERE ... ORDER BY ... LIMIT ... OFFSET: what    *)
(* exec_plan::OrderedLimit builds over Filter(Scan(...)), pulled batch by  *)
(* batch by the result writer until it gets nullopt.                       *)
(*                                                                         *)
(* Without an offset the plan's root is the TopKOperator itself; with one  *)
(* a LimitOperator sits on a TopKOperator of limit + offset rows.          *)
(***************************************************************************)
EXTENDS TableScan, TopK, LimitOp, Functions

CONSTANTS
    Tables,  \* files: sequences of row groups
    Accepts  \* sets of rows that the unconstrained part of a filter accepts

ASSUME TablesAssumption ==
    Tables \subseteq Seq(RowGroup) /\ Accepts \subseteq SUBSET Row

VARIABLES
    csv,         \* numbers of the rows the result writer has exported
    writer_done  \* its done_: it got nullopt

vars == <<scanVars, topkVars, limitVars, csv, writer_done>>

WithLimitOp == offset # 0

\* Mutant: the inner operator keeps only the rows of the limit.
LimitOnly == limit

\* OrderedLimit's argument of TopK.
TopKLimit == limit + offset

Init ==
    /\ LimitInit /\ TopKInit /\ ScanInit
    /\ k_limit = TopKLimit
    /\ row_groups \in Tables
    /\ constraints \in {{}} \cup {{c} : c \in Constraint}
    /\ accepted \in Accepts
    /\ csv = <<>> /\ writer_done = FALSE

-----------------------------------------------------------------------------
(* Calls and returns between the operators.                                  *)

\* The root's Next, when the root is the LimitOperator.
WriterCallsLimit ==
    /\ WithLimitOp /\ LimitNext
    /\ UNCHANGED <<scanVars, topkVars, csv, writer_done>>

\* TopKOperator::Next, called by the LimitOperator or by the writer; the
\* writer stops at the first nullopt.
CallTopK ==
    /\ IF WithLimitOp THEN lpc = "pulling" ELSE ~writer_done
    /\ TopKNext
    /\ UNCHANGED <<scanVars, limitVars, csv, writer_done>>

CallFilter ==
    /\ tpc \in {"first", "more"}
    /\ FilterNext
    /\ UNCHANGED <<topkVars, limitVars, csv, writer_done>>

Scanning ==
    /\ ScanSkips \/ ScanReads \/ ScanEnds
    /\ UNCHANGED <<topkVars, limitVars, csv, writer_done>>

FilterReturnsBatch ==
    /\ spc = "batch"
    /\ TopKBatch(batch)
    /\ FilterReturns
    /\ UNCHANGED <<limitVars, csv, writer_done>>

FilterReturnsNone ==
    /\ spc = "ended"
    /\ TopKChildEnds
    /\ FilterReturns
    /\ UNCHANGED <<limitVars, csv, writer_done>>

TopKLoop ==
    /\ TopKStep
    /\ UNCHANGED <<scanVars, limitVars, csv, writer_done>>

\* The batch goes to the LimitOperator, and what that returns to the writer.
LimitTakesBatch ==
    /\ WithLimitOp /\ tpc = "sorted"
    /\ \/ SkipBatch(Len(result)) /\ UNCHANGED csv
       \/ /\ ReturnRows(Len(result))
          /\ csv' = csv \o [i \in 1 .. returned' - returned |->
                               result[output'[returned + i]]]
    /\ TopKReturns
    /\ UNCHANGED <<scanVars, writer_done>>

LimitTakesNone ==
    /\ WithLimitOp /\ tpc = "none"
    /\ LimitChildEnds
    /\ TopKReturns
    /\ UNCHANGED <<scanVars, csv, writer_done>>

WriterTakesBatch ==
    /\ ~WithLimitOp /\ tpc = "sorted"
    /\ csv' = csv \o result
    /\ TopKReturns
    /\ UNCHANGED <<scanVars, limitVars, writer_done>>

WriterTakesNone ==
    /\ ~WithLimitOp /\ tpc = "none"
    /\ writer_done' = TRUE
    /\ TopKReturns
    /\ UNCHANGED <<scanVars, limitVars, csv>>

LimitReturnsNone ==
    /\ WithLimitOp /\ lpc = "ended" /\ ~writer_done
    /\ writer_done' = TRUE
    /\ UNCHANGED <<scanVars, topkVars, limitVars, csv>>

Next ==
    \/ WriterCallsLimit \/ CallTopK \/ CallFilter \/ Scanning
    \/ FilterReturnsBatch \/ FilterReturnsNone \/ TopKLoop
    \/ LimitTakesBatch \/ LimitTakesNone \/ LimitReturnsNone
    \/ WriterTakesBatch \/ WriterTakesNone

Spec == Init /\ [][Next]_vars /\ WF_vars(Next)

-----------------------------------------------------------------------------
(* Correctness.                                                              *)

TypeOK == ScanTypeOK /\ TopKTypeOK /\ LimitTypeOK

\* Where the rows are that the scan has gone past and the predicate accepts:
\* pairs of a row group and a place in it.
Passed(n) ==
    UNION {{<<g, i>> : i \in SelectedRows(row_groups[g].rows)} : g \in 1 .. n}

Selected == Passed(Len(row_groups))

RowAt(place) == row_groups[place[1]].rows[place[2]]

\* The orders ORDER BY allows for the selected rows.
Orders ==
    {order \in [1 .. Cardinality(Selected) -> Selected] :
        /\ IsInjective(order)
        /\ \A i, j \in DOMAIN order :
               i < j => ~RowComesBefore(RowAt(order[j]), RowAt(order[i]))}

\* WHERE, ORDER BY, LIMIT and OFFSET by their meaning: one of those orders has
\* the answer at the places the limit asks for.
IsAnswer(rows) ==
    LET window == {i \in 1 .. Cardinality(Selected) :
                      offset < i /\ i <= offset + limit}
    IN  \E order \in Orders :
            rows = [i \in 1 .. Cardinality(window) |-> RowAt(order[offset + i])]

\* The result file holds the answer: pruning, the heap, and the sharing of the
\* offset between the two operators lose or repeat nothing.
FileHoldsAnswer ==
    writer_done => IsAnswer([i \in DOMAIN csv |-> input[csv[i]]])

\* The writer's pull ends, whatever batches are empty or skipped.
QueryEnds == <>writer_done

-----------------------------------------------------------------------------
(* What links the operators; with their own invariants, why the file holds   *)
(* the answer.                                                               *)

\* What the filter has returned is, in some order, the selected rows of the row
\* groups consumed, each once; a batch on its way to Top-K is the rest of it.
InputIsSelected ==
    LET got == IF spc = "batch" THEN input \o batch ELSE input
    IN  \E from \in Bijection(1 .. Len(got), Passed(next_row_group)) :
            \A i \in DOMAIN from : got[i] = RowAt(from[i])

\* Top-K has drained the filter and made its batch, if there was any input.
Drained == done /\ tpc \in {"sorted", "idle", "none"}

\* The caller has taken the batch too.
BatchTaken == Drained /\ tpc # "sorted"

\* The filter runs only for Top-K, and Top-K goes on until the file is read.
DrainedMeansRead ==
    /\ spc # "idle" => tpc \in {"first", "more"}
    /\ spc = "ended" \/ Drained => next_row_group = Len(row_groups)
    /\ k_limit = TopKLimit
    /\ tpc \in {"sorted", "none"} => done \/ (tpc = "none" /\ k_limit = 0)

\* The batch of Top-K, once made, stays what it is.
BatchStands ==
    IF Drained
    THEN /\ Len(result) = IF k_limit < Len(input) THEN k_limit ELSE Len(input)
         /\ \A i \in DOMAIN result : result[i] \in 1 .. Len(input)
         /\ \A i, j \in DOMAIN result :
                /\ result[i] = result[j] => i = j
                /\ i < j => ~Before(result[j], result[i])
         /\ \A i \in DOMAIN result :
                \A j \in (1 .. Len(input)) \ {result[n] : n \in DOMAIN result} :
                    ~Before(j, result[i])
    ELSE result = <<>>

\* The writer has what was returned of the batch, and stops for a reason.
WriterHasWindow ==
    /\ csv = IF WithLimitOp THEN [i \in 1 .. returned |-> result[output[i]]]
             ELSE IF BatchTaken THEN result ELSE <<>>
    /\ WithLimitOp =>
           /\ seen = IF BatchTaken THEN Len(result) ELSE 0
           /\ returned > 0 => offset + returned <= seen
           /\ lpc = "ended" => returned = limit \/ BatchTaken
    /\ writer_done =>
           IF WithLimitOp THEN lpc = "ended" ELSE limit = 0 \/ BatchTaken

AnswerLinks ==
    InputIsSelected /\ DrainedMeansRead /\ BatchStands /\ WriterHasWindow
=============================================================================
