----------------------------- MODULE TableScan -----------------------------
(***************************************************************************)
(* TableScanOperator with min/max pruning, and the FilterOperator above    *)
(* it.  The scan skips a row group when the statistics in the footer rule  *)
(* out every value a constraint allows; the filter then tests each row of  *)
(* the others.  The query's author writes the constraints to follow from   *)
(* the predicate.                                                          *)
(*                                                                         *)
(* A row group carries the rows it holds and, per column, the statistics   *)
(* the writer computed for it.                                             *)
(***************************************************************************)
EXTENDS Table, MinMax, FiniteSets

CONSTANTS
    RowGroup,     \* row groups: [rows, stats]
    Constraint    \* MinMaxConstraints; an absent bound is the empty set

\* What the scan relies on: statistics bound the values of their chunk.
StatsBound(g) ==
    \A col \in Column : g.stats[col].has_min_max =>
        \A i \in DOMAIN g.rows : /\ g.stats[col].min <= g.rows[i][col]
                                 /\ g.rows[i][col] <= g.stats[col].max

Stats == [has_min_max : BOOLEAN, min : Int, max : Int]

ASSUME RowGroupAssumption ==
    \A g \in RowGroup : /\ g.rows \in Seq(Row)
                        /\ g.stats \in [Column -> Stats]
                        /\ StatsBound(g)

ASSUME ConstraintAssumption ==
    Constraint \subseteq [column : Column, lower : SUBSET Int,
                          upper : SUBSET Int, lower_inclusive : BOOLEAN,
                          upper_inclusive : BOOLEAN, not_equal : SUBSET Int]

VARIABLES
    row_groups,      \* the file's row groups
    constraints,     \* constraints_
    accepted,        \* rows the rest of the filter's predicate accepts
    next_row_group,  \* the reader's next_row_group_: row groups consumed
    spc,             \* "idle", "scanning" (in Next), "batch" or "ended"
    batch,           \* the batch FilterOperator::Next returns
    read             \* history: the row groups read, not skipped

scanVars == <<row_groups, constraints, accepted, next_row_group, spc, batch,
              read>>

ScanInit ==
    /\ next_row_group = 0
    /\ spc = "idle" /\ batch = <<>>
    /\ read = {}

RowGroupMayMatch(g) ==
    \A c \in constraints : ConstraintMayMatch(g.stats[c.column], c)

Predicate(row) ==
    /\ \A c \in constraints : Satisfies(row[c.column], c)
    /\ row \in accepted

-----------------------------------------------------------------------------

HasNext == next_row_group < Len(row_groups)

FilterNext ==
    /\ spc = "idle"
    /\ spc' = "scanning"
    /\ UNCHANGED <<row_groups, constraints, accepted, next_row_group, batch,
                   read>>

\* Mutant: the reader stays at the row group that is passed over.
ScanSkipsInPlace ==
    /\ spc = "scanning" /\ HasNext
    /\ ~RowGroupMayMatch(row_groups[next_row_group + 1])
    /\ UNCHANGED scanVars

\* SkipNextBatch
ScanSkips ==
    /\ spc = "scanning" /\ HasNext
    /\ ~RowGroupMayMatch(row_groups[next_row_group + 1])
    /\ next_row_group' = next_row_group + 1
    /\ UNCHANGED <<row_groups, constraints, accepted, spc, batch, read>>

SelectedRows(rows) == {i \in DOMAIN rows : Predicate(rows[i])}

\* ReadNextBatch, the scan's return and the filter's: the batch gathers the
\* selected rows, which may be none, in their order.
ScanReads ==
    /\ spc = "scanning" /\ HasNext
    /\ RowGroupMayMatch(row_groups[next_row_group + 1])
    /\ LET rows == row_groups[next_row_group + 1].rows
           selected_rows == SelectedRows(rows)
       IN  \E order \in [1 .. Cardinality(selected_rows) -> selected_rows] :
               /\ \A i, j \in DOMAIN order : i < j => order[i] < order[j]
               /\ batch' = [i \in DOMAIN order |-> rows[order[i]]]
    /\ next_row_group' = next_row_group + 1
    /\ read' = read \cup {next_row_group + 1}
    /\ spc' = "batch"
    /\ UNCHANGED <<row_groups, constraints, accepted>>

ScanEnds ==
    /\ spc = "scanning" /\ ~HasNext
    /\ spc' = "ended"
    /\ UNCHANGED <<row_groups, constraints, accepted, next_row_group, batch,
                   read>>

\* The parent takes the batch, or the nullopt.
FilterReturns ==
    /\ spc \in {"batch", "ended"}
    /\ spc' = "idle"
    /\ UNCHANGED <<row_groups, constraints, accepted, next_row_group, batch,
                   read>>

-----------------------------------------------------------------------------
(* Correctness.                                                              *)

ScanTypeOK ==
    /\ row_groups \in Seq(RowGroup)
    /\ constraints \subseteq Constraint
    /\ next_row_group \in 0 .. Len(row_groups)
    /\ spc \in {"idle", "scanning", "batch", "ended"}
    /\ batch \in Seq(Row)
    /\ read \subseteq 1 .. next_row_group

\* A row group that was passed over without being read holds no row the
\* filter would have let through.
SkippedHoldNothing ==
    \A g \in (1 .. next_row_group) \ read :
        \A i \in DOMAIN row_groups[g].rows : ~Predicate(row_groups[g].rows[i])
=============================================================================
