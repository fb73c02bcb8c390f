------------------------------ MODULE LimitOp ------------------------------
(***************************************************************************)
(* LimitOperator: LIMIT and OFFSET over batches of any size.  A call pulls *)
(* the child until a batch reaches past the offset and returns the part of *)
(* it that is within the limit.                                            *)
(*                                                                         *)
(* The rows of the child are numbered in the order it returns them, so     *)
(* that a slice of a batch is an interval of numbers.                      *)
(***************************************************************************)
EXTENDS Naturals, Sequences

CONSTANTS
    Limits, Offsets,  \* limit_ and offset_ the constructor may get
    MaxRows           \* bound: rows the child returns in all

ASSUME LimitAssumption ==
    Limits \subseteq Nat /\ Offsets \subseteq Nat /\ MaxRows \in Nat

VARIABLES
    limit, offset,      \* limit_, offset_
    skipped, returned,  \* skipped_, returned_
    lpc,    \* "idle", "pulling" (in Next) or "ended" (Next returned nullopt)
    seen,   \* history: rows the child has returned
    output  \* history: the numbers of the rows handed up

limitVars == <<limit, offset, skipped, returned, lpc, seen, output>>

LimitInit ==
    /\ limit \in Limits /\ offset \in Offsets
    /\ skipped = 0 /\ returned = 0
    /\ lpc = "idle"
    /\ seen = 0 /\ output = <<>>

\* Mutant: the child is pulled even when the limit is reached.
LimitNextPulls ==
    /\ lpc = "idle"
    /\ lpc' = "pulling"
    /\ UNCHANGED <<limit, offset, skipped, returned, seen, output>>

\* Next is called: the child is not pulled once the limit is reached.
LimitNext ==
    /\ lpc = "idle"
    /\ lpc' = IF returned < limit THEN "pulling" ELSE "ended"
    /\ UNCHANGED <<limit, offset, skipped, returned, seen, output>>

\* Mutant: a batch that reaches one row past the offset is skipped.
SkipBatchTooFar(batch_rows) ==
    /\ lpc = "pulling"
    /\ batch_rows = 0 \/ skipped + batch_rows <= offset + 1
    /\ skipped' = skipped + batch_rows
    /\ seen' = seen + batch_rows
    /\ UNCHANGED <<limit, offset, returned, lpc, output>>

\* The child returns a batch that ends before the offset, maybe one of no rows.
SkipBatch(batch_rows) ==
    /\ lpc = "pulling"
    /\ batch_rows = 0 \/ skipped + batch_rows <= offset
    /\ skipped' = skipped + batch_rows
    /\ seen' = seen + batch_rows
    /\ UNCHANGED <<limit, offset, returned, lpc, output>>

\* Mutant: the offset is taken out of every batch.
EveryStart == offset

\* The first row of the batch past the offset.
Start == offset - skipped

RowsToReturn(available) ==
    IF available < limit - returned THEN available ELSE limit - returned

\* The child returns a batch with rows past the offset.  The whole batch or a
\* slice of it goes up.
ReturnRows(batch_rows) ==
    /\ lpc = "pulling"
    /\ batch_rows # 0 /\ skipped + batch_rows > offset
    /\ LET rows_to_return == RowsToReturn(batch_rows - Start)
       IN  /\ returned' = returned + rows_to_return
           /\ output' = output \o [i \in 1 .. rows_to_return |-> seen + Start + i]
    /\ skipped' = offset
    /\ seen' = seen + batch_rows
    /\ lpc' = "idle"
    /\ UNCHANGED <<limit, offset>>

LimitChildEnds ==
    /\ lpc = "pulling"
    /\ lpc' = "ended"
    /\ UNCHANGED <<limit, offset, skipped, returned, seen, output>>

LimitOpNext ==
    \/ LimitNext
    \/ \E n \in 0 .. MaxRows - seen : SkipBatch(n) \/ ReturnRows(n)
    \/ LimitChildEnds

LimitOpSpec == LimitInit /\ [][LimitOpNext]_limitVars

-----------------------------------------------------------------------------
(* Correctness.                                                              *)

LimitTypeOK ==
    /\ limit \in Limits /\ offset \in Offsets
    /\ skipped \in 0 .. offset /\ returned \in 0 .. limit
    /\ lpc \in {"idle", "pulling", "ended"}
    /\ seen \in Nat
    /\ output \in Seq(Nat)

\* What went up is the window LIMIT and OFFSET ask for of what the child has
\* returned, wherever the batches were cut: no row twice, none skipped.
OutputIsWindow ==
    output = [i \in 1 .. returned |-> offset + i]

\* When the operator says it is exhausted, the window is full or the child's
\* rows do not reach its end.
EndedMeansAll ==
    lpc = "ended" => returned = limit \/ offset + returned >= seen

\* Batches that are skipped count against the offset exactly once.
SkippedCounts ==
    /\ skipped = IF seen < offset THEN seen ELSE offset
    /\ returned < limit => returned + skipped = seen

PullingBelowLimit == lpc = "pulling" => returned < limit

\* The inductive invariant.
LimitInv ==
    /\ LimitTypeOK
    /\ SkippedCounts
    /\ PullingBelowLimit
    /\ OutputIsWindow
    /\ EndedMeansAll

\* No row is pulled that cannot be returned: the child is left alone as soon
\* as the limit is reached (LIMIT 0 never runs it).
StopsPulling == [][seen' # seen => returned < limit]_limitVars
=============================================================================
