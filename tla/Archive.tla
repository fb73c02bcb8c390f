------------------------------ MODULE Archive ------------------------------
(***************************************************************************)
(* What a .kiodb file promises, without offsets, buffers or a footer: a    *)
(* table of batches that is extended, then sealed, and a reader that opens *)
(* the sealed table or nothing.  A reader once open can be refused nothing *)
(* but a column the schema does not have, and what it is handed is what    *)
(* was stored, batch by batch in the order of the writes.                  *)
(***************************************************************************)
EXTENDS Naturals, Sequences

CONSTANTS Batch, ColumnCount, Projections, Content(_, _)

VARIABLES
    table,   \* the batches stored
    sealed,  \* no more will be
    reader,  \* "opening", "open" or "rejected"
    taken,   \* batches the reader has taken or skipped
    wanted,  \* columns of the last one still to be handed out
    answer   \* those handed out

vars == <<table, sealed, reader, taken, wanted, answer>>

Init ==
    /\ table = <<>> /\ sealed = FALSE
    /\ reader = "opening"
    /\ taken = 0 /\ wanted = <<>> /\ answer = <<>>

Store(b) ==
    /\ ~sealed
    /\ table' = Append(table, b)
    /\ UNCHANGED <<sealed, reader, taken, wanted, answer>>

Seal ==
    /\ sealed' = TRUE
    /\ UNCHANGED <<table, reader, taken, wanted, answer>>

Accept ==
    /\ reader = "opening" /\ sealed
    /\ reader' = "open"
    /\ UNCHANGED <<table, sealed, taken, wanted, answer>>

Reject ==
    /\ reader = "opening"
    /\ reader' = "rejected"
    /\ UNCHANGED <<table, sealed, taken, wanted, answer>>

Take(columns) ==
    /\ reader = "open" /\ wanted = <<>>
    /\ taken < Len(table)
    /\ taken' = taken + 1
    /\ wanted' = columns /\ answer' = <<>>
    /\ UNCHANGED <<table, sealed, reader>>

HandOut ==
    /\ wanted # <<>> /\ Head(wanted) < ColumnCount
    /\ answer' = Append(answer, Content(table[taken], Head(wanted) + 1))
    /\ wanted' = Tail(wanted)
    /\ UNCHANGED <<table, sealed, reader, taken>>

Refuse ==
    /\ wanted # <<>> /\ Head(wanted) >= ColumnCount
    /\ wanted' = <<>> /\ answer' = <<>>
    /\ UNCHANGED <<table, sealed, reader, taken>>

Next ==
    \/ \E b \in Batch : Store(b)
    \/ Seal \/ Accept \/ Reject
    \/ \E p \in Projections \cup {<<>>} : Take(p)
    \/ HandOut \/ Refuse

Spec == Init /\ [][Next]_vars
=============================================================================
