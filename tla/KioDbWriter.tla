---------------------------- MODULE KioDbWriter ----------------------------
(***************************************************************************)
(* KioDbWriter and the std::ofstream under it, driven by a caller: the     *)
(* converter (KioDbImporter::Import, then Finalize), or a test that leaves *)
(* Finalize to the destructor, catches an exception and goes on, or writes *)
(* after Finalize.                                                         *)
(*                                                                         *)
(* The stream buffers: a cell written is pending until the buffer drains,  *)
(* in order, at any moment; seekp, flush and close drain all of it.  The   *)
(* device may fail once and then stays failed; the stream is bad from then *)
(* on.  The process may be killed at any moment: what is pending is lost.  *)
(***************************************************************************)
EXTENDS KioFormat

CONSTANT MaxBatches  \* bound: calls of WriteBatchToFile

ASSUME MaxBatchesAssumption == MaxBatches \in Nat

VARIABLES
    wpc,        \* where the writer stands
    pending,    \* the stream's buffer: cells with their positions
    good,       \* the stream's state: neither badbit nor failbit
    pos,        \* the stream's put position
    out,        \* cells the running routine has still to write
    batch,      \* WriteBatchToFile's argument
    group,      \* its row_group local
    row_count,  \* metadata_.row_count
    row_groups, \* metadata_.row_groups
    cur_batch,  \* cur_batch_
    finalized,  \* finalized_
    unwinding,  \* the destructor is running: exceptions are swallowed
    status,     \* what the caller was told: "none", "ok" (Finalize returned)
                \* or "failed" (some call threw)
    calls,      \* WriteBatchToFile calls so far
    stored      \* history: the batches of metadata_.row_groups

streamVars == <<pending, good, pos, out>>
metaVars == <<row_count, row_groups, cur_batch, finalized, stored>>
writerVars == <<wpc, streamVars, batch, group, metaVars, unwinding, status,
                calls>>

NoGroup == [batch_id |-> -1, row_num |-> 0, start |-> 0, batch_size |-> 0,
            columns |-> <<>>]

WriterInit ==
    /\ disk = <<>>
    /\ wpc = "closed"
    /\ pending = <<>> /\ good = TRUE /\ pos = 0 /\ out = <<>>
    /\ batch = CHOOSE b \in Batch : TRUE  \* not read before WriteBatchToFile
    /\ group = NoGroup
    /\ row_count = 0 /\ row_groups = <<>> /\ cur_batch = 0
    /\ finalized = FALSE /\ stored = <<>>
    /\ unwinding = FALSE /\ status = "none" /\ calls = 0

-----------------------------------------------------------------------------
(* The stream.                                                               *)

\* The first pending cell reaches the file.
Drain ==
    /\ pending # <<>> /\ good
    /\ LET item == Head(pending)
       IN  disk' = IF item.at = Len(disk)
                   THEN Append(disk, item.cell)
                   ELSE [disk EXCEPT ![item.at + 1] = item.cell]
    /\ pending' = Tail(pending)
    /\ UNCHANGED <<wpc, good, pos, out, batch, group, metaVars, unwinding,
                   status, calls>>

\* bio::WriteBytes or bio::WritePod of the next cell.
WriteCell ==
    /\ out # <<>> /\ good
    /\ pending' = Append(pending, [at |-> pos, cell |-> Head(out)])
    /\ pos' = pos + 1
    /\ out' = Tail(out)
    /\ UNCHANGED <<disk, wpc, good, batch, group, metaVars, unwinding,
                   status, calls>>

\* An exception leaves the running call.  In the destructor it is swallowed
\* and the stream member is destroyed next; in the constructor the stream
\* member is destroyed and no destructor runs.
Throw ==
    /\ wpc' = IF unwinding \/ wpc = "header" THEN "closing" ELSE "threw"
    /\ status' = "failed"
    /\ out' = <<>>

\* The device fails under a write or under the drain of a seekp: the write
\* that finds the stream bad throws.
DeviceFails ==
    /\ out # <<>> \/ (wpc \in {"seek_header", "seek_footer"} /\ pending # <<>>)
    /\ good
    /\ good' = FALSE
    /\ Throw
    /\ UNCHANGED <<disk, pending, pos, batch, group, metaVars, unwinding,
                   calls>>

-----------------------------------------------------------------------------
(* Construction.                                                             *)

Header == <<Magic, OffsetCell(0)>>

\* The file is created, or truncated, and WriteHeader begins.
Open ==
    /\ wpc = "closed"
    /\ wpc' = "header"
    /\ out' = Header
    /\ UNCHANGED <<disk, pending, good, pos, batch, group, metaVars,
                   unwinding, status, calls>>

HeaderWritten ==
    /\ wpc = "header" /\ out = <<>>
    /\ wpc' = "idle"
    /\ UNCHANGED <<disk, streamVars, batch, group, metaVars, unwinding,
                   status, calls>>

-----------------------------------------------------------------------------
(* WriteBatchToFile.                                                         *)

WriteAfterFinalize ==
    /\ wpc = "idle" /\ finalized /\ calls < MaxBatches
    /\ calls' = calls + 1
    /\ Throw
    /\ UNCHANGED <<disk, pending, good, pos, batch, group, metaVars,
                   unwinding>>

\* MakeBatchMeta: tellp is -1 on a bad stream; otherwise the batch takes the
\* next id, before anything is known to be writable.
MakeBatchMeta(b) ==
    /\ wpc = "idle" /\ ~finalized /\ calls < MaxBatches
    /\ Width(b) > 0
    /\ calls' = calls + 1
    /\ batch' = b
    /\ IF good
       THEN /\ group' = [NoGroup EXCEPT !.batch_id = cur_batch,
                                        !.row_num = Rows[b],
                                        !.start = pos]
            /\ cur_batch' = cur_batch + 1
            /\ wpc' = "encode"
            /\ UNCHANGED <<out, status>>
       ELSE /\ Throw
            /\ UNCHANGED <<group, cur_batch>>
    /\ UNCHANGED <<disk, pending, good, pos, row_count, row_groups,
                   finalized, stored, unwinding>>

\* Mutant: the column's own size is added before its offset is taken.
OffsetPastColumn(b, c) == PrefixSums(Size[b])[c]

\* MakeColumnInfo's local_offset: the sizes of the columns before.
LocalOffset(b, c) == PrefixSums(Size[b])[c - 1]

ColumnInfos(b) ==
    [c \in 1 .. Width(b) |-> [offset |-> LocalOffset(b, c), size |-> Size[b][c]]]

\* WriteColumns: every column is encoded before the first byte is written.
EncodeColumns ==
    /\ wpc = "encode"
    /\ Width(batch) <= ColumnCount
    /\ group' = [group EXCEPT !.columns = ColumnInfos(batch)]
    /\ out' = Payload(batch)
    /\ wpc' = "payload"
    /\ UNCHANGED <<disk, pending, good, pos, batch, metaVars, unwinding,
                   status, calls>>

\* Schema::ColumnType throws for a column the schema does not have, an
\* encoding throws for values of another type than the schema's.
EncodeThrows ==
    /\ wpc = "encode"
    /\ Throw
    /\ UNCHANGED <<disk, pending, good, pos, batch, group, metaVars,
                   unwinding, calls>>

BatchSize(m) == TotalOf([c \in DOMAIN m.columns |-> m.columns[c].size])

\* Mutant: the total is not accumulated.
RecordRowGroupOnly ==
    /\ wpc = "payload" /\ out = <<>>
    /\ row_groups' = Append(row_groups, [group EXCEPT !.batch_size = BatchSize(group)])
    /\ row_count' = group.row_num
    /\ stored' = Append(stored, batch)
    /\ wpc' = "idle"
    /\ UNCHANGED <<disk, streamVars, batch, group, cur_batch, finalized,
                   unwinding, status, calls>>

\* The row group joins the metadata once its payload is written.
RecordRowGroup ==
    /\ wpc = "payload" /\ out = <<>>
    /\ row_groups' = Append(row_groups, [group EXCEPT !.batch_size = BatchSize(group)])
    /\ row_count' = row_count + group.row_num
    /\ stored' = Append(stored, batch)
    /\ wpc' = "idle"
    /\ UNCHANGED <<disk, streamVars, batch, group, cur_batch, finalized,
                   unwinding, status, calls>>

-----------------------------------------------------------------------------
(* Finalize, called by the caller or by the destructor.                      *)

StartFinalize ==
    /\ ~finalized
    /\ IF good
       THEN /\ wpc' = "seek_header"
            /\ UNCHANGED <<out, status>>
       ELSE /\ wpc' = IF unwinding' THEN "closing" ELSE "threw"
            /\ status' = "failed"
            /\ out' = <<>>
    /\ UNCHANGED <<disk, pending, good, pos, batch, group, metaVars, calls>>

\* A second Finalize returns at once; the caller learns nothing new from it.
Finalize ==
    /\ wpc = "idle"
    /\ unwinding' = unwinding
    /\ StartFinalize

\* seekp(kFooterOffsetPosition) has drained the buffer; the offset written is
\* the put position the footer will start at.
SeekHeader ==
    /\ wpc = "seek_header" /\ pending = <<>>
    /\ out' = <<OffsetCell(pos)>>
    /\ group' = [NoGroup EXCEPT !.start = pos]  \* the local footer_pos
    /\ pos' = OffsetPosition
    /\ wpc' = "offset"
    /\ UNCHANGED <<disk, pending, good, batch, metaVars, unwinding, status,
                   calls>>

OffsetWritten ==
    /\ wpc = "offset" /\ out = <<>>
    /\ wpc' = "seek_footer"
    /\ UNCHANGED <<disk, streamVars, batch, group, metaVars, unwinding,
                   status, calls>>

\* Mutant: the row groups are counted by the ids handed out, one of which may
\* belong to a batch that failed.
FooterCountsIds ==
    <<HeadCell(row_count, cur_batch)>>
        \o [i \in 1 .. Len(row_groups) |-> GroupCell(row_groups[i])]

Footer ==
    <<HeadCell(row_count, Len(row_groups))>>
        \o [i \in 1 .. Len(row_groups) |-> GroupCell(row_groups[i])]

SeekFooter ==
    /\ wpc = "seek_footer" /\ pending = <<>>
    /\ pos' = group.start
    /\ out' = Footer
    /\ wpc' = "footer"
    /\ UNCHANGED <<disk, pending, good, batch, group, metaVars, unwinding,
                   status, calls>>

FooterWritten ==
    /\ wpc = "footer" /\ out = <<>>
    /\ wpc' = "flush"
    /\ UNCHANGED <<disk, streamVars, batch, group, metaVars, unwinding,
                   status, calls>>

\* Mutant: finalized_ is not set.
FinalizedForgotten ==
    /\ wpc' = IF unwinding THEN "closing" ELSE "idle"
    /\ status' = IF unwinding THEN status ELSE "ok"
    /\ UNCHANGED <<disk, pending, pos, out, batch, group, metaVars, unwinding,
                   calls>>

\* flush() has drained the buffer, or has failed to: nothing looks at its
\* result, and Finalize returns normally either way.
Finalized ==
    /\ finalized' = TRUE
    /\ wpc' = IF unwinding THEN "closing" ELSE "idle"
    /\ status' = IF unwinding THEN status ELSE "ok"
    /\ UNCHANGED <<disk, pending, pos, out, batch, group, row_count,
                   row_groups, cur_batch, stored, unwinding, calls>>

\* Mutant: no flush.
FlushOmitted ==
    /\ wpc = "flush"
    /\ Finalized
    /\ UNCHANGED good

Flushed ==
    /\ wpc = "flush" /\ pending = <<>>
    /\ Finalized
    /\ UNCHANGED good

FlushFails ==
    /\ wpc = "flush" /\ pending # <<>> /\ good
    /\ Finalized
    /\ good' = FALSE

-----------------------------------------------------------------------------
(* The end of the writer.                                                    *)

\* The caller (a test) catches the exception and keeps the writer.
Catch ==
    /\ wpc = "threw"
    /\ wpc' = "idle"
    /\ UNCHANGED <<disk, streamVars, batch, group, metaVars, unwinding,
                   status, calls>>

\* The destructor, at the end of a scope or because an exception (also one of
\* the CSV reader, between two calls of the writer) unwinds it.
Destroy ==
    /\ wpc \in {"idle", "threw"}
    /\ unwinding' = TRUE
    /\ \/ /\ ~finalized
          /\ StartFinalize
       \/ /\ finalized
          /\ wpc' = "closing"
          /\ UNCHANGED <<disk, streamVars, batch, group, metaVars, status,
                         calls>>

\* std::ofstream's destructor drains the buffer; a failed device drains none.
Close ==
    /\ wpc = "closing"
    /\ pending = <<>> \/ ~good
    /\ wpc' = "gone" /\ pending' = <<>>
    /\ UNCHANGED <<disk, good, pos, out, batch, group, metaVars, unwinding,
                   status, calls>>

Killed ==
    /\ wpc \notin {"closed", "gone", "killed"}
    /\ wpc' = "killed" /\ pending' = <<>> /\ out' = <<>>
    /\ UNCHANGED <<disk, good, pos, batch, group, metaVars, unwinding,
                   status, calls>>

WriterNext ==
    \/ Drain \/ WriteCell \/ DeviceFails
    \/ Open \/ HeaderWritten
    \/ WriteAfterFinalize
    \/ \E b \in Batch : MakeBatchMeta(b)
    \/ EncodeColumns \/ EncodeThrows \/ RecordRowGroup
    \/ Finalize \/ SeekHeader \/ OffsetWritten \/ SeekFooter \/ FooterWritten
    \/ Flushed \/ FlushFails
    \/ Catch \/ Destroy \/ Close \/ Killed
=============================================================================
