---------------------------- MODULE KioDbReader ----------------------------
(***************************************************************************)
(* KioDbReader: the constructor reads the header and the footer, cell by   *)
(* cell, and throws on anything short; an open reader then hands out one   *)
(* row group after the other, each read column by column from the file.    *)
(* The file may be written while it is read: nothing locks it.             *)
(***************************************************************************)
EXTENDS KioFormat

CONSTANT Projections  \* column_indices a scan may ask for, counted from 0

ASSUME ProjectionsAssumption == Projections \subseteq Seq(Nat)

VARIABLES
    rpc,             \* where the reader stands
    footer_pos,      \* ReadFooter's argument, then the get position
    row_group_count, \* row groups the footer announces
    metadata,        \* metadata_: row_count, and row_groups read so far
    next_row_group,  \* next_row_group_
    todo,            \* columns ReadNextBatch has still to read
    got              \* columns it has read, each a sequence of cells

readerVars == <<rpc, footer_pos, row_group_count, metadata, next_row_group,
                todo, got>>

ReaderInit ==
    /\ rpc = "closed"
    /\ footer_pos = 0 /\ row_group_count = 0
    /\ metadata = [row_count |-> 0, row_groups |-> <<>>]
    /\ next_row_group = 0
    /\ todo = <<>> /\ got = <<>>

Reject ==
    /\ rpc' = "rejected"
    /\ UNCHANGED <<footer_pos, row_group_count, metadata>>

\* ReadHeader: a file too short for a header, or with no footer yet.
ReadHeader ==
    /\ rpc = "closed"
    /\ IF Readable(disk, 0, HeaderSize) /\ disk[OffsetPosition + 1].at # 0
       THEN /\ footer_pos' = disk[OffsetPosition + 1].at
            /\ rpc' = "footer"
            /\ UNCHANGED <<row_group_count, metadata>>
       ELSE Reject
    /\ UNCHANGED <<disk, next_row_group, todo, got>>

\* ReadFooter up to the number of row groups.
ReadFooterHead ==
    /\ rpc = "footer"
    /\ IF Readable(disk, footer_pos, 1)
       THEN LET head == disk[footer_pos + 1]
            IN  /\ row_group_count' = head.groups
                /\ metadata' = [metadata EXCEPT !.row_count = head.row_count]
                /\ footer_pos' = footer_pos + 1
                /\ rpc' = "groups"
       ELSE Reject
    /\ UNCHANGED <<disk, next_row_group, todo, got>>

ReadRowGroupMeta ==
    /\ rpc = "groups"
    /\ Len(metadata.row_groups) < row_group_count
    /\ IF /\ Readable(disk, footer_pos, 1)
          /\ Len(disk[footer_pos + 1].meta.columns) = ColumnCount
       THEN /\ metadata' = [metadata EXCEPT !.row_groups =
                                Append(@, disk[footer_pos + 1].meta)]
            /\ footer_pos' = footer_pos + 1
            /\ UNCHANGED <<rpc, row_group_count>>
       ELSE Reject
    /\ UNCHANGED <<disk, next_row_group, todo, got>>

\* The constructor ends with Reset.
Reset ==
    /\ rpc = "groups"
    /\ Len(metadata.row_groups) = row_group_count
    /\ next_row_group' = 0
    /\ rpc' = "ready"
    /\ UNCHANGED <<disk, footer_pos, row_group_count, metadata, todo, got>>

-----------------------------------------------------------------------------
(* An open reader.                                                           *)

\* Mutant: the end is never seen.
NoEnd == TRUE

\* PeekNextRowGroupMeta # nullptr
HasNext == next_row_group < Len(metadata.row_groups)

SkipNextBatch ==
    /\ rpc = "ready" /\ HasNext
    /\ next_row_group' = next_row_group + 1
    /\ got' = <<>>
    /\ UNCHANGED <<disk, rpc, footer_pos, row_group_count, metadata, todo>>

\* ReadNextBatch advances past the row group before it reads any of it.
ReadNextBatch(column_indices) ==
    /\ rpc = "ready" /\ HasNext
    /\ next_row_group' = next_row_group + 1
    /\ todo' = column_indices /\ got' = <<>>
    /\ rpc' = "reading"
    /\ UNCHANGED <<disk, footer_pos, row_group_count, metadata>>

\* The row group the running ReadNextBatch reads.
RowGroup == metadata.row_groups[next_row_group]

\* Mutant: a chunk is looked for at its local offset.
ChunkAtLocalOffset(chunk) == chunk.offset

\* seekg(batch_start_offset + local_offset)
ChunkPosition(chunk) == RowGroup.start + chunk.offset

\* One turn of ReadNextBatch's loop; what ReadColumnFromFile returns is the
\* decoded payload.
ReadColumn ==
    /\ rpc = "reading" /\ todo # <<>>
    /\ Head(todo) < Len(RowGroup.columns)
    /\ LET chunk == RowGroup.columns[Head(todo) + 1]
           at == ChunkPosition(chunk)
       IN  /\ Readable(disk, at, chunk.size)
           /\ got' = Append(got, Slice(disk, at, chunk.size))
    /\ todo' = Tail(todo)
    /\ UNCHANGED <<disk, rpc, footer_pos, row_group_count, metadata,
                   next_row_group>>

\* A column the row group does not have, or a payload that ends early.  The
\* row group stays consumed.
ReadColumnThrows ==
    /\ rpc = "reading" /\ todo # <<>>
    /\ Head(todo) < Len(RowGroup.columns) =>
           LET chunk == RowGroup.columns[Head(todo) + 1]
           IN  ~Readable(disk, ChunkPosition(chunk), chunk.size)
    /\ todo' = <<>> /\ got' = <<>>
    /\ rpc' = "ready"
    /\ UNCHANGED <<disk, footer_pos, row_group_count, metadata,
                   next_row_group>>

BatchReturned ==
    /\ rpc = "reading" /\ todo = <<>>
    /\ rpc' = "ready"
    /\ UNCHANGED <<disk, footer_pos, row_group_count, metadata,
                   next_row_group, todo, got>>

ReaderNext ==
    \/ ReadHeader \/ ReadFooterHead \/ ReadRowGroupMeta \/ Reset
    \/ SkipNextBatch
    \/ \E p \in Projections : ReadNextBatch(p)
    \/ ReadColumn \/ ReadColumnThrows \/ BatchReturned
=============================================================================
