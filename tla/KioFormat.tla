----------------------------- MODULE KioFormat -----------------------------
(***************************************************************************)
(* The .kiodb file: a header (magic, offset of the footer), the payloads   *)
(* of the column chunks of one row group after the other, and a footer     *)
(* with the metadata of the row groups.                                    *)
(*                                                                         *)
(* The file is a sequence of cells.  A cell is what one read of the reader *)
(* takes or fails to take as a whole: the magic, the footer offset, a unit *)
(* of a chunk's payload, the head of the footer, one row group's metadata. *)
(* Positions count cells from 0.                                           *)
(***************************************************************************)
EXTENDS Integers, Sequences, SequencesExt

CONSTANTS
    Batch,       \* columnar batches a caller may write
    Size,        \* batch -> units of payload of each of its columns, encoded
    Rows,        \* batch -> rows of its first column
    ColumnCount  \* columns of the schema

ASSUME BatchAssumption ==
    /\ Size \in [Batch -> Seq(Nat)]
    /\ Rows \in [Batch -> Nat]
    /\ ColumnCount \in Nat

VARIABLE disk  \* the cells of the file as another process sees them

Magic == [kind |-> "magic"]

OffsetCell(p) == [kind |-> "offset", at |-> p]

\* kFooterOffsetPosition, and the first position after the header
OffsetPosition == 1
HeaderSize == 2

\* The payload of column c of batch b.
Content(b, c) ==
    [u \in 1 .. Size[b][c] |-> [kind |-> "data", batch |-> b, col |-> c, unit |-> u]]

\* FileMetadata's row_count and number of row groups, then each RowGroupMeta.
HeadCell(rows, n) == [kind |-> "head", row_count |-> rows, groups |-> n]

GroupCell(m) == [kind |-> "group", meta |-> m]

Width(b) == Len(Size[b])

\* The chunks of b, one behind the other.
Payload(b) == FlattenSeq([c \in 1 .. Width(b) |-> Content(b, c)])

\* The sums of the first 0, 1, ..., Len(s) elements of s.
PrefixSums(s) ==
    LET sum[n \in 0 .. Len(s)] == IF n = 0 THEN 0 ELSE sum[n - 1] + s[n]
    IN  sum

TotalOf(s) == PrefixSums(s)[Len(s)]

RowGroupMeta ==
    [batch_id : Int, row_num : Nat, start : Nat, batch_size : Nat,
     columns : Seq([offset : Nat, size : Nat])]

Cell ==
    [kind : {"magic"}]
      \cup [kind : {"offset"}, at : Nat]
      \cup [kind : {"data"}, batch : Batch, col : Nat, unit : Nat]
      \cup [kind : {"head"}, row_count : Nat, groups : Nat]
      \cup [kind : {"group"}, meta : RowGroupMeta]

\* The bytes [p, p + n) of a file, as a read that may hit the end of it.
Readable(file, p, n) == p + n <= Len(file)

Slice(file, p, n) == SubSeq(file, p + 1, p + n)
=============================================================================
