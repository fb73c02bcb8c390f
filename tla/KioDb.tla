------------------------------- MODULE KioDb -------------------------------
(***************************************************************************)
(* One .kiodb file from its creation on: the process that writes it, which *)
(* may fail or be killed at any step, and a process that opens and reads   *)
(* it at any moment, before, during or after.                              *)
(***************************************************************************)
EXTENDS KioDbWriter, KioDbReader

vars == <<disk, writerVars, readerVars>>

Init == WriterInit /\ ReaderInit

Next ==
    \/ WriterNext /\ UNCHANGED readerVars
    \/ ReaderNext /\ UNCHANGED writerVars

Spec == Init /\ [][Next]_vars

-----------------------------------------------------------------------------
(* Correctness.                                                              *)

FileTypes ==
    /\ disk \in Seq(Cell) /\ out \in Seq(Cell)
    /\ pending \in Seq([at : Nat, cell : Cell])
    /\ wpc \in {"closed", "header", "idle", "encode", "payload", "threw",
                "seek_header", "offset", "seek_footer", "footer", "flush",
                "closing", "gone", "killed"}
    /\ good \in BOOLEAN /\ finalized \in BOOLEAN /\ unwinding \in BOOLEAN
    /\ pos \in Nat /\ row_count \in Nat
    /\ wpc \in {"encode", "payload"} => batch \in Batch
    /\ group \in RowGroupMeta
    /\ status \in {"none", "ok", "failed"}
    /\ row_groups \in Seq(RowGroupMeta)
    /\ stored \in Seq(Batch) /\ Len(stored) = Len(row_groups)
    /\ cur_batch \in Nat /\ Len(row_groups) <= cur_batch /\ cur_batch <= calls
    /\ calls \in Nat /\ calls <= MaxBatches

ReaderTypes ==
    /\ rpc \in {"closed", "footer", "groups", "ready", "reading", "rejected"}
    /\ footer_pos \in Nat /\ row_group_count \in Nat
    /\ metadata \in [row_count : Nat, row_groups : Seq(RowGroupMeta)]
    /\ next_row_group \in 0 .. Len(metadata.row_groups)
    /\ todo \in Seq(Nat) /\ got \in Seq(Seq(Cell))

\* The type of each variable, and the sizes that go together: a recorded row
\* group for every stored batch, no more row groups than ids, no more ids than
\* calls.
TypeOK == FileTypes /\ ReaderTypes

\* The cell is on the disk at position p, or will be when what is pending has
\* drained.
Lands(p, cell) ==
    \/ \E i \in DOMAIN pending : pending[i] = [at |-> p, cell |-> cell]
    \/ /\ p < Len(disk) /\ disk[p + 1] = cell
       /\ \A i \in DOMAIN pending : pending[i].at # p

\* Every recorded chunk is where the metadata says, or will be once the buffer
\* has drained: the offsets are computed from tellp and from the encoded sizes
\* before a byte is written, and batches that threw have taken ids in between.
ChunksHoldBatches ==
    good /\ wpc # "killed" =>
        \A i \in DOMAIN row_groups :
            LET m == row_groups[i]
            IN  /\ Len(m.columns) = Width(stored[i])
                /\ m.batch_size = Len(Payload(stored[i]))
                /\ \A c \in DOMAIN m.columns :
                       LET chunk == Content(stored[i], c)
                       IN  /\ m.columns[c].size = Len(chunk)
                           /\ \A u \in DOMAIN chunk :
                                  Lands(m.start + m.columns[c].offset + u - 1,
                                        chunk[u])

\* The header points at a footer and the footer is all there.
Published ==
    /\ Readable(disk, 0, HeaderSize)
    /\ LET at == disk[OffsetPosition + 1].at
       IN  at # 0 /\ Readable(disk, at, 1 + Len(row_groups))

Total == TotalOf([i \in DOMAIN stored |-> Rows[stored[i]]])

\* A reader that got through its constructor has the metadata of every batch
\* the writer will ever have stored, although it read the file while it was
\* being written and the footer's offset is on disk before the footer is.
AcceptedMeansComplete ==
    rpc \in {"ready", "reading"} =>
        /\ metadata.row_groups = row_groups
        /\ metadata.row_count = Total
        /\ \A i \in DOMAIN stored : Width(stored[i]) = ColumnCount

\* When Finalize has returned, or the destructor has run (with Finalize never
\* called, after a batch that threw, or after Finalize), the file is readable,
\* unless the device failed.
FinalizedMeansPublished ==
    good /\ (status = "ok" \/ wpc = "gone") => Published

\* A complete file never changes again, whatever the caller tries next.
PublishedIsFinal == [][Published => disk' = disk]_vars

\* The constructor of the reader throws only on a file that is not complete or
\* that holds a batch with too few columns.
CompleteNeverRejected ==
    [][rpc # "rejected" /\ rpc' = "rejected" =>
           \/ ~Published
           \/ \E i \in DOMAIN stored : Width(stored[i]) # ColumnCount]_vars

Phase ==
    CASE rpc \in {"closed", "footer", "groups"} -> "opening"
      [] rpc \in {"ready", "reading"} -> "open"
      [] rpc = "rejected" -> "rejected"

\* Writer and reader implement the archive: the file is sealed when its last
\* cell reaches the disk.
Promise == INSTANCE Archive WITH
    table <- stored,
    sealed <- Published,
    reader <- Phase,
    taken <- next_row_group,
    wanted <- todo,
    answer <- got

ImplementsArchive == Promise!Spec

\* What main.cpp reports and the round-trip tests rely on: a Finalize that
\* returns has written the file.  It does not hold, see the run kio_flush.
FinalizeMeansWritten == status = "ok" => Published

-----------------------------------------------------------------------------
(* The inductive invariant.                                                  *)

\* SeekHeader has run: group.start is Finalize's footer_pos.
FooterPlaced == group.batch_id = NoGroup.batch_id /\ group.start # 0

\* What the place of the writer says of its flags.
Control ==
    /\ wpc \in {"closed", "header", "encode", "payload", "seek_header",
                "offset", "seek_footer", "footer", "flush"} => good
    /\ wpc \in {"closed", "header", "encode", "payload", "seek_header"} =>
           ~FooterPlaced
    /\ wpc \in {"offset", "seek_footer", "footer", "flush"} => FooterPlaced
    /\ FooterPlaced /\ good =>
           \/ finalized
           \/ wpc \in {"offset", "seek_footer", "footer", "flush", "killed"}
    /\ finalized => FooterPlaced /\ wpc \in {"idle", "threw", "closing",
                                             "gone", "killed"}
    /\ wpc \in {"closing", "gone"} /\ good => finalized
    /\ unwinding => wpc \notin {"closed", "header", "idle", "encode",
                                "payload", "threw"}
    /\ status = "ok" => finalized
    /\ wpc \in {"gone", "killed"} => pending = <<>>
    /\ out # <<>> => wpc \in {"header", "payload", "offset", "footer"}

Describes(m, b) ==
    /\ Width(b) > 0
    /\ m.row_num = Rows[b]
    /\ m.columns = ColumnInfos(b)
    /\ m.batch_size = Len(Payload(b))
    /\ m.start >= HeaderSize

MetadataHolds ==
    /\ \A i \in DOMAIN row_groups : Describes(row_groups[i], stored[i])
    /\ row_count = Total
    /\ wpc \in {"encode", "payload"} =>
           /\ Width(batch) > 0
           /\ group.row_num = Rows[batch]
           /\ group.start >= HeaderSize
           /\ Len(row_groups) < cur_batch
    /\ wpc = "payload" => group.columns = ColumnInfos(batch)

\* What is pending continues the file.
Appending ==
    /\ pos = Len(disk) + Len(pending)
    /\ \A i \in DOMAIN pending : pending[i].at = Len(disk) + i - 1

\* The first n units of the payload of b land from p on.
PayloadLands(b, p, n) ==
    \A k \in 1 .. n : Lands(p + k - 1, Payload(b)[k])

Rest(s, n) == SubSeq(s, n + 1, Len(s))

\* The header on the disk says that there is no footer, and nothing pending
\* says otherwise.
NoOffsetYet ==
    /\ Len(disk) > OffsetPosition => disk[OffsetPosition + 1] = OffsetCell(0)
    /\ \A i \in DOMAIN pending :
           pending[i].at = OffsetPosition => pending[i].cell = OffsetCell(0)

HeaderComes ==
    /\ wpc = "closed" => pos = 0
    /\ wpc = "header" => pos <= HeaderSize /\ out = Rest(Header, pos)
    /\ wpc \in {"closed", "header"} => row_groups = <<>>
    /\ wpc \notin {"closed", "header"} => pos >= HeaderSize

RecordedLand ==
    \A i \in DOMAIN row_groups :
        /\ row_groups[i].start + Len(Payload(stored[i])) <= pos
        /\ PayloadLands(stored[i], row_groups[i].start, Len(Payload(stored[i])))

BatchUnderWay ==
    /\ wpc = "encode" => group.start = pos
    /\ wpc = "payload" =>
           /\ pos \in group.start .. group.start + Len(Payload(batch))
           /\ out = Rest(Payload(batch), pos - group.start)
           /\ PayloadLands(batch, group.start, pos - group.start)

\* Until SeekHeader the file grows, and every batch recorded lands in it.
BeforeFooter ==
    ~FooterPlaced =>
        /\ NoOffsetYet
        /\ good /\ wpc # "killed" =>
               Appending /\ HeaderComes /\ RecordedLand /\ BatchUnderWay

\* The cells of the footer that are on the disk.
Present == Len(disk) - group.start

FooterPresent ==
    /\ group.start >= HeaderSize
    /\ Present \in 0 .. Len(Footer)
    /\ disk[OffsetPosition + 1] \in {OffsetCell(0), OffsetCell(group.start)}
    /\ Present > 0 => disk[OffsetPosition + 1] = OffsetCell(group.start)
    /\ \A k \in 1 .. Present : disk[group.start + k] = Footer[k]

RecordedOnDisk ==
    \A i \in DOMAIN row_groups :
        /\ row_groups[i].start + Len(Payload(stored[i])) <= group.start
        /\ \A k \in 1 .. Len(Payload(stored[i])) :
               disk[row_groups[i].start + k] = Payload(stored[i])[k]

\* The offset is on the disk, or it alone is pending.
OffsetOnTheWay ==
    \/ pending = <<>> /\ disk[OffsetPosition + 1] = OffsetCell(group.start)
    \/ pending = <<[at |-> OffsetPosition, cell |-> OffsetCell(group.start)]>>

OffsetUnderWay ==
    /\ wpc \in {"offset", "seek_footer"} => Present = 0
    /\ wpc = "offset" /\ out # <<>> =>
           /\ out = <<OffsetCell(group.start)>>
           /\ pos = OffsetPosition /\ pending = <<>>
    /\ wpc = "seek_footer" \/ (wpc = "offset" /\ out = <<>>) => OffsetOnTheWay

FooterUnderWay ==
    /\ wpc \in {"footer", "flush"} =>
           /\ disk[OffsetPosition + 1] = OffsetCell(group.start)
           /\ Appending
           /\ \A i \in DOMAIN pending : pending[i].cell = Footer[Present + i]
           /\ pos \in group.start .. group.start + Len(Footer)
           /\ out = Rest(Footer, pos - group.start)
    /\ wpc = "flush" => out = <<>>
    /\ good /\ finalized => pending = <<>> /\ Present = Len(Footer)

\* From SeekHeader on the payloads are on the disk for good, the footer
\* follows, and none of it reaches the disk before its offset has.
AfterFooter ==
    FooterPlaced =>
        FooterPresent /\ RecordedOnDisk /\ OffsetUnderWay /\ FooterUnderWay

\* A reader past its header has found a footer, and what it has taken of it is
\* the writer's metadata, which no longer changes.
ReaderHolds ==
    /\ rpc \in {"closed", "footer"} => metadata.row_groups = <<>>
    /\ rpc \in {"closed", "footer", "groups"} => next_row_group = 0
    /\ rpc \in {"footer", "groups", "ready", "reading"} =>
           /\ FooterPlaced
           /\ disk[OffsetPosition + 1] = OffsetCell(group.start)
    /\ rpc = "footer" => footer_pos = group.start
    /\ rpc \in {"groups", "ready", "reading"} =>
           LET n == Len(metadata.row_groups)
           IN  /\ row_group_count = Len(row_groups)
               /\ metadata.row_count = row_count
               /\ n <= Len(row_groups)
               /\ footer_pos = group.start + 1 + n
               /\ footer_pos <= Len(disk)
               /\ \A i \in 1 .. n : /\ metadata.row_groups[i] = row_groups[i]
                                    /\ Width(stored[i]) = ColumnCount
    /\ rpc \in {"ready", "reading"} =>
           Len(metadata.row_groups) = Len(row_groups)
    /\ todo # <<>> => rpc = "reading"
    /\ rpc = "reading" => next_row_group # 0

FileInv ==
    /\ TypeOK
    /\ Control
    /\ MetadataHolds
    /\ BeforeFooter
    /\ AfterFooter
    /\ ReaderHolds
=============================================================================
