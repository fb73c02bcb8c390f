----------------------------- MODULE CsvImport -----------------------------
(***************************************************************************)
(* The import of a CSV file: CSVBatchReader reads blocks until it holds a  *)
(* whole row and keeps what follows the last one for the next call,        *)
(* CSVColumnarReader parses the buffer into a batch, and KioDbImporter     *)
(* hands each batch to the writer until an empty one.                      *)
(***************************************************************************)
EXTENDS CsvText

CONSTANTS
    BlockSize,  \* kBatchSizeBytes
    Files       \* the CSV files

ASSUME ImportAssumption ==
    BlockSize \in Nat \ {0} /\ Files \subseteq Seq(STRING)

VARIABLES
    file,         \* the CSV file on disk
    position,     \* characters the stream has read
    pending,      \* pending_buffer_
    eof_reached,  \* eof_reached_
    buffer,       \* the buffer a call of ReadNextBuffer fills or has returned
    ipc,          \* "idle" between batches, "filling", "parsing", "done", "failed"
    broken,       \* the device failed under a read
    delivered     \* history: the batches handed to the writer

readerVars == <<position, pending, eof_reached, buffer, ipc, broken, delivered>>
importVars == <<file, readerVars>>

ReaderInit ==
    /\ position = 0 /\ pending = <<>> /\ eof_reached = FALSE
    /\ buffer = <<>> /\ ipc = "idle" /\ broken = FALSE
    /\ delivered = <<>>

\* The characters the next read takes: gcount() of them.
Block ==
    SubSeq(file, position + 1,
           IF position + BlockSize <= Len(file) THEN position + BlockSize ELSE Len(file))

----------------------------------------------------------------------------
(* MakeColumnarBatch asks for a buffer; an empty one ends the import. *)

\* Mutant: what the last call kept is forgotten.
StartAfresh ==
    /\ ipc = "idle" /\ ~eof_reached
    /\ ipc' = "filling"
    /\ buffer' = <<>> /\ pending' = <<>>
    /\ UNCHANGED <<file, position, eof_reached, broken, delivered>>

StartBuffer ==
    /\ ipc = "idle" /\ ~eof_reached
    /\ ipc' = "filling"
    /\ buffer' = pending /\ pending' = <<>>
    /\ UNCHANGED <<file, position, eof_reached, broken, delivered>>

EndImport ==
    /\ ipc = "idle" /\ eof_reached
    /\ ipc' = "done"
    /\ UNCHANGED <<file, position, pending, eof_reached, buffer, broken, delivered>>

----------------------------------------------------------------------------
(* One turn of the loop of ReadNextBuffer *)

\* Mutants: the stream counts what it asked for; the flag is not set when the
\* last block is a short one.
ReadEndPastEnd ==
    /\ ipc = "filling" /\ Len(Block) < BlockSize
    /\ position' = position + BlockSize
    /\ buffer' = buffer \o Block
    /\ eof_reached' = TRUE
    /\ ipc' = IF buffer' = <<>> THEN "done" ELSE "parsing"
    /\ UNCHANGED <<file, pending, broken, delivered>>

ReadEndUnflagged ==
    /\ ipc = "filling" /\ Len(Block) < BlockSize
    /\ position' = position + Len(Block)
    /\ buffer' = buffer \o Block
    /\ eof_reached' = eof_reached
    /\ ipc' = IF buffer' = <<>> THEN "filling" ELSE "parsing"
    /\ UNCHANGED <<file, pending, broken, delivered>>

\* A read that gets no character, or fewer than asked for: the file is at its
\* end and the buffer is all that is left.
ReadEnd ==
    /\ ipc = "filling" /\ Len(Block) < BlockSize
    /\ position' = position + Len(Block)
    /\ buffer' = buffer \o Block
    /\ eof_reached' = TRUE
    /\ ipc' = IF buffer' = <<>> THEN "done" ELSE "parsing"
    /\ UNCHANGED <<file, pending, broken, delivered>>

\* Mutant: the rows of a full block are returned when the next block is in.
ReadOnLate ==
    /\ ipc = "filling" /\ Len(Block) = BlockSize /\ CutBatchToNewLine(buffer) = 0
    /\ position' = position + BlockSize
    /\ buffer' = buffer \o Block
    /\ UNCHANGED <<file, pending, eof_reached, ipc, broken, delivered>>

\* A full block, and still no whole row: read on.
ReadOn ==
    /\ ipc = "filling" /\ Len(Block) = BlockSize
    /\ CutBatchToNewLine(buffer \o Block) = 0
    /\ position' = position + BlockSize
    /\ buffer' = buffer \o Block
    /\ UNCHANGED <<file, pending, eof_reached, ipc, broken, delivered>>

\* A full block that completes a row: the rows are returned, the rest is kept.
ReadRows ==
    /\ ipc = "filling" /\ Len(Block) = BlockSize
    /\ LET text == buffer \o Block
           cut == CutBatchToNewLine(text)
       IN  /\ cut # 0
           /\ buffer' = SubSeq(text, 1, cut)
           /\ pending' = SubSeq(text, cut + 1, Len(text))
    /\ position' = position + BlockSize
    /\ ipc' = "parsing"
    /\ UNCHANGED <<file, eof_reached, broken, delivered>>

\* csv_stream_.bad(): the exception leaves Import.
ReadFails ==
    /\ ipc = "filling"
    /\ ipc' = "failed" /\ broken' = TRUE
    /\ UNCHANGED <<file, position, pending, eof_reached, buffer, delivered>>

----------------------------------------------------------------------------
(* ParseBuffer: a batch for the writer, or an exception *)
Parse ==
    /\ ipc = "parsing"
    /\ LET p == ParseBuffer(buffer)
       IN  IF p.thrown THEN ipc' = "failed" /\ UNCHANGED delivered
           ELSE ipc' = "idle" /\ delivered' = Append(delivered, BatchOf(p.cells))
    /\ buffer' = <<>>
    /\ UNCHANGED <<file, position, pending, eof_reached, broken>>

ImportStep ==
    \/ StartBuffer \/ EndImport
    \/ ReadEnd \/ ReadOn \/ ReadRows
    \/ Parse

----------------------------------------------------------------------------
(* Properties *)

ImportTypeOK ==
    /\ file \in Seq(STRING) /\ pending \in Seq(STRING) /\ buffer \in Seq(STRING)
    /\ position \in 0 .. Len(file)
    /\ ipc \in {"idle", "filling", "parsing", "done", "failed"}
    /\ eof_reached \in BOOLEAN /\ broken \in BOOLEAN
    /\ \A k \in DOMAIN delivered : DOMAIN delivered[k] = Columns

\* The columns of all batches delivered, one after the other.
Delivered ==
    [c \in Columns |-> FlattenSeq([k \in DOMAIN delivered |-> delivered[k][c]])]

\* The file is never held as a whole (README.md:59): a buffer is shorter than
\* a block and the longest row together, and what is kept for the next call
\* is shorter than a block.
RowSpans ==
    LET marks == {0, Len(file)} \union RowEnds(file)
    IN  {span \in marks \X marks :
            /\ span[1] < span[2]
            /\ \A i \in marks : ~(span[1] < i /\ i < span[2])}

BufferBounded ==
    /\ Len(pending) < BlockSize
    /\ Len(buffer) >= BlockSize =>
           \E span \in RowSpans : Len(buffer) < BlockSize + (span[2] - span[1])

\* The two parsers of the project read the same values out of a text
\* (csv_row_parser.cpp:13, csv_columnar_reader.cpp:101), except for a value
\* that ends in '\r' in a last row without newline, where only the columnar
\* one drops it.
EndsInBareCR(rows) ==
    file # <<>> /\ Len(file) \notin RowEnds(file) /\ Last(Last(rows)) # <<>>
                /\ Last(Last(Last(rows))) = CR

ParsersAgree ==
    LET whole == ParseBuffer(file)
        rows == ParseRows(file)
    IN  ipc = "idle" /\ delivered = <<>> /\ ~whole.thrown /\ ~EndsInBareCR(rows) =>
            whole.cells = CellsOfRows(rows)
=============================================================================
