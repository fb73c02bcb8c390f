# KIO_DB in TLA+

KIO_DB converts CSV files into a columnar file format of its own (`.kiodb`),
exports them back to CSV and runs the 43 ClickBench queries over them. This
directory holds a TLA+ model of its core, the TLC configurations that check it
on small instances, and TLAPS proofs of what can be proved for every instance.
Paths like `transport/kio/kio_db_writer.cpp` are relative to `src/` of the
repository.

- [The system](#the-system)
- [Modules](#modules)
- [Runs](#runs)
- [Fairness](#fairness)
- [Proofs](#proofs)
- [What is abstracted, and what is left out](#what-is-abstracted-and-what-is-left-out)
- [Disagreements found](#disagreements-found)
- [Plan](#plan)

## The system

The program is single-threaded; one process runs one command (`convert`,
`export`, `query`). Concurrency enters through the file system: another process
may read a `.kiodb` file while it is written, the device may fail, and the
writing process may be killed. Everything else that is hard is sequential:
pull-based operators that keep state between calls, hash probing with growth in
the middle, blocks of text cut at arbitrary places, byte layouts that nothing
checks when they are read back.

| Component | State | Operations | What makes it correct |
| --- | --- | --- | --- |
| `CSVBatchReader`, `CSVColumnarReader`, `CSVRowParser` (`transport/csv`) | stream position, `pending_buffer_`, `eof_reached_` | `ReadNextBuffer`, `MakeColumnarBatch`, `ParseNext` | blocks leave no trace in the batches; memory is bounded by a block and a row; the reader stops |
| `KioDbImporter` (`transport/kio`), `convert` (`main.cpp`) | none | `Import`: one batch after the other to the writer; on an exception the writer's destructor seals what there is | the sealed file is the whole CSV file, or, after a failure, its first rows |
| Column encodings (`transport/compression`) | none | `PrepareColumnForWrite`, `DecodeColumnForRead` | decoding inverts encoding and takes exactly the payload |
| `KioDbWriter` | output stream, `metadata_`, `cur_batch_`, `finalized_` | constructor, `WriteBatchToFile`, `Finalize`, destructor | a file with a footer is complete; one without is rejected |
| `KioDbReader` | input stream, `metadata_`, `next_row_group_` | constructor, `ReadNextBatch`, `SkipNextBatch` | what is handed out is what was stored |
| `CsvExporter` | output stream | `ExportFile` | the text parses back to the table |
| `TableScanOperator`, `FilterOperator` | the reader | `Next` | a row group that is skipped holds nothing the filter accepts |
| `SortOperator`, `TopKOperator` | `done_`; heap of rows while running | `Next` | the first rows of the order, in order |
| `LimitOperator` | `skipped_`, `returned_` | `Next` | exactly the window, and no pull beyond it |
| `GroupAgrOperator`, `CompactGroupTable`, `GroupAggregateAccumulator` | slots, encoded keys, key columns, aggregate columns | `Next`; `FindOrInsert`, `Rehash` | one group per key, whatever collides and whenever the table grows |
| `GlobalAgrOperator`, `AggregateOperatorBase` | aggregate states while running | `Next` | one row over all batches, and over batches of no rows |
| `ProjectOperator`, `ComputeOperator` | what they found in the first batch: indices, the schema of the result | `Next` | the columns of later batches are found where those of the first were |
| Predicates and computed columns (`query_executor`) | column index and type, looked up at the first row | one call per row or batch | they find the column they name, of the type they take it for |
| `ResultWriterOperator` | exporter, `done_` | `Next` | the file holds every batch of its child |
| `query_executor` | none | builds the 43 plans | every plan computes what its query means: constraints follow from the filters, the columns scanned are those used, the limit of Top-K includes the offset |
| `global` (`Schema`, columns, scalar values) | the columns of a schema | loading from a schema file, projection, lookup, typed copies | a schema is rejected or has every name once |

Interactions. `convert` pulls batches out of the CSV reader and pushes them into
the writer, which encodes each column and appends the chunks; `Finalize` appends
the footer and patches its offset into the header. `export` pulls row groups out
of the reader into the exporter. `query` builds a tree of operators whose root
is the result writer; each operator's `Next` calls its child's `Next` until it
has a batch, or `nullopt`. The hash table calls back into the GROUP BY operator
to compare keys, whose key columns the operator extends only after the call has
returned.

Hard behaviours, which the properties are for (the complete list is in
`PROJECT.json`, "hazards"): a rehash that puts a group behind a free slot of its
own probe walk; probing that never meets a free slot; hash collisions of text
keys and NaN keys; a footer offset that is on disk before the footer; an
exception in the middle of a batch followed by further batches, or by the
finalizing destructor; a reader that opens an unfinished file; a block that ends
inside quotes; a conversion that fails in the middle; offsets and limits that
straddle batches, some of them empty; row groups at the exact boundary of a
constraint; filters and constraints written twice by hand; names and types that
are looked up only when the first row arrives; packed values that straddle words
and differences that overflow.

## Modules

Definitions keep the names of the functions and members they stand for;
`PROJECT.json`, "map", gives the lines of each.

### GROUP BY

| Module | Models |
| --- | --- |
| `CompactGroupTable` | `group/compact_group_table.{h,cpp}`: construction, growth, rehash, lookup and insertion; one action per turn of a loop, so that `pc` names the place in the code and every intermediate state of a growth is a state |
| `GroupAgr` | `group_agr_op.cpp` and the accumulator: the operator over an arbitrary child, extending the table |
| `GroupBy` | what GROUP BY promises: the rows so far, and one line per group in the order of their first rows |
| `MCGroupAgr` | instance |
| `CompactGroupTable_proofs`, `GroupAgr_proofs` | proofs |

The slots are a function from slot numbers to group numbers (0 is free), `keys`
the encoded keys of the groups, `columns` the key values the operator appends
after the table has answered. `Hash` and `Encode` are constants: any hash, any
collisions. A NaN is a value that is not equal to itself. COUNT, SUM, MIN and
MAX are kept (AVG is a SUM and a COUNT). `GroupAgr!RefinesGroupBy` states that
the operator implements `GroupBy` with `rows` as the history and `answer` as the
lines of the batch returned.

### The KIO file

| Module | Models |
| --- | --- |
| `KioFormat` | `kio_format.h`: the file as a sequence of cells |
| `KioDbWriter` | `kio_db_writer.cpp` and the `ofstream` below it |
| `KioDbReader` | `kio_db_reader.cpp`: constructor, `ReadNextBatch`, `SkipNextBatch` |
| `KioDb` | both over one file, in two processes |
| `Archive` | what the two promise together: a table that is extended, then sealed, and a reader that opens the sealed table or nothing |
| `MCKioDb` | instance |
| `KioDb_proofs` | proofs |

A cell is what one read takes as a whole. The stream buffers cells and may pass
any prefix of them to the device at any moment; `seekp`, `flush` and `close`
pass all of them. The device may fail (the stream is bad from then on), an
encoder may throw, the caller may catch and go on, and the process may be
killed, which loses the buffer. The caller is anything that keeps the order
constructor - `WriteBatchToFile`* - `Finalize`/destructor; the importer is one
such caller. `KioDb!ImplementsArchive` is the refinement: `table` is the batches
of the footer, `sealed` holds once a complete footer is on disk.

### Query operators

| Module | Models |
| --- | --- |
| `Table` | rows, as functions from columns to integers |
| `TopK` | `sort_operator_base.cpp`: `RowComesBefore`; `top_k_op.cpp`: one action per row pushed, replaced or passed over |
| `LimitOp` | `limit_op.cpp`: one action per branch of the loop |
| `TableScan` | `table_scan_op.cpp` with `filter_op.cpp` above it |
| `OrderedQuery` | `OrderedLimit` of `query_plan_helpers.cpp` over scan and filter, below the result writer; a call and a return are actions of their own |
| `MinMax` | `FindMinMax` of the writer and `ConstraintMayMatch` of the scan, for `TableScan` and `Pipeline` |
| `MCOrderedQuery` | instance; `LimitOp` is its own |
| `TopKLimit_proofs`, `OrderedQuery_proofs` | proofs |

`TopK` keeps the heap as a set of row numbers of which only the top is known to
the algorithm: `Replace` may take any row that no other row of the heap follows,
which is all that `std::push_heap` and `pop_heap` promise. The order of equal
rows after `std::sort` is arbitrary.

### The ClickBench queries

| Module | Models |
| --- | --- |
| `Schema` | `global/schema.{h,cpp}`: loading from the rows of a schema file, lookup, projection, the C++ type behind a type |
| `Columns` | TEXT values: equality, order, size, `find`; batches, the comparison of rows, gathering rows |
| `Aggregates` | `aggregate_operator_base.cpp`, and the accumulator of GROUP BY over all six aggregates |
| `Predicates` | `predicates.h`, `clickbench_filters.cpp` and the conversion of constraints |
| `Expressions` | `clickbench_expressions.cpp` |
| `PlanHelpers` | `query_plan_helpers.cpp` |
| `ClickBenchQueries` | `clickbench_queries.cpp`: the 43 plans |
| `Pipeline` | `kio_db query`: any of the plans over a file, below the result writer |
| `QueryMeaning` | what the queries mean, and the properties |
| `MCClickBench` | instance |

A plan is a sequence of nodes from the root to the scan: every operator of the
program has one child. `Pipeline` has one active operator, which is called or
gets its child's answer and calls, returns or throws; `mem` holds what each
operator keeps between calls, the indices and schemas remembered from the first
batch included. The hash table, the heap, the skipping of row groups and the
window have modules of their own above; here the operators do in one step what
those modules show that they do. A batch carries schema, columns and row count
apart, as `ColumnarBatch` does, so that they can disagree.

`QueryMeaning` reads the same sequence of nodes as relational algebra over
tables of named values: no batches, no row groups, no constraints, nothing
remembered, DOUBLE as exact quotients, and as many tables as ORDER BY and LIMIT
leave open. It takes minutes and days from the calendar fields of a timestamp,
where the code calculates with its number. The plan itself is thus the
reference for the nodes it consists of; what `AnswerIsMeaning` adds is that the
constraints, the columns scanned, the operators' states and the batches make no
difference to it.

### CSV

| Module | Models |
| --- | --- |
| `CsvText` | pure: quote tracking, `CutBatchToNewLine`, `CSVColumnarReader::ParseBuffer`, `CSVRowParser::ParseNext` |
| `CsvImport` | `ReadNextBuffer`, `MakeColumnarBatch` and `KioDbImporter::Import` over a file on disk |
| `Convert` | the command `convert`: schema file, output file, CSV file, import, `Finalize`, unwinding |
| `CsvRoundTrip` | `csv_exporter.cpp`, followed by the import of what it wrote |
| `DateCodes` | `csv_type_parser.h` and `FormatDateCode`, `FormatTimestamp` |
| `CsvDates` | two timestamps on their way in and out |
| `MCConvert`, `MCCsvRoundTrip` | instances |
| `Convert_proofs`, `CsvRoundTrip_proofs`, `CsvDates_proofs` | proofs |

A text is a sequence of one-character strings. The three loops that track quotes
(the cut, the columnar parser, the row parser) jump over the second quote of a
doubled one; `QuoteStates` is that state after each character, a `jump` flag
standing for the `++i`. The loops are recursive functions over positions, and
the records they carry are the local variables of the code.

`Convert` takes the writer for what `KioDb` shows it to be, a list of row groups
that is readable once it is sealed, and lets each thing outside fail: the schema
file, the CSV file when it is opened or read, the output file when it is opened,
written, finalized or sealed during unwinding. A device that failed once stays
failed.

### Column encodings

| Module | Models |
| --- | --- |
| `Bytes` | `binary_codec.h`, zigzag numbers, `EncodeUnsignedValues`, `DecodeUnsignedValues` |
| `ColumnCodec` | the six encodings, the choice by type, and a chunk that is encoded and decoded |
| `MCColumnCodec` | instance |

A byte has `ByteBits` bits and a word `WordBytes` bytes. The code shifts and
masks in the same way at every width; at the widths of the instance a word is
two bytes of four bits, so that packed values straddle bytes and words and
differences overflow on columns of a few values. The overflow of `current -
previous` in `delta_encoding.cpp` is undefined in C++; the model
wraps, as the 64-bit subtraction the compiler emits does.

## Runs

`tlc -config X.cfg M` in this directory. `LimitOp` and `CsvDates` need no MC
module.

| Run | Checks | Instance, and why it is enough |
| --- | --- | --- |
| `group_by` (`MCGroupAgr.cfg`) | the table's invariants, the refinement of `GroupBy`, that every row is finished | Tables that start at two slots and grow to four and eight, five rows in batches of up to three, also of none. Two keys share an encoding, two share a home only, one is NaN, homes lie at the end of the ring. That gives a growth with a collision pending, walks that wrap around, and a second growth. |
| `kio_db` (`MCKioDb.cfg`) | completeness of accepted and finalized files, no change after publication, the refinement of `Archive` | Three calls of `WriteBatchToFile` with batches of different shapes (ordinary, no rows, a column short, a column over). Two calls are the least that puts a batch that threw before, or after, one that was stored; the third puts it between two. Every place of a failure, a kill, a drain of the buffer and a read. |
| `kio_flush` (`MCKioDbFlush.cfg`) | `FinalizeMeansWritten`, violated | the same with two calls |
| `limit` (`LimitOp.cfg`) | the window, the end, no pull beyond the limit | Seven rows cut in every way; limits and offsets of zero, inside, at and beyond the input. |
| `ordered_query` (`MCOrderedQuery.cfg`) | pruning, the heap, the answer in the file, termination | Files of up to three row groups, one of them empty, with duplicate keys; constraints at, inside and outside the bounds; two sort columns of both orders; plans with and without an offset. |
| `clickbench` (`MCClickBench.cfg`) | every query's answer is its meaning, no query fails over a table of hits, a failure leaves no rows, batches are consistent | All 43 queries. A row satisfies every filter, or differs from such a row in one column the query reads, on or next to a bound a filter or a constraint names; tables of up to three rows in up to two row groups, equal, different, in both orders; the empty table. Limits and thresholds are scaled to two, offsets to one, so that three rows are below, at and above them. Seven other schemas (a column missing, a type in place of another) with values that do not fit the narrower type. |
| `convert` (`MCConvert.cfg`) | a conversion that succeeds has stored one parse of the whole file; what a failed one leaves is the table of the first rows; only rows that are too short put columns out of step; the buffer is bounded; the two parsers agree; it ends | Blocks of two characters. All files of up to five characters over quote, comma, newline, carriage return and a letter, up to six without the carriage return, up to nine over quote and newline: every alignment of a doubled quote, an open quote and a row end with block boundaries, and rows over several blocks. Each failure at each place. |
| `csv_round_trip` (`MCCsvRoundTrip.cfg`) | every table comes back | One or two rows, in one batch or two, of an INTEGER, a CHAR and a TEXT of up to two characters over quote, comma and newline; blocks of five characters. |
| `csv_cr` (`MCCsvRoundTripCR.cfg`) | `ComesBack`, violated | the same with TEXT over a letter and the carriage return |
| `dates` (`CsvDates.cfg`) | timestamps survive; codes keep the order | three years from 1970 on, every other field at its bounds, every pair |
| `dates_before_1970` (`CsvDatesBefore1970.cfg`) | `StampSurvives`, violated | the same around 1970 |
| `codec` (`MCColumnCodec.cfg`) | decoding inverts encoding and consumes the payload, but for the sign of a zero in a DOUBLE column under RLE | Up to four rows of boundary values of each type (the least and the greatest, so that a difference overflows, both zeros, infinity and a NaN are among them) under every encoding that supports the type. |

Bounds are constants of the instances (`MaxRows`, `MaxBatch`, `MaxBatches`,
`Reserves`, `BlockSize`, `AnyLength`, ...). Those that limit the behaviour
(`MaxRows` in `GroupAgr` and `LimitOp`, `MaxBatches` in `KioDbWriter`) stand in
guards of what the environment may do, never of what the code does. Deadlock is
checked in `clickbench`, where a query that has ended stutters and any other
state without a step would be an operator without an answer. The other programs
end; that their models do not stop early is what the liveness properties and the
"complete file" properties say.

Each property has a mutant: a definition changed as a plausible bug would change
it, under which TLC finds the property violated. The mutants stand in the
modules, before the definition they change, and nothing uses them.

## Fairness

- `GroupAgr`: `WF(Step)`, the operator's own computation between a row and the
  next. Nothing obliges the child to end its input, so `RowsFinish` says that
  every row taken is finished, not that the query is.
- `OrderedQuery`: `WF(Next)`. The program is one thread over a file of finitely
  many row groups; a step that is possible is taken.
- `Convert`: `WF(ConvertStep)`: the command is one program that is left to run.
  A read that fails (`InputFails`) is not in it: the device is under no
  obligation to fail.
- `Pipeline` and `CsvRoundTrip` have none. Every step of a query moves on in a
  plan or in a file, and that none is missing is the deadlock check of
  `clickbench`.
- `KioDb` has none. Its writer may be killed or abandoned at any step, and all
  that is said of it is safety.

## Proofs

`tlapm M.tla` in this directory. The theorems hold for every value of the
constants that satisfies the assumptions named in the modules.

**Hash table** (`CompactGroupTable_proofs`). `TableSpec` is the table under any
sequence of calls. The properties of interest, `ProbeChainsIntact`,
`SlotsAndGroupsMatch` and `GroupsDistinct`, are not inductive: `GroupsDistinct`
needs to know that a walk that ends at a free slot has seen every group with the
key, hence `ProbeChainsIntact` and that the key was compared at every slot
passed (`WalksSound`); `ProbeChainsIntact` during a rehash needs that the walk
of the group being placed has passed taken slots only, and
`SlotsAndGroupsMatch` needs that the groups not yet moved are exactly those the
loop has not come to (`RehashConserves`). `TableInv` joins these with the load
factor (`LoadBounded`) and the agreement of encoded keys and key columns. One
lemma per action shows that it keeps `TableInv`. `FreeSlotExists` follows from
`TableInv` by counting: fewer groups than slots, no two slots with one group.
Assumed: an initial capacity of at least two (the code's is a power of two; the
model takes the remainder where the code masks), hashes that are natural
numbers, encodings that are functions of the value.

**GROUP BY operator** (`GroupAgr_proofs`). Every step of the operator is a step
of `TableSpec` or leaves the table alone, so `TableInv` carries over; on the way
one has to know that the slot `FindOrInsert` answered with is still the group's
when it is used (`FoundMatches`), and that the key in the table's hands and the
operator's value are of one row (`RowInHand`). `LinesHoldTheirRows` then says
that the state of each group is that of exactly its rows: a found slot updates
the one group with the key, by `GroupsDistinct`, and an inserted key had no rows
before, by `RowsHaveGroups`. Assumed: the reserves the operator asks for are
among those `TableSpec` is proved for.

The refinement of `GroupBy` (`OperatorImplementsGroupBy`) and `ResultConsistent`
(`ResultIsAnswer`) need two things more, which `AnswerInv` adds. One is the
numbering: group g is that of the g-th row that started a group (`IsLine`), so
the lines are in the order of the answer; a row more changes no number that was
given (`NthGrows`). The other is the sum of a line. `GroupBy` takes it with a
fold that picks the rows of a set in an order nobody knows, the code in the
order of the rows: `SumsExist` builds, for every sequence of rows, a function
that holds the sums over all sets of them in whichever order they are taken, and
`SumOverIs` shows that the fold ends with its value; both are inductions over a
set of numbers. Then a step that ends a row takes the answer over the rows before
it to the answer over one row more, and every other step of table, walks and
growth changes neither rows nor lines.

**KIO file** (`KioDb_proofs`). `FileInv` is the inductive
invariant of writer, stream, device and reader; none of the properties is
inductive by itself.

- `Control` ties the flags to the place of the writer: when the footer has its
  position, who may still be unwinding, when the buffer is empty.
- `MetadataHolds`: every row group recorded describes its batch. Where a column
  lies within a batch is a sum of sizes: `PayloadIs` shows that the
  concatenation of the columns has each of them at that sum, for every batch.
- `BeforeFooter`: until `SeekHeader` the stream only appends, so that disk and
  buffer together are one file in which every batch recorded lands, and the
  header says that there is no footer. That is all one can say while the device
  works; after a failure the disk holds some prefix and no footer is ever placed.
- `AfterFooter`: from `SeekHeader` on all payloads are on the disk; the offset is
  there or it alone is pending, and no cell of the footer reaches the disk before
  it. The two `seekp` drain the buffer, which is what makes this so.
- `ReaderHolds`: a reader past the header has found a nonzero offset, hence a
  footer that no longer changes, and what it has read of it is the writer's
  metadata.

`AcceptedIsComplete`, `FinalizedIsPublished`, `ChunksLand` and `TypesHold` follow
from it, and so do the action properties `CompleteIsFinal` and
`CompleteIsAccepted`. `FileImplementsArchive` is the step simulation of
`Archive`: recording a row group stores the batch, the step that puts the last
cell of the footer on the disk seals the table, the reader's `Reset` after the
last row group's metadata accepts it, and every column read is handed out as it
was stored. All this for every set of batches of any shapes, every number of
calls and any projection. Assumed: sizes and row counts
are natural numbers (`BatchAssumption`, `MaxBatchesAssumption`), and the columns a
reader is asked for are sequences of numbers, of columns that exist or not
(`ProjectionsAssumption`).

**LIMIT** (`TopKLimit_proofs`). `LimitInv` adds to the window that skipped and
returned rows together are those seen (`SkippedCounts`), without which a batch
that straddles the offset proves nothing. `StopsPulling` is an action property
from the same invariant.

**Top-K** (`TopKLimit_proofs`). First `RowComesBefore` is proved a strict weak order
for every list of sort keys, which `std::sort` and the heap require of it. Then
`HeapHoldsFirst` is kept by `Replace` and `PassOver`: a row that the top follows
(or does not) is after (or before) what the rest of the heap allows, by
transitivity of incomparability. `TopKReturnsFirst` says that any sorted order
of the heap is a correct batch; `RowsCanBeSorted` that a finite set of rows always
has one, so that no step of the model is lost to a sort with no outcome, and
`FirstRowsExtend` that a batch of first rows is the beginning of a sorted order of
the whole input.

**Ordered query** (`OrderedQuery_proofs`). `PruningIsSound`: a row group whose
statistics rule out one constraint holds no row that satisfies it, for any
statistics that bound their chunk (`RowGroupAssumption`; `MCOrderedQuery`
computes them as the writer does). `QueryInv` joins the invariants of the scan, the heap
and the window; each action of the composition is shown to be one that each
operator's own specification allows, so that the lemmas of `TopKLimit_proofs`
apply. What links them is that a filter's batch is a sequence
of rows and a Top-K result has a length.

That the file holds the answer (`FileIsAnswer`) needs `AnswerLinks` besides, four
facts about the order of calls and what each caller has of the operator below:

- `InputIsSelected`: what the filter has returned is in bijection with the places
  of the selected rows in the row groups consumed. A skipped group adds no place,
  by `PruningIsSound`; a group that is read adds its own, disjoint from the
  others, in increasing order (`IncreasingIsBijection`, `BijectionsJoin`).
- `DrainedMeansRead`: the filter runs only inside a call of Top-K, and Top-K has
  its batch only after the filter has said that the file is read.
- `BatchStands`: the batch, once made, keeps what `ResultIsFirstRows` says of it,
  which by itself holds only while it is being returned.
- `WriterHasWindow`: nothing is in the file before the batch is taken, then the
  window `LimitInv` counts out; the writer stops for a full window, for a batch
  taken, or for a limit of zero.

The batch is completed to an order of the input by `FirstRowsExtend`, and the
bijection takes that to an order of the selected rows of the file; `WindowSize`
counts the rows of the window. With a limit of zero nothing is read, and the empty
file is an answer because the selected rows can be sorted at all. TLC found
`AnswerLinks` to hold on the instance of `ordered_query`.

**CSV import and `convert`** (`Convert_proofs`). `ConvertedIsWhole` compares what
was stored block by block with one parse of the whole file, for every file, every
block size and every list of columns. The argument has three layers.

- Texts. A loop of the parser is a function of how many characters it has taken
  (`LoopExists`, `LoopIs`), and a part of a text that begins where a row does
  and ends at a mark (a row end or the end of the text) is read as it is read in
  the text: the quotes (`QuotesOfPart`), hence the row ends (`RowEndsOfPart`),
  hence the parse, whose cells come behind those of the rows before
  (`ParseOfPart`, `BehindEnd`). What makes this true is that a doubled quote is
  never cut in half there: the last character of the part is a newline or the
  last of the text (`Alike`). `FirstRowsGoOn` is the sum of it: the parse up to a
  later mark is the parse so far, followed by the parse of the part between.
- Batches. `BatchOf` and the concatenation of columns are loops as well, and both
  take cells that follow each other to columns that follow each other
  (`BatchOfBoth`, `FlattenAppend`, `JoinedCells`).
- The program. Neither property is inductive. `ImportInv` says where the reader
  is: `Passed`, the characters it has let go of, is a mark of the file; buffer and
  carried text together are the part from there to `position`; what was delivered
  is the batch of the first rows up to `Passed`; and the text carried over holds
  no row end, so that the next cut is found in the new block. `Failed` keeps
  the reason of a failure and the mark up to which rows were delivered before it.
  `ConvertInv` adds that row group g of the output is batch g, that at most one
  batch is not stored yet, and what each place of the command has behind it
  (`Fresh`, `InStep`). One lemma per action keeps them.

`BufferBounded` is part of `ImportInv`: a buffer that has outgrown a block by a
block it then added ends in a row that spans it (`SpanFrom`, `Outgrown`). Assumed:
the block size is a positive number, a schema file gives the column types or
is refused, and files are sequences of characters. TLC found `ConvertInv`, its types apart, to hold
on the instance of `convert`.

`ParsersAgree` and `OnlyShortRowsMisalign` bring in the row parser, a third loop
over the same quotes. `Parallel` says what it has to do with the columnar one, as
long as that has not thrown: the cells so far are those of the rows and of the row
begun, value, column and the flag for a row begun are the same
(`ParsesParallel`). At the end of the text they part in one place, the carriage
return of a last row without newline, which is the exception `EndsInBareCR`
makes. Rows that are long enough have one cell per column each (`OneCellPerRow`),
so what has been delivered up to any mark has columns of one length, and so has
each batch, which is the difference between two marks (`EvenAtMark`,
`EvenAppend`); `EvenBatches` is the invariant.

**CSV round trip** (`CsvRoundTrip_proofs`). `TablesComeBack`: what the exporter
writes for a table is imported as the columns it was written from, for every
table, list of columns and block size, unless a value of the last column ends in a
carriage return (`KeptTable`; `csv_cr` shows what happens then). `RoundInv` is the
inductive invariant: the file is the text of the batches exported so far
(`TextOf`), and from the closed file on `ImportInv` holds, under a device that
does not fail. The rest is what one parse makes of that text, since blocks leave
no trace.

- A text is taken apart from the outside in: where a concatenation lies in a
  text, its pieces lie one behind the other (`Pieces`). Batches, rows, cells and
  doubled quotes are all such pieces.
- The loops of the parser are followed over each kind of piece. A value whose
  quotes are doubled, read inside quotes, appends itself to the field
  (`EscapedRead`), so a quoted cell does up to its closing quote, which is not
  the first of two because a separator follows (`QuotedRead`). The digits of a
  number are read as they are (`PlainRead`), and `ParseNum` takes them back to
  the number (`DecimalReads`). A cell and its separator are one cell more and
  leave the loops at the next column or between two rows (`FieldRead`); hence a
  row is one value more in every column (`RowRead`), a batch its columns behind
  those before (`BatchRead`), a text the table (`TableRead`).

Assumed: a table is a list of batches whose columns have one length and hold
values of the column's type (`TablesAssumption`), and the quote, the separators
and the digits are characters, which the provers do not know of a string
(`CharactersAssumption`). TLC found `RoundInv`, its types apart, to hold on the
instances of `csv_round_trip` and `csv_cr`, and on the second one `ComesBack` for
the tables of `KeptTable`.

**Dates** (`CsvDates_proofs`). `StampsSurvive`: from 1970 on the nested
divisions undo the products, for every year. `CodesAreOrdered`: the numbers are
ordered as the timestamps are, of any year. Both rest on three lemmas about
division with remainder and on `DatesInvariant`, which ties the three variables
to one row.

The inductions over data are over sets of numbers: a lemma (`UpTo`) says that a
set that has 0 and with every k below n also k + 1 has all numbers up to n, and
follows from the order of the natural numbers being well-founded. The
library's induction theorems take the formula as a parameter, which the provers
cannot instantiate. A recursive function is a CHOOSE for the prover; that there
is one is the first of these inductions, that it agrees with a description the
second.

Only model-checked: the liveness properties (`RowsFinish`, `QueryEnds`,
`ConversionEnds`), which need ENABLED; `Bytes` and `ColumnCodec` (`RoundTrip`,
`PayloadConsumed`), which speak of powers of two, for the provers an operator
without a definition (the one fact about it is the number of subsets of a set),
and whose run enumerates its inputs; and the ClickBench queries (`NoQueryFails`,
`FailureLeavesNoRows`, `AnswerIsMeaning`, `BatchesConsistent`), whose content is
in the 43 plans and not in a parameter.

## What is abstracted, and what is left out

- Widths are parameters (`ByteBits`, `WordBytes`, block sizes, capacities).
  Counters that stay far below 2^64 (rows, offsets in a file) are naturals.
- Sums do not overflow, and DOUBLE values are exact quotients.
- Types of equal width and sign are one type in `ColumnCodec`; CSV columns are
  TEXT, CHAR or INTEGER. The text of numbers is digits only: signs, ranges and
  DOUBLE are left out. Values that are compared are integers, exact quotients or
  texts (no NaN in a sort key or a statistic; NaN keys of GROUP BY are in
  `GroupAgr`).
- A text of `Columns` is a sequence of pieces that no query takes apart, except at
  the places the code looks for: a scheme, "www.", a slash, a needle.
- `BIT_PACKING` and `DELTA` encode a DOUBLE column, rounding each value towards
  zero, and refuse to decode it. The writer never selects them for DOUBLE, and
  `Supports` lists what can be decoded.
- RLE does not give back every DOUBLE column bit for bit: it extends a run while
  values are `==` (`rle_encoding.cpp:29`), so +0.0 and -0.0 share a run and come
  back with the sign of its first value; a NaN equals nothing and is a run of its
  own. `RoundTrip` states this exception exactly. The writer never selects RLE for
  DOUBLE, and `ExpectRoundTrip` (`tests/compression/column_encoding_test.cpp:17`)
  compares with the same `==`, under which the zeros are equal.
- The row groups of the ClickBench files hold at least one row, as those the
  importer writes do.
- Statistics are values where the file has their text. The footer's cells are
  read whole or not at all; corruption of bytes is not modelled.
- One writer per file: a second conversion that truncates a file under an open
  reader is not modelled.
- The output streams of the CSV exporter and of the result writer take every
  write.
- A scan that prunes every row group, or a file without row groups, gives a
  global aggregate no batch, and it returns no row instead of one with COUNT 0.
  `AnswerIsMeaning` accepts that (`NothingRead`): a test asks for it
  (`tests/execution/aggregate_op_test.cpp:78`).
- A CSV row with too few fields is no error: columns of different lengths are
  stored with the row count of the first. `OnlyShortRowsMisalign` says that
  nothing else has that effect; what a reader makes of such a row group is left
  open.
- A CSV file that is missing is noticed after the output file has been
  truncated, so that an old archive is replaced by a sealed one of no rows.
  `Convert` has that step, and no property rules it out.
- Not modelled: the compression layer below the encodings (it copies its input;
  `kio::Compression` has one value, NONE), a schema file of no rows,
  the helpers nothing calls (`Collect`, `SmallIntPlus`), command-line parsing and
  timing output.

## Disagreements found

- `kio_flush`: `Finalize` ignores the result of its `flush()`. When the device
  fails there, `main` returns 0 and the file has no complete footer
  (`transport/kio/kio_db_writer.cpp:144`). Readers reject the file.
- `csv_cr`: a quoted value of the last column that ends in a carriage return
  loses it when it is read (`transport/csv/csv_columnar_reader.cpp:127`).
- `dates_before_1970`: negative day numbers are printed by divisions that round
  towards zero (`transport/csv/csv_exporter.cpp:55`): 1969-12-31 is exported as
  1970-01-00.

## Plan

Done, in this order: the hash table and GROUP BY; the KIO file; scan, Top-K,
LIMIT and their composition; CSV and its dates; the encodings; the command
`convert` with its failures; schemas, aggregates, predicates, expressions, the 43
plans, and the command `query` over them.

Next modules:

1. Two conversions to one path, and a reader that was open.
2. The exporter and the result writer over a device that fails.
3. The text of signed numbers and of DOUBLE values.

Next proofs:

1. `Bytes`: zigzag numbers and wrapping differences invert, for every width; first
   the laws of powers of two, from the subsets of a set.
