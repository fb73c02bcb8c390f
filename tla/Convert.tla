------------------------------ MODULE Convert ------------------------------
(***************************************************************************)
(* "kio_db convert": the schema is loaded, the writer truncates the output *)
(* file, the importer opens the CSV file and hands the writer one batch    *)
(* after another, and Finalize seals the file.  An exception unwinds       *)
(* through the writer, whose destructor seals what was stored so far.      *)
(*                                                                         *)
(* The writer is what KioDb shows it to be: a list of row groups that can  *)
(* be read once it is sealed.  A device that fails once stays failed.      *)
(***************************************************************************)
EXTENDS CsvImport

LOCAL S == INSTANCE Schema

CONSTANT SchemaFiles  \* the schema files, as lists of rows

TypesOf(rows) == LET schema == S!ResetFromRows(rows)
                 IN  [i \in DOMAIN schema |-> schema[i].type]

ASSUME SchemaFilesAssumption ==
    \A rows \in SchemaFiles :
        S!ResetFromRowsThrows(rows) \/ TypesOf(rows) = ColumnTypes

VARIABLES
    step,        \* what ConvertCsvToKio is about to do; "ok" or "failed" at the end
    output,      \* the output file: "old", "open" or "sealed", and its row groups
    disk_failed  \* the output device has failed

convertVars == <<importVars, step, output, disk_failed>>

ConvertInit ==
    /\ file = <<>> /\ ReaderInit
    /\ step = "schema" /\ disk_failed = FALSE
    /\ output = [state |-> "old", row_groups |-> <<>>]

LoadSchema ==
    /\ step = "schema"
    /\ \E rows \in SchemaFiles :
           step' = IF S!ResetFromRowsThrows(rows) THEN "failed" ELSE "output"
    /\ UNCHANGED <<importVars, output, disk_failed>>

\* The constructor of the writer truncates the file and writes the header.
OpenOutput ==
    /\ step = "output"
    /\ \/ step' = "failed" /\ UNCHANGED <<output, disk_failed>>
       \/ /\ output' = [output EXCEPT !.state = "open"]
          /\ disk_failed' \in BOOLEAN
          /\ step' = IF disk_failed' THEN "failed" ELSE "input"
    /\ UNCHANGED importVars

\* The CSV file is opened after the output file has been truncated.
OpenInput ==
    /\ step = "input"
    /\ \/ step' = "unwind" /\ broken' = TRUE /\ UNCHANGED file
       \/ step' = "import" /\ file' \in Files /\ UNCHANGED broken
    /\ UNCHANGED <<position, pending, eof_reached, buffer, ipc, delivered,
                   output, disk_failed>>

AllStored == Len(output.row_groups) = Len(delivered)

Import ==
    /\ step = "import" /\ AllStored
    /\ ImportStep
    /\ UNCHANGED <<step, output, disk_failed>>

InputFails ==
    /\ step = "import" /\ AllStored
    /\ ReadFails
    /\ UNCHANGED <<step, output, disk_failed>>

RowGroup(batch) == [row_num |-> Len(batch[1]), columns |-> batch]

WriteBatchToFile ==
    /\ step = "import" /\ ~AllStored
    /\ \/ /\ output' = [output EXCEPT !.row_groups =
                            Append(@, RowGroup(Last(delivered)))]
          /\ UNCHANGED <<step, disk_failed>>
       \/ disk_failed' = TRUE /\ step' = "unwind" /\ UNCHANGED output
    /\ UNCHANGED importVars

ImportEnds ==
    /\ step = "import" /\ AllStored
    /\ \/ ipc = "done" /\ step' = "finalize"
       \/ ipc = "failed" /\ step' = "unwind"
    /\ UNCHANGED <<importVars, output, disk_failed>>

Sealed == [output EXCEPT !.state = "sealed"]

\* Writing the footer throws when the device fails; flushing it does not.
Finalize ==
    /\ step = "finalize"
    /\ \/ step' = "ok" /\ output' = Sealed /\ UNCHANGED disk_failed
       \/ /\ step' \in {"unwind", "ok"} /\ disk_failed' = TRUE
          /\ UNCHANGED output
    /\ UNCHANGED importVars

\* ~KioDbWriter finalizes; what goes wrong is swallowed.
Unwind ==
    /\ step = "unwind"
    /\ \/ ~disk_failed /\ output' = Sealed /\ UNCHANGED disk_failed
       \/ disk_failed' = TRUE /\ UNCHANGED output
    /\ step' = "failed"
    /\ UNCHANGED importVars

ConvertStep ==
    \/ LoadSchema \/ OpenOutput \/ OpenInput
    \/ Import \/ WriteBatchToFile \/ ImportEnds
    \/ Finalize \/ Unwind

ConvertNext == ConvertStep \/ InputFails

\* The command is one program that is left to run; no device has to fail.
ConvertSpec ==
    ConvertInit /\ [][ConvertNext]_convertVars /\ WF_convertVars(ConvertStep)

----------------------------------------------------------------------------
(* Properties *)

\* The columns of all row groups, one after the other.
Stored ==
    [c \in Columns |-> FlattenSeq([g \in DOMAIN output.row_groups |->
                                       output.row_groups[g].columns[c]])]

\* Blocks leave no trace: a conversion that returns 0 has sealed the columns
\* that one parse of the whole file gives, unless the device failed under the
\* last flush; and it returns 1 only where that parse throws, a file cannot be
\* opened, read or written, or the schema is wrong.  A cut inside quotes, a
\* doubled quote on a block boundary and a last row without newline are what
\* could go wrong (csv_batch_reader.cpp:13, :60).
ConvertedIsWhole ==
    LET whole == ParseBuffer(file)
    IN  /\ step = "ok" /\ ~disk_failed =>
               /\ output.state = "sealed"
               /\ ~whole.thrown /\ Stored = BatchOf(whole.cells)
        /\ step = "failed" /\ output.state # "old" =>
               whole.thrown \/ broken \/ disk_failed

\* What a failed conversion leaves sealed (main.cpp:45) is the table of the
\* first rows of the CSV file: no part of a row, and nothing that the rest of
\* the file would have changed.
SealedIsFirstRows ==
    output.state = "sealed" =>
        \E cut \in {0, Len(file)} \union RowEnds(file) :
            LET head == ParseBuffer(SubSeq(file, 1, cut))
            IN  ~head.thrown /\ Stored = BatchOf(head.cells)

\* A row group whose row_num is not the length of each of its columns comes
\* from a file with a row that has too few fields (csv_columnar_reader.cpp:122,
\* kio_db_writer.cpp:173): neither blocks nor quotes nor empty values put the
\* columns out of step.
OnlyShortRowsMisalign ==
    (\E g \in DOMAIN output.row_groups : \E c \in Columns :
         Len(output.row_groups[g].columns[c]) # output.row_groups[g].row_num)
    => \E r \in Range(ParseRows(file)) : Len(r) < Len(ColumnTypes)

\* Every conversion ends, whatever the file holds (the loop of ReadNextBuffer
\* is a while (true)).
ConversionEnds == <>(step \in {"ok", "failed"})
=============================================================================
