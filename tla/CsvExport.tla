------------------------------ MODULE CsvExport -------------------------------
(***************************************************************************)
(* The export of a table as CSV, GetTableCsvHandler of                     *)
(* restapi/configure_qdb_api_rest.go: the handler cuts the time range into *)
(* chunks and returns; a goroutine reads the table one chunk after another *)
(* and writes lines into a pipe, from which CsvProducer copies them to the *)
(* client.  Meanwhile others may insert rows, and the client may go away.  *)
(*                                                                         *)
(* A row is known by its timestamp; every column of it has a value of its  *)
(* own.  Who owns the handle is the business of HandleCache.               *)
(***************************************************************************)
EXTENDS Integers, Sequences, FiniteSets

CONSTANTS
    MaxTime,     \* bound: timestamps
    Step,        \* the length of a chunk, four hours
    Layouts,     \* records: the types of a table's columns, and the positions
                 \* at which the date and the time are put between them
    Faults,      \* what may go wrong: a subset of FaultKinds
    MaxInserts,  \* bound: rows inserted during the export
    Nothing      \* no line is in the pipe

FaultKinds == {"bulk",  \* the bulk or its range cannot be had
               "row",   \* the rows of a chunk end with an error
               "gone"}  \* the client goes away

Times == 0 .. MaxTime
ColumnTypes == {"blob", "double", "int64", "string", "timestamp", "symbol"}

ASSUME CsvAssumption ==
    /\ MaxTime \in Nat
    /\ Step \in Nat \ {0}
    /\ MaxInserts \in Nat
    /\ \A l \in Layouts : /\ l.types \in Seq(ColumnTypes)
                          /\ l.date \in Nat
                          /\ l.time \in Nat \ {l.date}
    \* Nothing is not a line
    /\ \A l \in Layouts : \A D \in SUBSET (1 .. Len(l.types) + 2) :
           Nothing \notin [time : Int, fields : [D -> Int]]

VARIABLES
    start, end,  \* the range
    layout,      \* the table's layout
    table,       \* the times of the rows in the table
    asked,       \* those that were there when the export began
    chunks,      \* rangeChunks
    next,        \* the index of the chunk that the goroutine is at
    rows,        \* the rows of the bulk that are left
    failed,      \* the chunks that could not be read
    writer,      \* where the handler or its goroutine is
    pipe,        \* the line in the pipe
    received,    \* the lines that the client has received
    reader,      \* where CsvProducer is
    inserts      \* the rows inserted during the export

request == <<start, end, layout>>
vars == <<request, table, asked, chunks, next, rows, failed, writer, pipe, received,
          reader, inserts>>

-----------------------------------------------------------------------------
(* The header and the fields of a row.                                     *)

\* The positions of a line: one for each column and two for the timestamp.
Positions == 1 .. Len(layout.types) + 2
Special == {layout.date + 1, layout.time + 1}

\* The column whose name and value are at position i.
ColumnAt(i) == i - Cardinality({s \in Special : s < i})

\* A position may lie beyond the columns if the date or the time do.
LayoutFits == \A i \in Positions \ Special : ColumnAt(i) \in DOMAIN layout.types

\* Mutated Read: integers are forgotten as well.
Read_NoIntegers == {i \in Positions \ Special : layout.types[ColumnAt(i)] \notin {"symbol", "int64"}}

\* The goroutine reads no value for a symbol; for any other column it reads the
\* bulk's next value.
Read == {i \in Positions \ Special : layout.types[ColumnAt(i)] # "symbol"}
CursorAt(i) == Cardinality({k \in Read : k <= i})

\* A value can be had as what it is, and a symbol as a string.
Readable(as, type) == as = type \/ (as = "string" /\ type = "symbol")

\* The field at a position: the column whose value it holds, or 0 if it is empty.
FieldAt(i) ==
    LET c == CursorAt(i)
    IN IF i \in Read /\ Readable(layout.types[ColumnAt(i)], layout.types[c]) THEN c ELSE 0

Line(t) == [time |-> t, fields |-> [i \in Positions \ Special |-> FieldAt(i)]]
Header == [time |-> -1, fields |-> [i \in Positions \ Special |-> ColumnAt(i)]]

-----------------------------------------------------------------------------
(* chunkRange.                                                             *)

\* Its first loop: the instants that are a whole number of steps after the
\* start s and before the end e.
TimePoints(s, e) ==
    LET passes == {k \in 0 .. e - s : s + k * Step < e}
    IN [i \in 1 .. Cardinality(passes) |-> s + (i - 1) * Step]

\* Mutated chunkRange: the ranges overlap.
chunkRange_Overlapping(s, e) ==
    LET points == TimePoints(s, e)
    IN [i \in 1 .. Len(points) - 1 |-> [begin |-> points[i], end |-> points[i + 1] + 1]]

\* Mutated chunkRange: one range too few.
chunkRange_OneFewer(s, e) ==
    LET points == TimePoints(s, e)
    IN [i \in 1 .. Len(points) - 2 |-> [begin |-> points[i], end |-> points[i + 1]]]

\* Its second loop: a range from each point to the next one.
chunkRange(s, e) ==
    LET points == TimePoints(s, e)
    IN [i \in 1 .. Len(points) - 1 |-> [begin |-> points[i], end |-> points[i + 1]]]

In(t, range) == range.begin <= t /\ t < range.end

-----------------------------------------------------------------------------

Chunk == [begin : Nat, end : Nat]

TypeOK ==
    /\ start \in Times /\ end \in Times
    /\ layout \in Layouts
    /\ table \subseteq Times
    /\ asked \subseteq table
    /\ chunks \in Seq(Chunk)
    /\ next \in 1 .. Len(chunks) + 1
    /\ rows \subseteq table
    /\ failed \subseteq DOMAIN chunks
    /\ writer \in {"handler", "header", "chunk", "row", "closed", "panicked"}
    /\ inserts \in 0 .. MaxInserts
    /\ reader \in {"copy", "complete", "gone"}
    \* a field of a line is a column of the table, or empty
    /\ \A i \in DOMAIN received :
         /\ received[i].time \in Times \cup {-1}
         /\ \A p \in DOMAIN received[i].fields :
              received[i].fields[p] \in DOMAIN layout.types \cup {0}

Init ==
    /\ start \in Times /\ end \in Times
    /\ layout \in Layouts
    /\ table \in SUBSET Times
    /\ asked = {}
    /\ chunks = <<>>
    /\ next = 1
    /\ rows = {}
    /\ failed = {}
    /\ writer = "handler"
    /\ pipe = Nothing
    /\ received = <<>>
    /\ reader = "copy"
    /\ inserts = 0

\* The handler builds the header and the chunks and starts the goroutine; it
\* panics if the table has too few columns or the range is empty.
Handle ==
    /\ writer = "handler"
    /\ IF LayoutFits /\ start < end
       THEN /\ writer' = "header"
            /\ chunks' = chunkRange(start, end)
       ELSE writer' = "panicked" /\ UNCHANGED chunks
    /\ asked' = table
    /\ UNCHANGED <<request, table, next, rows, failed, pipe, received, reader, inserts>>

\* The goroutine writes a line.  Fprintln returns when the line has been read,
\* so that nothing else can happen to the goroutine while there is one.
PutLine(line) == pipe' = line
Running(label) == writer = label /\ pipe = Nothing

WriteHeader ==
    /\ Running("header")
    /\ PutLine(Header)
    /\ writer' = "chunk"
    /\ UNCHANGED <<request, table, asked, chunks, next, rows, failed, received, reader, inserts>>

\* Mutated NextChunk: the loop's step is taken twice.
NextChunk_Twice == next' = next + 2 /\ writer' = "chunk"

NextChunk == next' = next + 1 /\ writer' = "chunk"

\* A bulk is made and gets the rows of the chunk.
GetRanges ==
    /\ Running("chunk")
    /\ next <= Len(chunks)
    /\ rows' = {t \in table : In(t, chunks[next])}
    /\ writer' = "row"
    /\ UNCHANGED <<request, table, asked, chunks, next, failed, pipe, received, reader, inserts>>

\* It is not, and the goroutine goes on with the next chunk.
GetRangesFails ==
    /\ Running("chunk")
    /\ next <= Len(chunks)
    /\ "bulk" \in Faults
    /\ failed' = failed \cup {next}
    /\ NextChunk
    /\ UNCHANGED <<request, table, asked, chunks, rows, pipe, received, reader, inserts>>

NextRow ==
    /\ Running("row")
    /\ \E t \in rows : /\ \A r \in rows : t <= r
                      /\ PutLine(Line(t))
                      /\ rows' = rows \ {t}
    /\ UNCHANGED <<request, table, asked, chunks, next, failed, writer, received, reader, inserts>>

\* There are no more rows.
RowsEnd ==
    /\ Running("row")
    /\ rows = {}
    /\ NextChunk
    /\ UNCHANGED <<request, table, asked, chunks, rows, failed, pipe, received, reader, inserts>>

\* NextRow fails, which looks the same to the goroutine.
NextRowFails ==
    /\ Running("row")
    /\ rows # {}
    /\ "row" \in Faults
    /\ rows' = {}
    /\ failed' = failed \cup {next}
    /\ NextChunk
    /\ UNCHANGED <<request, table, asked, chunks, pipe, received, reader, inserts>>

\* The goroutine closes the pipe and ends.
Close ==
    /\ Running("chunk")
    /\ next > Len(chunks)
    /\ writer' = "closed"
    /\ UNCHANGED <<request, table, asked, chunks, next, rows, failed, pipe, received, reader, inserts>>

-----------------------------------------------------------------------------
(* CsvProducer and the world.                                              *)

\* Mutated Copy: the response ends with the header.
Copy_Once ==
    /\ reader = "copy"
    /\ pipe # Nothing
    /\ received = <<>>
    /\ received' = Append(received, pipe)
    /\ pipe' = Nothing
    /\ UNCHANGED <<request, table, asked, chunks, next, rows, failed, writer, reader, inserts>>

Copy ==
    /\ reader = "copy"
    /\ pipe # Nothing
    /\ received' = Append(received, pipe)
    /\ pipe' = Nothing
    /\ UNCHANGED <<request, table, asked, chunks, next, rows, failed, writer, reader, inserts>>

\* The pipe is closed: the response is complete.
CopyEnds ==
    /\ reader = "copy"
    /\ writer = "closed"
    /\ reader' = "complete"
    /\ UNCHANGED <<request, table, asked, chunks, next, rows, failed, writer, pipe, received, inserts>>

\* The client goes away, and CsvProducer returns.  Nobody closes the pipe.
Disconnect ==
    /\ reader = "copy"
    /\ writer # "handler"
    /\ "gone" \in Faults
    /\ reader' = "gone"
    /\ UNCHANGED <<request, table, asked, chunks, next, rows, failed, writer, pipe, received, inserts>>

Insert ==
    /\ writer # "handler"
    /\ inserts < MaxInserts
    /\ \E t \in Times \ table : table' = table \cup {t}
    /\ inserts' = inserts + 1
    /\ UNCHANGED <<request, asked, chunks, next, rows, failed, writer, pipe, received, reader>>

WriterStep == Handle \/ WriteHeader \/ GetRanges \/ NextRow \/ RowsEnd \/ Close
ReaderStep == Copy \/ CopyEnds

Next == \/ WriterStep \/ ReaderStep
        \/ GetRangesFails \/ NextRowFails \/ Disconnect \/ Insert

Spec == Init /\ [][Next]_vars

\* The goroutine is scheduled and the client reads.
FairSpec == Spec /\ WF_vars(WriterStep) /\ WF_vars(ReaderStep)

-----------------------------------------------------------------------------
(* Safety.                                                                 *)

Received == {received[i].time : i \in 2 .. Len(received)}

\* The first line is the header, and the rows come in the order of their times,
\* none of them twice, although each chunk is read on its own.
InOrder ==
    \A i, j \in DOMAIN received :
        /\ received[i].time = -1 <=> i = 1
        /\ i < j => received[i].time < received[j].time

\* The last whole number of steps after the start that lies before the end.
Covered == start + Step * ((end - start - 1) \div Step)

\* A complete response holds every row of the range that was there when the
\* export began, but for those of chunks that failed and for the rest of the range
\* after the last multiple of four hours; and no row from outside of the range.
Complete ==
    /\ \A t \in Received : start <= t /\ t < end /\ t \in table
    /\ reader = "complete" =>
         \A t \in asked : start <= t /\ t < Covered =>
            t \in Received \/ \E c \in failed : In(t, chunks[c])

\* Every line has the fields that the header announces, as long as no symbol
\* precedes them: the bulk's cursor stays behind at a symbol.
FieldsInPlace ==
    \A i \in 2 .. Len(received) : \A p \in DOMAIN received[i].fields :
        LET c == received[1].fields[p]
        IN (\A k \in 1 .. c : layout.types[k] # "symbol") => received[i].fields[p] = c

(* Liveness.                                                               *)

\* Every response is completed, unless the handler panics or the client goes
\* away.
ResponseEnds == <>(reader \in {"complete", "gone"} \/ writer = "panicked")
=============================================================================
