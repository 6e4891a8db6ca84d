--------------------------- MODULE CsvExportProofs ---------------------------
(***************************************************************************)
(* What TLAPS proves of CsvExport, for any table layout that its           *)
(* assumption admits, any range, any length of a chunk and any faults.     *)
(***************************************************************************)
EXTENDS CsvExport, TLAPS, FiniteSetTheorems, SequenceTheorems

-----------------------------------------------------------------------------
(* The chunks of a range.                                                  *)

\* A range has q whole steps, and its chunks are those steps.
Steps(s, e) == (e - s - 1) \div Step

LEMMA StepsBound ==
  ASSUME NEW s \in Nat, NEW e \in Nat, s < e
  PROVE  /\ Steps(s, e) \in Nat
         /\ s + Steps(s, e) * Step < e
         /\ e <= s + (Steps(s, e) + 1) * Step
         /\ Steps(s, e) <= e - s
<1> USE CsvAssumption
<1> DEFINE a == e - s - 1
           q == a \div Step
<1>1. a \in Nat /\ Step \in Nat \ {0}
  OBVIOUS
<1>2. q \in Nat /\ q * Step <= a /\ a < (q + 1) * Step /\ q <= a
  BY <1>1
<1> QED
  BY <1>1, <1>2 DEF Steps

LEMMA ChunksOfRange ==
  ASSUME NEW s \in Nat, NEW e \in Nat, s < e
  PROVE  chunkRange(s, e) = [i \in 1 .. Steps(s, e) |->
                               [begin |-> s + (i - 1) * Step, end |-> s + i * Step]]
<1> USE CsvAssumption
<1> DEFINE q == Steps(s, e)
           passes == {k \in 0 .. e - s : s + k * Step < e}
           points == [i \in 1 .. Cardinality(passes) |-> s + (i - 1) * Step]
<1>1. /\ q \in Nat /\ q <= e - s
      /\ s + q * Step < e /\ e <= s + (q + 1) * Step
  BY StepsBound
<1> HIDE DEF q
<1>2. passes = 0 .. q
  <2>1. ASSUME NEW k \in 0 .. q PROVE k \in passes
    <3>1. k * Step <= q * Step
      BY <1>1
    <3> QED
      BY <1>1, <3>1
  <2>2. ASSUME NEW k \in passes PROVE k \in 0 .. q
    <3>1. CASE k >= q + 1
      <4>1. k * Step >= (q + 1) * Step
        BY <1>1, <3>1
      <4> QED
        BY <1>1, <4>1
    <3> QED
      BY <1>1, <3>1
  <2> QED
    BY <2>1, <2>2
<1>3. Cardinality(passes) = q + 1
  <2>1. Cardinality(0 .. q) = q + 1
    BY <1>1, FS_Interval
  <2> HIDE DEF passes
  <2> QED
    BY <1>2, <2>1
<1>4. points = [i \in 1 .. q + 1 |-> s + (i - 1) * Step]
  BY <1>3
<1>6. TimePoints(s, e) = points
  BY DEF TimePoints
<1> HIDE DEF points
<1>5. Len(points) - 1 = q
  <2>1. DOMAIN points = 1 .. q + 1
    BY <1>4
  <2> QED
    BY <1>1, <1>4, <2>1
<1>7. ASSUME NEW i \in 1 .. q
      PROVE  points[i] = s + (i - 1) * Step /\ points[i + 1] = s + i * Step
  <2>1. i \in 1 .. q + 1 /\ i + 1 \in 1 .. q + 1 /\ (i + 1) - 1 = i
    BY <1>1
  <2>2. points[i] = s + (i - 1) * Step /\ points[i + 1] = s + ((i + 1) - 1) * Step
    BY <1>4, <2>1, Zenon
  <2> QED
    BY <2>1, <2>2, Zenon
<1>8. chunkRange(s, e) = [i \in 1 .. q |-> [begin |-> points[i], end |-> points[i + 1]]]
  BY <1>5, <1>6 DEF chunkRange
<1>9. \A i \in 1 .. q : [begin |-> points[i], end |-> points[i + 1]]
                        = [begin |-> s + (i - 1) * Step, end |-> s + i * Step]
  BY <1>7, Zenon
<1> QED
  BY <1>8, <1>9, Zenon DEF q

\* The chunks follow one another without a gap, and lie inside of the range.
LEMMA ChunksAreAdjacent ==
  ASSUME NEW s \in Nat, NEW e \in Nat, s < e
  PROVE  LET chs == chunkRange(s, e)
         IN  /\ chs \in Seq(Chunk)
             /\ \A i \in 1 .. Len(chs) : s <= chs[i].begin /\ chs[i].end < e
             /\ \A i \in 1 .. Len(chs) - 1 : chs[i].end = chs[i + 1].begin
<1> USE CsvAssumption
<1> DEFINE q == Steps(s, e)
           chs == chunkRange(s, e)
<1>1. q \in Nat /\ s + q * Step < e
  BY StepsBound
<1>2. chs = [i \in 1 .. q |-> [begin |-> s + (i - 1) * Step, end |-> s + i * Step]]
  BY ChunksOfRange
<1> HIDE DEF q, chs
<1>3. ASSUME NEW i \in 1 .. q
      PROVE  /\ (i - 1) * Step \in Nat /\ i * Step \in Nat /\ i * Step <= q * Step
             /\ q * Step \in Nat
  BY <1>1
<1>4. chs \in Seq(Chunk) /\ Len(chs) = q
  <2>1. \A i \in 1 .. q : [begin |-> s + (i - 1) * Step, end |-> s + i * Step] \in Chunk
    BY <1>3 DEF Chunk
  <2>2. chs \in [1 .. q -> Chunk]
    BY <1>2, <2>1, Zenon
  <2> QED
    BY <1>1, <2>2
<1>5. \A i \in 1 .. q : s <= chs[i].begin /\ chs[i].end < e
  <2> SUFFICES ASSUME NEW i \in 1 .. q PROVE s <= chs[i].begin /\ chs[i].end < e
    OBVIOUS
  <2>1. chs[i].begin = s + (i - 1) * Step /\ chs[i].end = s + i * Step
    BY <1>2, Zenon
  <2> DEFINE first == (i - 1) * Step
             last == i * Step
             all == q * Step
  <2>2. first \in Nat /\ last \in Nat /\ all \in Nat /\ last <= all
    BY <1>3
  <2>3. chs[i].begin = s + first /\ chs[i].end = s + last /\ s + all < e
    BY <1>1, <2>1
  <2> HIDE DEF first, last, all
  <2> QED
    BY <2>2, <2>3
<1>6. \A i \in 1 .. q - 1 : chs[i].end = chs[i + 1].begin
  <2> SUFFICES ASSUME NEW i \in 1 .. q - 1 PROVE chs[i].end = chs[i + 1].begin
    OBVIOUS
  <2>1. i \in 1 .. q /\ i + 1 \in 1 .. q /\ (i + 1) - 1 = i
    BY <1>1
  <2>2. chs[i].end = s + i * Step /\ chs[i + 1].begin = s + ((i + 1) - 1) * Step
    BY <1>2, <2>1, Zenon
  <2> QED
    BY <2>1, <2>2, Zenon
<1> QED
  BY <1>4, <1>5, <1>6 DEF chs

\* No instant before the last whole step is in no chunk.
LEMMA ChunksCover ==
  ASSUME NEW s \in Nat, NEW e \in Nat, s < e, NEW t \in Nat, s <= t,
         t < s + Step * ((e - s - 1) \div Step)
  PROVE  \E i \in DOMAIN chunkRange(s, e) : In(t, chunkRange(s, e)[i])
<1> USE CsvAssumption
<1> DEFINE q == Steps(s, e)
           a == t - s
           k == a \div Step
<1>1. q \in Nat /\ t < s + q * Step
  BY StepsBound DEF Steps
<1>2. chunkRange(s, e) = [i \in 1 .. q |-> [begin |-> s + (i - 1) * Step, end |-> s + i * Step]]
  BY ChunksOfRange
<1>3. k \in Nat /\ k * Step <= a /\ a < (k + 1) * Step
  BY CsvAssumption
<1> HIDE DEF q, k
<1>4. k + 1 \in 1 .. q
  <2>1. CASE k >= q
    <3>1. k * Step >= q * Step
      BY <1>1, <1>3, <2>1
    <3> QED
      BY <1>1, <1>3, <3>1
  <2> QED
    BY <1>1, <1>3, <2>1
<1>5. In(t, chunkRange(s, e)[k + 1])
  BY <1>2, <1>3, <1>4 DEF In
<1> QED
  BY <1>2, <1>4, <1>5

-----------------------------------------------------------------------------
(* The fields of a line.                                                   *)

LEMMA LayoutTypes ==
  ASSUME layout \in Layouts
  PROVE  /\ layout.types \in Seq(ColumnTypes) /\ Len(layout.types) \in Nat
         /\ Positions \subseteq Nat \ {0} /\ Special \subseteq Nat \ {0}
         /\ IsFiniteSet(Special) /\ IsFiniteSet(Positions)
<1> USE CsvAssumption
<1>1. layout.types \in Seq(ColumnTypes) /\ layout.date \in Nat /\ layout.time \in Nat
  OBVIOUS
<1>2. Len(layout.types) \in Nat
  BY <1>1
<1>3. IsFiniteSet(Special)
  <2>1. IsFiniteSet({layout.date + 1} \cup {layout.time + 1})
    <3>1. IsFiniteSet({layout.date + 1})
      BY FS_Singleton
    <3> QED
      BY <3>1, FS_AddElement
  <2>2. Special = {layout.date + 1} \cup {layout.time + 1}
    BY DEF Special
  <2> QED
    BY <2>1, <2>2, Zenon
<1>4. IsFiniteSet(Positions)
  BY <1>2, FS_Interval DEF Positions
<1> QED
  BY <1>1, <1>2, <1>3, <1>4 DEF Positions, Special

\* The column at a position is the number of positions up to it that are
\* neither the date's nor the time's.
LEMMA ColumnIsCount ==
  ASSUME layout \in Layouts, NEW i \in Positions \ Special
  PROVE  /\ ColumnAt(i) = Cardinality((1 .. i) \ Special)
         /\ ColumnAt(i) \in Nat
<1>1. i \in Nat \ {0}
  BY LayoutTypes
<1>2. {s \in Special : s < i} = (1 .. i) \cap Special
  BY <1>1, LayoutTypes
<1>3. IsFiniteSet(1 .. i) /\ Cardinality(1 .. i) = i
  BY <1>1, FS_Interval
<1>4. /\ Cardinality((1 .. i) \ Special) = i - Cardinality((1 .. i) \cap Special)
      /\ IsFiniteSet((1 .. i) \ Special)
  BY <1>3, FS_Difference
<1>5. Cardinality((1 .. i) \ Special) \in Nat
  BY <1>4, FS_CardinalityType
<1> QED
  BY <1>2, <1>4, <1>5 DEF ColumnAt

\* The columns grow with the positions.
LEMMA ColumnsGrow ==
  ASSUME layout \in Layouts, NEW i \in Positions \ Special, NEW k \in Positions \ Special, k <= i
  PROVE  ColumnAt(k) <= ColumnAt(i)
<1>1. i \in Nat /\ k \in Nat
  BY LayoutTypes
<1>2. (1 .. k) \ Special \in SUBSET ((1 .. i) \ Special)
  BY <1>1
<1>3. IsFiniteSet(1 .. i)
  BY <1>1, FS_Interval
<1>4. IsFiniteSet((1 .. i) \ Special)
  BY <1>3, FS_Difference
<1>5. Cardinality((1 .. k) \ Special) <= Cardinality((1 .. i) \ Special)
  BY <1>2, <1>4, FS_Subset
<1> QED
  BY <1>5, ColumnIsCount, Zenon

\* The bulk's cursor is never ahead of the column at a position, and level with it
\* where every position so far has been read.
LEMMA CursorBounds ==
  ASSUME layout \in Layouts, NEW i \in Positions \ Special
  PROVE  /\ CursorAt(i) \in Nat
         /\ CursorAt(i) <= ColumnAt(i)
         /\ i \in Read => CursorAt(i) >= 1
         /\ ((1 .. i) \ Special \subseteq Read) => CursorAt(i) = ColumnAt(i)
<1> DEFINE seen == {k \in Read : k <= i}
           all == (1 .. i) \ Special
<1>1. i \in Nat \ {0} /\ Read \subseteq Positions \ Special /\ Read \subseteq Nat \ {0}
  BY LayoutTypes DEF Read
<1>2. seen \subseteq all
  <2> SUFFICES ASSUME NEW k \in Read, k <= i PROVE k \in (1 .. i) \ Special
    OBVIOUS
  <2>1. k \in Nat \ {0} /\ k \in Positions \ Special
    BY <1>1
  <2> QED
    BY <1>1, <2>1
<1>3. IsFiniteSet(all)
  <2>1. IsFiniteSet(1 .. i)
    BY <1>1, FS_Interval
  <2> QED
    BY <2>1, FS_Difference
<1>4. IsFiniteSet(seen) /\ Cardinality(seen) <= Cardinality(all) /\ Cardinality(seen) \in Nat
  BY <1>2, <1>3, FS_Subset, FS_CardinalityType
<1>5. i \in Read => Cardinality(seen) # 0
  <2>1. i \in Read => i \in seen
    BY <1>1
  <2> HIDE DEF seen
  <2> QED
    BY <2>1, <1>4, FS_EmptySet
<1>6. all \subseteq Read => seen = all
  BY <1>2
<1>7. CursorAt(i) = Cardinality(seen) /\ ColumnAt(i) = Cardinality(all)
  BY ColumnIsCount DEF CursorAt
<1> HIDE DEF seen, all
<1>8. Cardinality(all) \in Nat
  BY <1>3, FS_CardinalityType
<1> QED
  BY <1>4, <1>5, <1>6, <1>7, <1>8 DEF all

\* A field is a column of the table or empty, and if no symbol precedes it, it is
\* the column that the header announces.
LEMMA FieldIsColumn ==
  ASSUME layout \in Layouts, LayoutFits, NEW i \in Positions \ Special
  PROVE  /\ ColumnAt(i) \in DOMAIN layout.types
         /\ FieldAt(i) \in DOMAIN layout.types \cup {0}
         /\ (\A k \in 1 .. ColumnAt(i) : layout.types[k] # "symbol") => FieldAt(i) = ColumnAt(i)
<1>1. ColumnAt(i) \in DOMAIN layout.types
  BY DEF LayoutFits
<1>2. DOMAIN layout.types = 1 .. Len(layout.types) /\ Len(layout.types) \in Nat
  BY LayoutTypes
<1>3. i \in Read => CursorAt(i) \in DOMAIN layout.types
  BY <1>1, <1>2, CursorBounds, ColumnIsCount
<1>4. FieldAt(i) \in DOMAIN layout.types \cup {0}
  BY <1>3 DEF FieldAt
<1>5. ASSUME \A k \in 1 .. ColumnAt(i) : layout.types[k] # "symbol"
      PROVE  FieldAt(i) = ColumnAt(i)
  <2>1. ASSUME NEW k \in (1 .. i) \ Special PROVE k \in Read
    <3>1. k \in Positions \ Special /\ k <= i
      BY LayoutTypes DEF Positions
    <3>2. ColumnAt(k) <= ColumnAt(i) /\ ColumnAt(k) \in DOMAIN layout.types
      BY <3>1, ColumnsGrow DEF LayoutFits
    <3>3. ColumnAt(k) \in 1 .. ColumnAt(i)
      BY <1>1, <1>2, <3>2
    <3> QED
      BY <3>1, <3>3, <1>5 DEF Read
  <2>2. CursorAt(i) = ColumnAt(i)
    BY <2>1, CursorBounds
  <2>3. i \in Read
    BY <2>1, LayoutTypes
  <2> QED
    BY <2>2, <2>3 DEF FieldAt, Readable
<1> QED
  BY <1>1, <1>4, <1>5

\* Header and lines are no Nothing: whether there is a line in the pipe can be
\* told from it.
LEMMA LinesAreLines ==
  ASSUME layout \in Layouts
  PROVE  /\ Header # Nothing
         /\ \A t \in Times : Line(t) # Nothing
<1> DEFINE D == Positions \ Special
<1>1. D \in SUBSET (1 .. Len(layout.types) + 2)
  BY DEF Positions
<1>2. Nothing \notin [time : Int, fields : [D -> Int]]
  BY <1>1, CsvAssumption
<1>3. \A i \in D : ColumnAt(i) \in Int /\ CursorAt(i) \in Int
  <2> SUFFICES ASSUME NEW i \in Positions \ Special
               PROVE  ColumnAt(i) \in Int /\ CursorAt(i) \in Int
    OBVIOUS
  <2>1. ColumnAt(i) \in Nat /\ CursorAt(i) \in Nat
    BY ColumnIsCount, CursorBounds
  <2> QED
    BY <2>1
<1>4. \A i \in D : FieldAt(i) \in Int
  BY <1>3 DEF FieldAt
<1>5. Header \in [time : Int, fields : [D -> Int]]
  BY <1>3 DEF Header
<1>6. \A t \in Times : Line(t) \in [time : Int, fields : [D -> Int]]
  BY <1>4 DEF Line, Times
<1> QED
  BY <1>2, <1>5, <1>6

\* They depend on the layout only.
LEMMA LinesKept ==
  ASSUME UNCHANGED layout
  PROVE  /\ Header' = Header
         /\ \A t : Line(t)' = Line(t)
BY DEF Header, Line, FieldAt, Readable, CursorAt, ColumnAt, Read, Positions, Special

LEMMA LineTimes ==
  ASSUME layout \in Layouts
  PROVE  /\ Header.time = -1
         /\ \A t \in Times : Line(t).time = t /\ Line(t) # Header /\ t \in Nat
<1>1. Header.time = -1 /\ \A t : Line(t).time = t
  BY DEF Header, Line
<1>2. \A t \in Times : t \in Nat /\ t # -1
  BY CsvAssumption DEF Times
<1> QED
  BY <1>1, <1>2

-----------------------------------------------------------------------------
(* Types, and where the goroutine is.                                      *)

\* What may come out of the pipe.
Printed == {Header} \cup {Line(t) : t \in Times}

\* The lines that have been written, copied to the client or not.
Sent == {received[i] : i \in DOMAIN received} \cup {line \in {pipe} : line # Nothing}

\* TypeOK without the fields of the lines.
Types ==
    /\ start \in Times /\ end \in Times
    /\ layout \in Layouts
    /\ table \subseteq Times
    /\ asked \subseteq table
    /\ chunks \in Seq(Chunk)
    /\ next \in 1 .. Len(chunks) + 1
    /\ rows \subseteq table
    /\ failed \subseteq DOMAIN chunks
    /\ writer \in {"handler", "header", "chunk", "row", "closed", "panicked"}
    /\ inserts \in 0 .. MaxInserts
    /\ reader \in {"copy", "complete", "gone"}
    /\ received \in Seq(Printed)
    /\ pipe \in Printed \cup {Nothing}

\* How far the export is: what the goroutine does, in which order.
Phase ==
    /\ writer = "handler" => chunks = <<>> /\ next = 1
    /\ writer \in {"handler", "panicked", "header"} => pipe = Nothing /\ received = <<>>
    /\ writer \notin {"handler", "panicked"} => /\ LayoutFits
                                                /\ start < end
                                                /\ chunks = chunkRange(start, end)
    /\ writer \in {"chunk", "row", "closed"} => pipe # Nothing \/ received # <<>>
    /\ writer = "header" => next = 1
    /\ writer = "row" => next \in DOMAIN chunks
    /\ writer = "closed" => next > Len(chunks) /\ pipe = Nothing
    /\ reader = "complete" => writer = "closed"

LEMMA PrintedKept ==
  ASSUME UNCHANGED layout
  PROVE  Printed' = Printed
BY LinesKept DEF Printed

LEMMA LayoutFitsKept ==
  ASSUME UNCHANGED layout
  PROVE  LayoutFits' = LayoutFits
BY DEF LayoutFits, ColumnAt, Positions, Special

LEMMA ChunkRangeKept ==
  ASSUME UNCHANGED request
  PROVE  chunkRange(start, end)' = chunkRange(start, end)
BY DEF chunkRange, TimePoints, request

LEMMA InTimes == Times \subseteq Nat
BY CsvAssumption DEF Times

LEMMA TypesNext == Types /\ Phase /\ [Next]_vars => Types' /\ Phase'
<1> SUFFICES ASSUME Types, Phase, [Next]_vars PROVE Types' /\ Phase'
  OBVIOUS
<1> USE CsvAssumption
<1>1. /\ UNCHANGED request /\ layout' = layout
      /\ Printed' = Printed /\ LayoutFits' = LayoutFits
      /\ chunkRange(start, end)' = chunkRange(start, end)
  <2>1. UNCHANGED request
    BY DEF Next, WriterStep, ReaderStep, Handle, WriteHeader, GetRanges, NextRow, RowsEnd, Close,
           Copy, CopyEnds, GetRangesFails, NextRowFails, Disconnect, Insert, vars
  <2> QED
    BY <2>1, PrintedKept, LayoutFitsKept, ChunkRangeKept DEF request
<1>2. Header \in Printed /\ Header # Nothing /\ \A t \in Times : Line(t) \in Printed /\ Line(t) # Nothing
  BY LinesAreLines DEF Types, Printed
<1>3. Len(chunks) \in Nat /\ DOMAIN chunks = 1 .. Len(chunks) /\ Len(<<>>) = 0
  BY DEF Types
<1>4. CASE UNCHANGED vars
  BY <1>1, <1>4 DEF vars, request, Types, Phase
<1>5. CASE Handle
  <2>1. CASE LayoutFits /\ start < end
    <3>1. chunks' = chunkRange(start, end) /\ chunks' \in Seq(Chunk)
      BY <1>5, <2>1, ChunksAreAdjacent, InTimes DEF Handle, Types
    <3>2. Len(chunks') \in Nat /\ failed = {} /\ next = 1
      BY <1>3, <1>5, <3>1 DEF Handle, Types, Phase
    <3> QED
      BY <1>1, <1>5, <2>1, <3>1, <3>2 DEF Handle, request, Types, Phase
  <2>2. CASE ~(LayoutFits /\ start < end)
    BY <1>1, <1>5, <2>2 DEF Handle, request, Types, Phase
  <2> QED
    BY <2>1, <2>2
<1>6. CASE WriteHeader
  BY <1>1, <1>2, <1>6 DEF WriteHeader, Running, PutLine, request, Types, Phase
<1>7. CASE GetRanges
  BY <1>1, <1>3, <1>7 DEF GetRanges, Running, request, Types, Phase
<1>8. CASE NextRow
  <2>1. PICK t \in rows : pipe' = Line(t) /\ rows' = rows \ {t}
    BY <1>8 DEF NextRow, PutLine
  <2>2. pipe' \in Printed /\ pipe' # Nothing
    BY <1>2, <2>1 DEF Types
  <2> QED
    BY <1>1, <1>8, <2>1, <2>2 DEF NextRow, Running, request, Types, Phase
<1>9. CASE RowsEnd \/ NextRowFails
  <2>1. /\ writer = "row" /\ writer' = "chunk" /\ next' = next + 1
        /\ rows' \subseteq rows /\ failed' \subseteq failed \cup {next}
        /\ UNCHANGED <<request, table, asked, chunks, pipe, received, reader, inserts>>
    BY <1>9 DEF RowsEnd, NextRowFails, NextChunk, Running
  <2>2. next + 1 \in 1 .. Len(chunks) + 1
    BY <1>3, <2>1 DEF Types, Phase
  <2> QED
    BY <1>1, <2>1, <2>2 DEF request, Types, Phase
<1>10. CASE GetRangesFails
  <2>1. /\ writer = "chunk" /\ writer' = "chunk" /\ next' = next + 1 /\ next <= Len(chunks)
        /\ failed' = failed \cup {next}
        /\ UNCHANGED <<request, table, asked, chunks, rows, pipe, received, reader, inserts>>
    BY <1>10 DEF GetRangesFails, NextChunk, Running
  <2>2. next + 1 \in 1 .. Len(chunks) + 1 /\ next \in DOMAIN chunks
    BY <1>3, <2>1 DEF Types
  <2> QED
    BY <1>1, <2>1, <2>2 DEF request, Types, Phase
<1>11. CASE Close
  BY <1>1, <1>11 DEF Close, Running, request, Types, Phase
<1>12. CASE Copy
  <2>1. /\ pipe # Nothing /\ pipe \in Printed /\ received' = Append(received, pipe) /\ pipe' = Nothing
        /\ UNCHANGED <<request, table, asked, chunks, next, rows, failed, writer, reader, inserts>>
    BY <1>12 DEF Copy, Types
  <2>2. received' \in Seq(Printed) /\ received' # <<>>
    BY <2>1 DEF Types
  <2> QED
    BY <1>1, <2>1, <2>2 DEF request, Types, Phase
<1>13. CASE CopyEnds \/ Disconnect
  BY <1>1, <1>13 DEF CopyEnds, Disconnect, request, Types, Phase
<1>14. CASE Insert
  BY <1>1, <1>14 DEF Insert, request, Types, Phase
<1> QED
  BY <1>4, <1>5, <1>6, <1>7, <1>8, <1>9, <1>10, <1>11, <1>12, <1>13, <1>14
     DEF Next, WriterStep, ReaderStep

LEMMA TypesCorrect == Spec => [](Types /\ Phase)
<1>1. Init => Types /\ Phase
  BY CsvAssumption DEF Init, Types, Phase
<1> QED
  BY <1>1, TypesNext, PTL DEF Spec

-----------------------------------------------------------------------------
(* What the client has received.                                           *)

\* What has been written stays written: a step adds a line at most, and Copy
\* only moves it.
LEMMA SentNext ==
  ASSUME Types, [Next]_vars
  PROVE  /\ WriteHeader => Sent' = Sent \cup {Header}
         /\ \A t \in rows : pipe = Nothing /\ pipe' = Line(t) /\ UNCHANGED received
                               => Sent' = Sent \cup {Line(t)}
         /\ UNCHANGED <<pipe, received>> => Sent' = Sent
         /\ Copy => Sent' = Sent
<1>1. WriteHeader => Sent' = Sent \cup {Header}
  BY LinesAreLines DEF Types, Sent, WriteHeader, Running, PutLine
<1>2. ASSUME NEW t \in rows, pipe = Nothing, pipe' = Line(t), UNCHANGED received
      PROVE  Sent' = Sent \cup {Line(t)}
  <2>1. Line(t) # Nothing
    BY LinesAreLines DEF Types
  <2> QED
    BY <1>2, <2>1 DEF Sent
<1>3. UNCHANGED <<pipe, received>> => Sent' = Sent
  BY DEF Sent
<1>4. ASSUME Copy PROVE Sent' = Sent
  <2>1. /\ pipe # Nothing /\ pipe' = Nothing /\ received' = Append(received, pipe)
        /\ received \in Seq(Printed) /\ pipe \in Printed
    BY <1>4 DEF Copy, Types
  <2>2. /\ DOMAIN received' = DOMAIN received \cup {Len(received) + 1}
        /\ received'[Len(received) + 1] = pipe
        /\ \A i \in DOMAIN received : received'[i] = received[i]
    BY <2>1
  <2> QED
    BY <2>1, <2>2 DEF Sent
<1> QED
  BY <1>1, <1>2, <1>3, <1>4

LEMMA SentIsPrinted ==
  ASSUME Types
  PROVE  Sent \subseteq Printed
BY DEF Types, Sent

\* The lines written so far are in order, and everything that is still to be
\* written comes after them: the rows that are left of a chunk, and the chunks
\* that are left.
Ordered ==
    /\ \A i \in DOMAIN received : received[i] = Header <=> i = 1
    /\ \A i, j \in DOMAIN received : i < j => received[i].time < received[j].time
    /\ pipe # Nothing => /\ pipe = Header <=> received = <<>>
                         /\ \A i \in DOMAIN received : received[i].time < pipe.time
    /\ writer = "chunk" /\ next <= Len(chunks) =>
           \A line \in Sent : line.time < chunks[next].begin
    /\ writer = "row" => \A line \in Sent : /\ line.time < chunks[next].end
                                            /\ \A r \in rows : line.time < r
    /\ writer = "row" => \A r \in rows : In(r, chunks[next])

LEMMA ChunkBounds ==
  ASSUME Types, NEW i \in DOMAIN chunks
  PROVE  chunks[i].begin \in Nat /\ chunks[i].end \in Nat
<1>1. chunks[i] \in Chunk
  BY DEF Types
<1> QED
  BY <1>1 DEF Chunk

\* The goroutine proceeds to a later chunk.
LEMMA LaterChunk ==
  ASSUME Types, Phase, writer \in {"chunk", "row"}, next + 1 <= Len(chunks)
  PROVE  /\ chunks[next].begin \in Nat /\ chunks[next].end \in Nat
         /\ chunks[next + 1].begin = chunks[next].end
<1>1. start \in Nat /\ end \in Nat /\ start < end /\ chunks = chunkRange(start, end)
  BY InTimes DEF Types, Phase
<1>2. next \in 1 .. Len(chunks) - 1 /\ next \in DOMAIN chunks
  BY DEF Types
<1>3. \A i \in 1 .. Len(chunks) - 1 : chunks[i].end = chunks[i + 1].begin
  BY <1>1, ChunksAreAdjacent
<1> QED
  BY <1>2, <1>3, ChunkBounds

\* A chunk is not empty.
LEMMA ChunkHasLength ==
  ASSUME Types, Phase, writer \in {"chunk", "row"}, next \in DOMAIN chunks
  PROVE  /\ chunks[next].begin \in Nat /\ chunks[next].end \in Nat
         /\ chunks[next].begin < chunks[next].end
         /\ start <= chunks[next].begin /\ chunks[next].end < end
<1>1. start \in Nat /\ end \in Nat /\ start < end /\ chunks = chunkRange(start, end)
  BY InTimes DEF Types, Phase
<1>2. chunks[next].begin \in Nat /\ chunks[next].end \in Nat
  BY ChunkBounds
<1>3. chunks[next].begin < chunks[next].end
  <2> DEFINE q == Steps(start, end)
  <2>1. q \in Nat
    BY <1>1, StepsBound
  <2>2. chunks = [i \in 1 .. q |-> [begin |-> start + (i - 1) * Step, end |-> start + i * Step]]
    BY <1>1, ChunksOfRange
  <2> HIDE DEF q
  <2>3. next \in 1 .. q
    BY <2>2
  <2>4. chunks[next].begin = start + (next - 1) * Step /\ chunks[next].end = start + next * Step
    BY <2>2, <2>3, Zenon
  <2> QED
    BY <1>1, <2>1, <2>3, <2>4, CsvAssumption
<1>4. next \in 1 .. Len(chunks)
  BY DEF Types
<1>5. start <= chunks[next].begin /\ chunks[next].end < end
  BY <1>1, <1>4, ChunksAreAdjacent
<1> QED
  BY <1>2, <1>3, <1>5

\* Steps that write and copy nothing, and leave the goroutine where it is.
LEMMA OrderedKept ==
  ASSUME Types, Ordered, layout' = layout, UNCHANGED <<chunks, next, writer, pipe, received, rows>>
  PROVE  Ordered'
BY LinesKept DEF Ordered, Sent, In

\* Times of lines are integers, the header's the least.
LEMMA SentTimes ==
  ASSUME Types
  PROVE  /\ \A line \in Printed : line.time \in Int /\ line.time >= -1
         /\ \A line \in Sent : line.time \in Int /\ line.time >= -1
<1>1. \A line \in Printed : line.time \in Int /\ line.time >= -1
  BY LineTimes DEF Types, Printed
<1> QED
  BY <1>1, SentIsPrinted

LEMMA OrderedNext == Types /\ Phase /\ Ordered /\ [Next]_vars => Ordered'
<1> SUFFICES ASSUME Types, Phase, Ordered, [Next]_vars PROVE Ordered'
  OBVIOUS
<1> USE CsvAssumption
<1>1. layout' = layout /\ Header' = Header /\ \A t : Line(t)' = Line(t)
  <2>1. layout' = layout
    BY DEF Next, WriterStep, ReaderStep, Handle, WriteHeader, GetRanges, NextRow, RowsEnd, Close,
           Copy, CopyEnds, GetRangesFails, NextRowFails, Disconnect, Insert, vars, request
  <2> QED
    BY <2>1, LinesKept
<1>2. /\ Types' /\ Phase'
      /\ \A t \in rows : t \in Times /\ t \in Nat
  BY TypesNext, InTimes DEF Types
<1>3. CASE UNCHANGED vars
  BY <1>1, <1>3, OrderedKept DEF vars
<1>4. CASE CopyEnds \/ Disconnect \/ Insert
  BY <1>1, <1>4, OrderedKept DEF CopyEnds, Disconnect, Insert
<1>5. CASE Handle
  BY <1>5 DEF Handle, Phase, Ordered
<1>6. CASE WriteHeader
  <2>1. /\ received = <<>> /\ received' = <<>> /\ pipe' = Header /\ writer' = "chunk"
        /\ next' = 1 /\ chunks' = chunks
    BY <1>6 DEF WriteHeader, Running, PutLine, Phase
  <2>2. \A line \in Sent' : line.time = -1
    BY <1>1, <2>1, LineTimes DEF Sent, Types
  <2>3. 1 <= Len(chunks) => chunks[1].begin \in Nat
    BY ChunkBounds DEF Types
  <2> QED
    BY <1>1, <2>1, <2>2, <2>3 DEF Ordered
<1>7. CASE GetRanges
  <2>1. /\ writer = "chunk" /\ writer' = "row" /\ next \in DOMAIN chunks
        /\ rows' = {t \in table : In(t, chunks[next])}
        /\ UNCHANGED <<chunks, next, pipe, received>> /\ pipe = Nothing /\ next <= Len(chunks)
    BY <1>7 DEF GetRanges, Running, Types
  <2>2. Sent' = Sent /\ \A line \in Sent : line.time \in Int /\ line.time < chunks[next].begin
    BY <2>1, SentNext, SentTimes DEF Ordered
  <2>3. \A r \in rows' : r \in Nat /\ chunks[next].begin <= r
    BY <2>1, InTimes DEF In, Types
  <2>4. chunks[next].begin \in Nat /\ chunks[next].end \in Nat /\ chunks[next].begin < chunks[next].end
    BY <2>1, ChunkHasLength
  <2>5. \A line \in Sent' : line.time < chunks'[next'].end /\ \A r \in rows' : line.time < r
    BY <2>1, <2>2, <2>3, <2>4
  <2>6. \A r \in rows' : In(r, chunks'[next'])
    BY <2>1
  <2> QED
    BY <1>1, <2>1, <2>5, <2>6 DEF Ordered, In
<1>8. CASE NextRow
  <2>1. PICK t \in rows : /\ \A r \in rows : t <= r
                          /\ pipe' = Line(t) /\ rows' = rows \ {t}
    BY <1>8 DEF NextRow, PutLine
  <2>2. /\ writer = "row" /\ pipe = Nothing /\ received # <<>>
        /\ UNCHANGED <<chunks, next, writer, received>>
    BY <1>8 DEF NextRow, Running, Phase
  <2>3. t \in Times /\ Line(t).time = t /\ Line(t) # Header /\ Line(t) # Nothing
    BY <1>2, LineTimes, LinesAreLines DEF Types
  <2>4. Sent' = Sent \cup {Line(t)}
    BY <2>1, <2>2, SentNext
  <2>5. \A i \in DOMAIN received : received[i].time < t
    BY <2>2, <2>1 DEF Ordered, Sent
  <2>6. In(t, chunks[next]) /\ t < chunks[next].end
    BY <2>1, <2>2 DEF Ordered, In
  <2>7. \A r \in rows' : t < r
    BY <1>2, <2>1
  <2> QED
    BY <1>1, <2>1, <2>2, <2>3, <2>4, <2>5, <2>6, <2>7 DEF Ordered, In
<1>9. CASE RowsEnd \/ NextRowFails
  <2>1. /\ writer = "row" /\ writer' = "chunk" /\ next' = next + 1
        /\ UNCHANGED <<chunks, pipe, received>>
    BY <1>9 DEF RowsEnd, NextRowFails, NextChunk, Running
  <2>2. Sent' = Sent
    BY <2>1, SentNext
  <2>3. next + 1 <= Len(chunks) => \A line \in Sent : line.time < chunks[next + 1].begin
    BY <2>1, LaterChunk DEF Ordered
  <2> QED
    BY <1>1, <2>1, <2>2, <2>3 DEF Ordered
<1>10. CASE GetRangesFails
  <2>1. /\ writer = "chunk" /\ writer' = "chunk" /\ next' = next + 1 /\ next <= Len(chunks)
        /\ UNCHANGED <<chunks, pipe, received>>
    BY <1>10 DEF GetRangesFails, NextChunk, Running
  <2>2. Sent' = Sent /\ \A line \in Sent : line.time \in Int /\ line.time < chunks[next].begin
    BY <2>1, SentNext, SentTimes DEF Ordered
  <2>3. /\ next \in DOMAIN chunks
        /\ chunks[next].begin \in Nat /\ chunks[next].end \in Nat
        /\ chunks[next].begin < chunks[next].end
    BY <2>1, ChunkHasLength DEF Types
  <2>4. next + 1 <= Len(chunks) => \A line \in Sent : line.time < chunks[next + 1].begin
    BY <2>1, <2>2, <2>3, LaterChunk
  <2> QED
    BY <1>1, <2>1, <2>2, <2>4 DEF Ordered
<1>11. CASE Close
  BY <1>1, <1>11 DEF Close, Running, Ordered
<1>12. CASE Copy
  <2>1. /\ pipe # Nothing /\ pipe \in Printed /\ received' = Append(received, pipe) /\ pipe' = Nothing
        /\ received \in Seq(Printed)
        /\ UNCHANGED <<chunks, next, rows, writer>>
    BY <1>12 DEF Copy, Types
  <2>2. Sent' = Sent
    BY <1>12, SentNext
  <2>3. /\ Len(received) \in Nat /\ DOMAIN received = 1 .. Len(received)
        /\ DOMAIN received' = 1 .. Len(received) + 1
        /\ received'[Len(received) + 1] = pipe
        /\ \A i \in 1 .. Len(received) : received'[i] = received[i]
    BY <2>1
  <2>4. received = <<>> <=> Len(received) = 0
    BY <2>1
  <2>5. \A i \in DOMAIN received' : received'[i] = Header <=> i = 1
    BY <2>1, <2>3, <2>4 DEF Ordered
  <2>6. \A i, j \in DOMAIN received' : i < j => received'[i].time < received'[j].time
    BY <2>1, <2>3 DEF Ordered
  <2> QED
    BY <1>1, <2>1, <2>2, <2>5, <2>6 DEF Ordered, In
<1> QED
  BY <1>3, <1>4, <1>5, <1>6, <1>7, <1>8, <1>9, <1>10, <1>11, <1>12 DEF Next, WriterStep, ReaderStep

LEMMA OrderedCorrect == Spec => []Ordered
<1>1. Init => Ordered
  BY DEF Init, Ordered
<1> QED
  BY <1>1, TypesCorrect, OrderedNext, PTL DEF Spec

\* The header comes first and the rows follow in the order of their times, none of
\* them twice, whatever is inserted or fails meanwhile.
THEOREM InOrderCorrect == Spec => []InOrder
<1>1. ASSUME Types, Ordered PROVE InOrder
  <2>1. \A i \in DOMAIN received : received[i] \in Printed
    BY <1>1 DEF Types
  <2>2. \A line \in Printed : line.time = -1 <=> line = Header
    BY <1>1, LineTimes DEF Types, Printed
  <2> QED
    BY <1>1, <2>1, <2>2 DEF Ordered, InOrder
<1> QED
  BY <1>1, TypesCorrect, OrderedCorrect, PTL

-----------------------------------------------------------------------------
(* What a complete response holds.                                         *)

\* Every line written is a row of the range; the goroutine has written each row of
\* the chunks behind it, or has given the chunk up, and of its own chunk each row
\* that is not left.  The rows in question are those that were there when the export
\* began: no row is ever taken out of the table.
Exported ==
    /\ \A line \in Sent : line # Header => /\ line.time \in table
                                           /\ start <= line.time /\ line.time < end
    /\ writer \in {"chunk", "row", "closed"} =>
           \A j \in 1 .. next - 1 : \A t \in asked :
               In(t, chunks[j]) => Line(t) \in Sent \/ j \in failed
    /\ writer = "row" =>
           \A t \in asked : In(t, chunks[next]) => t \in rows \/ Line(t) \in Sent

\* Steps that write nothing, and leave the goroutine where it is.
LEMMA ExportedKept ==
  ASSUME Exported, layout' = layout, table \subseteq table', Sent' = Sent,
         UNCHANGED <<start, end, asked, chunks, next, writer, rows, failed>>
  PROVE  Exported'
BY LinesKept DEF Exported, In

\* The goroutine leaves a chunk.
LEMMA ChunkLeft ==
  ASSUME Types, Exported, layout' = layout, Sent' = Sent,
         UNCHANGED <<start, end, table, asked, chunks>>,
         writer \in {"chunk", "row"}, writer' = "chunk", next' = next + 1,
         failed \subseteq failed',
         \A t \in asked : In(t, chunks[next]) => Line(t) \in Sent \/ next \in failed'
  PROVE  Exported'
<1>1. next \in Nat \ {0} /\ Header' = Header /\ \A t : Line(t)' = Line(t)
  BY LinesKept DEF Types
<1>2. ASSUME NEW j \in 1 .. next' - 1, NEW t \in asked, In(t, chunks[j])
      PROVE  Line(t) \in Sent \/ j \in failed'
  <2>1. CASE j = next
    BY <1>2, <2>1
  <2>2. CASE j # next
    <3>1. j \in 1 .. next - 1
      BY <1>1, <2>2
    <3> QED
      BY <1>2, <3>1 DEF Exported
  <2> QED
    BY <2>1, <2>2
<1> QED
  BY <1>1, <1>2 DEF Exported, In

LEMMA ExportedNext == Types /\ Phase /\ Ordered /\ Exported /\ [Next]_vars => Exported'
<1> SUFFICES ASSUME Types, Phase, Ordered, Exported, [Next]_vars PROVE Exported'
  OBVIOUS
<1> USE CsvAssumption
<1>1. /\ layout' = layout /\ start' = start /\ end' = end
      /\ Header' = Header /\ \A t : Line(t)' = Line(t)
  <2>1. layout' = layout /\ start' = start /\ end' = end
    BY DEF Next, WriterStep, ReaderStep, Handle, WriteHeader, GetRanges, NextRow, RowsEnd, Close,
           Copy, CopyEnds, GetRangesFails, NextRowFails, Disconnect, Insert, vars, request
  <2> QED
    BY <2>1, LinesKept
<1>2. CASE UNCHANGED vars
  BY <1>1, <1>2, ExportedKept, SentNext DEF vars
<1>3. CASE CopyEnds \/ Disconnect \/ Insert
  <2>1. /\ table \subseteq table'
        /\ UNCHANGED <<asked, chunks, next, writer, rows, failed, pipe, received>>
    BY <1>3 DEF CopyEnds, Disconnect, Insert
  <2> QED
    BY <1>1, <2>1, ExportedKept, SentNext
<1>4. CASE Copy
  BY <1>1, <1>4, ExportedKept, SentNext DEF Copy
<1>5. CASE Handle
  <2>1. writer' \in {"header", "panicked"} /\ table' = table /\ Sent' = Sent
    BY <1>5, SentNext DEF Handle
  <2> QED
    BY <1>1, <2>1 DEF Exported
<1>6. CASE WriteHeader
  <2>1. writer' = "chunk" /\ next' = 1 /\ table' = table /\ Sent' = Sent \cup {Header}
    BY <1>6, SentNext DEF WriteHeader, Running, Phase
  <2> QED
    BY <1>1, <2>1 DEF Exported
<1>7. CASE GetRanges
  <2>1. /\ writer = "chunk" /\ writer' = "row" /\ Sent' = Sent
        /\ rows' = {t \in table : In(t, chunks[next])}
        /\ UNCHANGED <<table, asked, chunks, next, failed>>
    BY <1>7, SentNext DEF GetRanges, Running
  <2>2. \A t \in asked : In(t, chunks[next]) => t \in rows'
    BY <2>1 DEF Types
  <2> QED
    BY <1>1, <2>1, <2>2 DEF Exported, In
<1>8. CASE NextRow
  <2>1. PICK t \in rows : pipe' = Line(t) /\ rows' = rows \ {t}
    BY <1>8 DEF NextRow, PutLine
  <2>2. /\ writer = "row" /\ pipe = Nothing
        /\ UNCHANGED <<table, asked, chunks, next, writer, received, failed>>
    BY <1>8 DEF NextRow, Running
  <2>3. Sent' = Sent \cup {Line(t)}
    BY <2>1, <2>2, SentNext
  <2>4. t \in table /\ Line(t).time = t /\ t \in Nat
    BY LineTimes DEF Types
  <2>5. start <= t /\ t < end
    <3>1. next \in DOMAIN chunks /\ In(t, chunks[next])
      BY <2>2 DEF Phase, Ordered
    <3>2. /\ start <= chunks[next].begin /\ chunks[next].end < end
          /\ chunks[next].begin \in Nat /\ chunks[next].end \in Nat
      BY <2>2, <3>1, ChunkHasLength
    <3>3. start \in Nat /\ end \in Nat
      BY InTimes DEF Types
    <3> QED
      BY <2>4, <3>1, <3>2, <3>3 DEF In
  <2>6. \A line \in Sent' : line # Header => /\ line.time \in table
                                             /\ start <= line.time /\ line.time < end
    BY <2>3, <2>4, <2>5 DEF Exported
  <2>7. \A r \in asked : In(r, chunks[next]) => r \in rows' \/ Line(r) \in Sent'
    BY <2>1, <2>2, <2>3 DEF Exported
  <2>8. \A j \in 1 .. next - 1 : \A r \in asked :
            In(r, chunks[j]) => Line(r) \in Sent' \/ j \in failed
    BY <2>2, <2>3 DEF Exported
  <2> QED
    BY <1>1, <2>2, <2>6, <2>7, <2>8 DEF Exported, In
<1>9. CASE RowsEnd
  <2>1. /\ writer = "row" /\ writer' = "chunk" /\ next' = next + 1 /\ rows = {} /\ Sent' = Sent
        /\ UNCHANGED <<table, asked, chunks, failed>>
    BY <1>9, SentNext DEF RowsEnd, NextChunk, Running
  <2>2. \A t \in asked : In(t, chunks[next]) => Line(t) \in Sent
    BY <2>1 DEF Exported
  <2> QED
    BY <1>1, <2>1, <2>2, ChunkLeft
<1>10. CASE NextRowFails \/ GetRangesFails
  <2>1. /\ writer \in {"chunk", "row"} /\ writer' = "chunk" /\ next' = next + 1 /\ Sent' = Sent
        /\ failed' = failed \cup {next}
        /\ UNCHANGED <<table, asked, chunks>>
    BY <1>10, SentNext DEF NextRowFails, GetRangesFails, NextChunk, Running
  <2> QED
    BY <1>1, <2>1, ChunkLeft
<1>11. CASE Close
  <2>1. /\ writer = "chunk" /\ writer' = "closed" /\ Sent' = Sent
        /\ UNCHANGED <<table, asked, chunks, next, failed>>
    BY <1>11, SentNext DEF Close, Running
  <2> QED
    BY <1>1, <2>1 DEF Exported, In
<1> QED
  BY <1>2, <1>3, <1>4, <1>5, <1>6, <1>7, <1>8, <1>9, <1>10, <1>11
     DEF Next, WriterStep, ReaderStep

LEMMA ExportedCorrect == Spec => []Exported
<1>1. Init => Exported
  BY DEF Init, Exported, Sent
<1> QED
  BY <1>1, TypesCorrect, OrderedCorrect, ExportedNext, PTL DEF Spec

\* A row that is written has a line with its time.
LEMMA ReceivedRow ==
  ASSUME Types, Ordered, pipe = Nothing, NEW t \in Times, Line(t) \in Sent
  PROVE  t \in Received
<1>1. PICK i \in DOMAIN received : received[i] = Line(t)
  BY DEF Sent
<1>2. i # 1 /\ received[i].time = t
  BY <1>1, LineTimes DEF Types, Ordered
<1>3. i \in 2 .. Len(received)
  BY <1>2 DEF Types
<1> QED
  BY <1>2, <1>3 DEF Received

\* A complete response lacks no row of the range that was there when the export
\* began, but for chunks that failed and for the rest after the last whole step;
\* and no line is from outside of the range.
THEOREM CompleteCorrect == Spec => []Complete
<1>1. ASSUME Types, Phase, Ordered, Exported PROVE Complete
  <2>1. ASSUME NEW i \in 2 .. Len(received)
        PROVE  LET t == received[i].time IN start <= t /\ t < end /\ t \in table
    <3>1. i \in DOMAIN received /\ i # 1
      BY <1>1 DEF Types
    <3>2. received[i] # Header /\ received[i] \in Sent
      BY <1>1, <3>1 DEF Ordered, Sent
    <3> QED
      BY <1>1, <3>2 DEF Exported
  <2>2. ASSUME reader = "complete", NEW t \in asked, start <= t, t < Covered
        PROVE  t \in Received \/ \E c \in failed : In(t, chunks[c])
    <3>1. /\ writer = "closed" /\ pipe = Nothing /\ next > Len(chunks)
          /\ start < end /\ chunks = chunkRange(start, end)
      BY <1>1, <2>2 DEF Phase
    <3>2. start \in Nat /\ end \in Nat /\ t \in Times /\ t \in Nat
      BY <1>1, InTimes DEF Types
    <3>3. PICK j \in DOMAIN chunks : In(t, chunks[j])
      BY <2>2, <3>1, <3>2, ChunksCover DEF Covered
    <3>4. j \in 1 .. next - 1
      BY <1>1, <3>1 DEF Types
    <3>5. Line(t) \in Sent \/ j \in failed
      BY <1>1, <3>1, <3>3, <3>4 DEF Exported
    <3> QED
      BY <1>1, <3>1, <3>2, <3>3, <3>5, ReceivedRow
  <2> QED
    BY <2>1, <2>2 DEF Complete, Received
<1> QED
  BY <1>1, TypesCorrect, OrderedCorrect, ExportedCorrect, PTL

-----------------------------------------------------------------------------
(* The fields that the client has received.                                *)

\* What has been received was printed for a layout that has all the columns.
LEMMA ReceivedPrinted ==
  ASSUME Types, Phase, NEW i \in DOMAIN received
  PROVE  /\ layout \in Layouts /\ LayoutFits
         /\ received[i] = Header \/ \E t \in Times : received[i] = Line(t)
<1>1. received # <<>> /\ received[i] \in Printed
  BY DEF Types
<1> QED
  BY <1>1 DEF Types, Phase, Printed

LEMMA FieldsOfLines ==
  /\ DOMAIN Header.fields = Positions \ Special
  /\ \A p \in Positions \ Special : Header.fields[p] = ColumnAt(p)
  /\ \A t : /\ DOMAIN Line(t).fields = Positions \ Special
            /\ \A p \in Positions \ Special : Line(t).fields[p] = FieldAt(p)
BY DEF Header, Line

\* The types of CsvExport: among others, no field is anything but a column of the
\* table or empty.
THEOREM TypeCorrect == Spec => []TypeOK
<1>1. ASSUME Types, Phase PROVE TypeOK
  <2>1. ASSUME NEW i \in DOMAIN received
        PROVE  /\ received[i].time \in Times \cup {-1}
               /\ \A p \in DOMAIN received[i].fields :
                    received[i].fields[p] \in DOMAIN layout.types \cup {0}
    <3>1. /\ layout \in Layouts /\ LayoutFits
          /\ received[i] = Header \/ \E t \in Times : received[i] = Line(t)
      BY <1>1, ReceivedPrinted
    <3>2. \A p \in Positions \ Special : /\ ColumnAt(p) \in DOMAIN layout.types
                                         /\ FieldAt(p) \in DOMAIN layout.types \cup {0}
      BY <3>1, FieldIsColumn
    <3> QED
      BY <3>1, <3>2, FieldsOfLines, LineTimes
  <2> QED
    BY <1>1, <2>1 DEF Types, TypeOK
<1> QED
  BY <1>1, TypesCorrect, PTL

\* Every field is below the name that the header gives it, as long as no symbol
\* precedes it.
THEOREM FieldsInPlaceCorrect == Spec => []FieldsInPlace
<1>1. ASSUME Types, Phase, Ordered PROVE FieldsInPlace
  <2> SUFFICES ASSUME NEW i \in 2 .. Len(received), NEW p \in DOMAIN received[i].fields,
                      \A k \in 1 .. received[1].fields[p] : layout.types[k] # "symbol"
               PROVE  received[i].fields[p] = received[1].fields[p]
    BY DEF FieldsInPlace
  <2>1. 1 \in DOMAIN received /\ i \in DOMAIN received /\ i # 1
    BY <1>1 DEF Types
  <2>2. received[1] = Header /\ received[i] # Header
    BY <1>1, <2>1 DEF Ordered
  <2>3. layout \in Layouts /\ LayoutFits /\ \E t \in Times : received[i] = Line(t)
    BY <1>1, <2>1, <2>2, ReceivedPrinted
  <2>4. p \in Positions \ Special /\ received[i].fields[p] = FieldAt(p)
        /\ received[1].fields[p] = ColumnAt(p)
    BY <2>2, <2>3, FieldsOfLines
  <2> QED
    BY <2>3, <2>4, FieldIsColumn
<1> QED
  BY <1>1, TypesCorrect, OrderedCorrect, PTL
=============================================================================
