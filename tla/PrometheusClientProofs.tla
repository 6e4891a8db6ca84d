------------------------ MODULE PrometheusClientProofs ------------------------
(***************************************************************************)
(* What TLAPS proves of PrometheusClient, for any requests, batches, tables *)
(* and failures.                                                           *)
(***************************************************************************)
EXTENDS PrometheusClient, TLAPS

-----------------------------------------------------------------------------
(* The loops of Write and Read.                                            *)

\* Write's loop only asks for a handle at a series that has a metric.
LEMMA AtSeriesType ==
  ASSUME NEW w \in Writers, NEW i \in Nat \ {0}
  PROVE  /\ AtSeries(w, i) \in {"ok", "failed", "getHandle"}
         /\ AtSeries(w, i) = "getHandle" =>
              i \in DOMAIN Batch[w] /\ Batch[w][i].metric \in Metrics
         /\ AtSeries(w, i) = "ok" => i > Len(Batch[w])
<1>1. Batch[w] \in Seq(Series)
  BY PrometheusAssumption
<1>2. CASE i > Len(Batch[w])
  BY <1>2 DEF AtSeries
<1>3. CASE ~(i > Len(Batch[w]))
  <2>1. i \in 1 .. Len(Batch[w]) /\ DOMAIN Batch[w] = 1 .. Len(Batch[w])
    BY <1>1, <1>3
  <2>2. Batch[w][i] \in Series
    BY <1>1, <2>1
  <2>3. Batch[w][i].metric \in Metrics \cup {NoMetric}
    BY <2>2 DEF Series
  <2> QED
    BY <1>3, <2>1, <2>3 DEF AtSeries
<1> QED
  BY <1>2, <1>3

\* Read's loop only executes queries that buildQuasarDbQuery can build.
LEMMA AtQueryType ==
  ASSUME NEW r \in Readers, NEW i \in Nat \ {0}
  PROVE  /\ AtQuery(r, i) \in {"ok", "failed", "panicked", "query"}
         /\ AtQuery(r, i) = "query" =>
              i \in DOMAIN Queries[r] /\ Queries[r][i] \in Metrics
<1>1. Queries[r] \in Seq(Metrics \cup {BadQuery, NoMatchers})
  BY PrometheusAssumption
<1>2. CASE i > Len(Queries[r])
  BY <1>2 DEF AtQuery
<1>3. CASE ~(i > Len(Queries[r]))
  <2>1. i \in 1 .. Len(Queries[r]) /\ DOMAIN Queries[r] = 1 .. Len(Queries[r])
    BY <1>1, <1>3
  <2>2. Queries[r][i] \in Metrics \cup {BadQuery, NoMatchers}
    BY <1>1, <2>1
  <2> QED
    BY <1>3, <2>1, <2>2 DEF AtQuery
<1> QED
  BY <1>2, <1>3

\* The columns that a time series needs are columns.
LEMMA WantedType ==
  ASSUME NEW series \in Series
  PROVE  Wanted(series) \subseteq Column
  BY DEF Wanted, Series, Blob, Value, Column

-----------------------------------------------------------------------------
(* Types.                                                                  *)

Labelled == {"new", "getHandle", "setup", "ensureHandle", "columns", "alter", "push",
             "query", "ok", "failed", "panicked"}
Outside == {"new", "ok", "failed", "panicked"}

\* Where the requests are in their loops.
LoopOK ==
    /\ pc \in [Requests -> Labelled]
    /\ idx \in [Requests -> Nat \ {0}]
    /\ \A w \in Writers :
         /\ pc[w] # "panicked"
         /\ pc[w] \notin Outside => idx[w] \in DOMAIN Batch[w] /\ Item(w).metric \in Metrics
    /\ \A r \in Readers :
         /\ pc[r] \in {"new", "getHandle", "setup", "query", "ok", "failed", "panicked"}
         /\ pc[r] = "query" =>
              idx[r] \in DOMAIN Queries[r] /\ Queries[r][idx[r]] \in Metrics
    /\ \A r \in Requests : pc[r] \in {"new", "failed", "panicked"} => idx[r] = 1
    /\ \A r \in Readers : pc[r] \in {"getHandle", "setup"} => idx[r] = 1

\* The rest of TypeOK.
DataOK ==
    /\ mutex \in Requests \cup {Free}
    /\ handle \in BOOLEAN
    /\ opened \in Nat
    /\ tables \in [Metrics -> SUBSET Column]
    /\ stored \subseteq {s \in Writers \X Nat : s[2] \in DOMAIN Batch[s[1]]}
    /\ seen \in [Writers -> SUBSET Column]
    /\ faults \in 0 .. MaxFaults

LEMMA TypeSplits == LoopOK /\ DataOK => TypeOK
  BY DEF TypeOK, LoopOK, DataOK, Labelled, Outside

LEMMA FailKeepsLoop ==
  ASSUME LoopOK, NEW r \in Requests, Fail(r)
  PROVE  LoopOK'
  BY DEF LoopOK, Fail, LeaveLoop, Goto, Item, Labelled, Outside, Requests

\* A writer that is at a series may go anywhere with it.
LEMMA WriterMoves ==
  ASSUME LoopOK, NEW w \in Writers, NEW label \in Labelled \ Outside, Goto(w, label),
         UNCHANGED idx, pc[w] \notin Outside
  PROVE  LoopOK'
<1>1. w \notin Readers
  BY PrometheusAssumption
<1> QED
  BY <1>1 DEF LoopOK, Goto, Item, Outside, Requests

LEMMA NextSeriesKeepsLoop ==
  ASSUME LoopOK, NEW w \in Writers, NextSeries(w)
  PROVE  LoopOK'
<1>1. idx[w] + 1 \in Nat \ {0} /\ w \in Requests /\ w \notin Readers
  BY PrometheusAssumption DEF LoopOK, Requests
<1>2. CASE AtSeries(w, idx[w] + 1) = "failed"
  BY <1>1, <1>2, FailKeepsLoop DEF NextSeries
<1>3. CASE AtSeries(w, idx[w] + 1) # "failed"
  <2> DEFINE label == AtSeries(w, idx[w] + 1)
  <2>1. /\ label \in {"ok", "getHandle"}
        /\ label = "getHandle" =>
             idx[w] + 1 \in DOMAIN Batch[w] /\ Batch[w][idx[w] + 1].metric \in Metrics
    BY <1>1, <1>3, AtSeriesType
  <2>2. pc' = [pc EXCEPT ![w] = label] /\ idx' = [idx EXCEPT ![w] = @ + 1]
    BY <1>3 DEF NextSeries, Goto
  <2> HIDE DEF label
  <2>3. pc' \in [Requests -> Labelled] /\ idx' \in [Requests -> Nat \ {0}]
    BY <1>1, <2>1, <2>2 DEF LoopOK, Labelled
  <2> QED
    BY <1>1, <2>1, <2>2, <2>3 DEF LoopOK, Item, Outside, Requests
<1> QED
  BY <1>2, <1>3

LEMMA EnsuredKeepsLoop ==
  ASSUME LoopOK, NEW w \in Writers, Ensured(w), pc[w] \notin Outside
  PROVE  LoopOK'
<1>1. CASE Item(w).samples
  BY <1>1, WriterMoves DEF Ensured, Labelled, Outside
<1>2. CASE ~Item(w).samples
  BY <1>2, NextSeriesKeepsLoop DEF Ensured
<1> QED
  BY <1>1, <1>2

LEMMA HaveHandleKeepsLoop ==
  ASSUME LoopOK, NEW r \in Requests, HaveHandle(r), UNCHANGED idx,
         pc[r] \in {"getHandle", "setup", "ensureHandle"}, r \in Readers => idx[r] = 1
  PROVE  LoopOK'
<1>1. CASE r \in Readers
  <2>1. 1 \in Nat \ {0} /\ r \notin Writers /\ r \in Requests
    BY <1>1, PrometheusAssumption DEF Requests
  <2>2. /\ AtQuery(r, 1) \in {"ok", "failed", "panicked", "query"}
        /\ AtQuery(r, 1) = "query" => 1 \in DOMAIN Queries[r] /\ Queries[r][1] \in Metrics
    BY <1>1, <2>1, AtQueryType
  <2>3. pc' = [pc EXCEPT ![r] = AtQuery(r, 1)]
    BY <1>1 DEF HaveHandle, Goto
  <2> QED
    BY <1>1, <2>1, <2>2, <2>3 DEF LoopOK, Item, Labelled, Requests
<1>2. CASE r \notin Readers
  BY <1>2, WriterMoves DEF HaveHandle, Labelled, Outside, Requests
<1> QED
  BY <1>1, <1>2

LEMMA SendKeepsLoop ==
  ASSUME LoopOK, NEW r \in Requests, Send(r)
  PROVE  LoopOK'
<1>1. idx[r] = 1 /\ UNCHANGED idx
  BY DEF LoopOK, Send
<1>2. CASE r \in Writers
  <2>1. r \notin Readers /\ 1 \in Nat \ {0}
    BY <1>2, PrometheusAssumption
  <2>2. /\ AtSeries(r, 1) \in {"ok", "failed", "getHandle"}
        /\ AtSeries(r, 1) = "getHandle" =>
             1 \in DOMAIN Batch[r] /\ Batch[r][1].metric \in Metrics
    BY <1>2, <2>1, AtSeriesType
  <2>3. pc' = [pc EXCEPT ![r] = AtSeries(r, 1)]
    BY <1>2 DEF Send, Goto
  <2> QED
    BY <1>1, <1>2, <2>1, <2>2, <2>3 DEF LoopOK, Item, Labelled, Outside, Requests
<1>3. CASE r \notin Writers
  BY <1>1, <1>3 DEF LoopOK, Send, Goto, Item, Labelled, Requests
<1> QED
  BY <1>2, <1>3

LEMMA QueryKeepsLoop ==
  ASSUME LoopOK, NEW r \in Readers, Query(r)
  PROVE  LoopOK'
<1>1. r \in Requests /\ r \notin Writers /\ idx[r] + 1 \in Nat \ {0}
  BY PrometheusAssumption DEF LoopOK, Requests
<1> DEFINE next == IF tables[Queries[r][idx[r]]] = NoTable THEN "failed"
                   ELSE AtQuery(r, idx[r] + 1)
<1>2. /\ next \in {"ok", "failed", "panicked", "query"}
      /\ next = "query" =>
           idx[r] + 1 \in DOMAIN Queries[r] /\ Queries[r][idx[r] + 1] \in Metrics
  BY <1>1, AtQueryType
<1>3. IF next \in {"failed", "panicked"} THEN LeaveLoop(r, next)
      ELSE Goto(r, next) /\ idx' = [idx EXCEPT ![r] = @ + 1]
  BY DEF Query
<1> HIDE DEF next
<1>4. CASE next \in {"failed", "panicked"}
  BY <1>1, <1>3, <1>4 DEF LoopOK, LeaveLoop, Goto, Item, Labelled, Requests
<1>5. CASE next \notin {"failed", "panicked"}
  BY <1>1, <1>2, <1>3, <1>5 DEF LoopOK, Goto, Item, Labelled, Requests
<1> QED
  BY <1>4, <1>5

\* No step takes a request out of its loop.
LEMMA NextKeepsLoop ==
  ASSUME LoopOK, [Next]_vars
  PROVE  LoopOK'
<1>1. ASSUME NEW r \in Requests, Step(r) \/ Failure(r) PROVE LoopOK'
  <2>1. CASE Send(r)
    BY <2>1, SendKeepsLoop
  <2>2. CASE GetHandle(r)
    BY <2>2, HaveHandleKeepsLoop DEF GetHandle, LoopOK
  <2>3. CASE GetHandleFirst(r)
    BY <2>3 DEF GetHandleFirst, LoopOK, Goto, Item, Labelled, Outside, Requests
  <2>4. CASE SetupHandle(r)
    BY <2>4, HaveHandleKeepsLoop DEF SetupHandle, LoopOK
  <2>5. ASSUME r \in Writers, WriterStep(r) PROVE LoopOK'
    <3>1. CASE Columns(r)
      BY <2>5, <3>1, EnsuredKeepsLoop, WriterMoves DEF Columns, Labelled, Outside
    <3>2. CASE Alter(r)
      BY <2>5, <3>2, EnsuredKeepsLoop DEF Alter, Outside
    <3>3. CASE AlterRefused(r)
      BY <3>3, FailKeepsLoop DEF AlterRefused
    <3>4. CASE Push(r)
      BY <2>5, <3>4, FailKeepsLoop, NextSeriesKeepsLoop DEF Push
    <3> QED
      BY <2>5, <3>1, <3>2, <3>3, <3>4 DEF WriterStep
  <2>6. CASE r \in Readers /\ Query(r)
    BY <2>6, QueryKeepsLoop
  <2>7. CASE Failure(r)
    BY <2>7, FailKeepsLoop
       DEF Failure, SetupHandleFails, ColumnsFails, AlterFails, PushFails, QueryFails
  <2> QED
    BY <1>1, <2>1, <2>2, <2>3, <2>4, <2>5, <2>6, <2>7 DEF Step
<1>2. CASE UNCHANGED vars
  BY <1>2 DEF LoopOK, Item, vars
<1> QED
  BY <1>1, <1>2 DEF Next

\* The columns of a series that a writer is at.
LEMMA ItemType ==
  ASSUME LoopOK, NEW w \in Writers, pc[w] \notin Outside
  PROVE  /\ idx[w] \in DOMAIN Batch[w] /\ Item(w).metric \in Metrics
         /\ Wanted(Item(w)) \subseteq Column
<1>1. idx[w] \in DOMAIN Batch[w] /\ Item(w).metric \in Metrics
  BY DEF LoopOK
<1>2. Batch[w] \in Seq(Series)
  BY PrometheusAssumption
<1>3. Item(w) \in Series
  BY <1>1, <1>2 DEF Item
<1> QED
  BY <1>1, <1>3, WantedType

\* What EnsureTable does to a table: it has all that it had, and what is wanted
\* if it has what EnsureTable saw.
LEMMA AlteredTableType ==
  ASSUME LoopOK, DataOK, NEW w \in Writers, pc[w] = "alter", CanAlter(w)
  PROVE  /\ AlteredTable(w) \subseteq Column
         /\ tables[Item(w).metric] \subseteq AlteredTable(w)
         /\ seen[w] \subseteq tables[Item(w).metric] => Wanted(Item(w)) \subseteq AlteredTable(w)
<1>1. Item(w).metric \in Metrics /\ Wanted(Item(w)) \subseteq Column
  BY ItemType DEF Outside
<1>2. tables[Item(w).metric] \subseteq Column
  BY <1>1 DEF DataOK
<1>3. CASE seen[w] = NoTable
  BY <1>1, <1>2, <1>3 DEF CanAlter, CanCreate, AlteredTable, NoTable
<1>4. CASE seen[w] # NoTable
  BY <1>1, <1>2, <1>4 DEF AlteredTable, Missing
<1> QED
  BY <1>3, <1>4

LEMMA NextKeepsData ==
  ASSUME LoopOK, DataOK, [Next]_vars
  PROVE  DataOK'
<1> USE PrometheusAssumption
<1>1. ASSUME NEW r \in Requests, Step(r) \/ Failure(r) PROVE DataOK'
  <2>1. CASE Send(r) \/ GetHandle(r) \/ GetHandleFirst(r)
    <3>1. UNCHANGED <<handle, opened, tables, stored, seen, faults>>
      BY <2>1 DEF Send, GetHandle, GetHandleFirst
    <3>2. mutex' \in Requests \cup {Free}
      BY <2>1 DEF Send, GetHandle, GetHandleFirst, DataOK
    <3> QED
      BY <3>1, <3>2 DEF DataOK
  <2>2. CASE SetupHandle(r)
    <3>1. handle' \in BOOLEAN /\ mutex' = Free
      BY <2>2 DEF SetupHandle
    <3>2. opened' \in Nat
      BY <2>2 DEF SetupHandle, DataOK
    <3> QED
      BY <2>2, <3>1, <3>2 DEF SetupHandle, DataOK
  <2>3. ASSUME r \in Writers, WriterStep(r) \/ ColumnsFails(r) \/ AlterFails(r) \/ PushFails(r)
        PROVE  DataOK'
    <3>1. pc[r] \notin Outside
      BY <2>3 DEF WriterStep, Columns, Alter, AlterRefused, Push, ColumnsFails, AlterFails,
                  PushFails, Outside
    <3>2. /\ idx[r] \in DOMAIN Batch[r] /\ Item(r).metric \in Metrics
          /\ tables[Item(r).metric] \subseteq Column
      BY <2>3, <3>1, ItemType DEF DataOK
    <3>3. seen' \in [Writers -> SUBSET Column]
      BY <2>3, <3>2 DEF WriterStep, Columns, Alter, AlterRefused, Push, ColumnsFails, AlterFails,
                  PushFails, Ensured, Forget, NoTable, DataOK
    <3>4. tables' \in [Metrics -> SUBSET Column]
      <4>1. UNCHANGED tables \/ /\ pc[r] = "alter" /\ CanAlter(r)
                                /\ tables' = [tables EXCEPT ![Item(r).metric] = AlteredTable(r)]
        BY <2>3 DEF WriterStep, Columns, Alter, AlterRefused, Push, ColumnsFails, AlterFails,
                    PushFails
      <4>2. CASE UNCHANGED tables
        BY <4>2 DEF DataOK
      <4>3. ASSUME pc[r] = "alter", CanAlter(r) PROVE AlteredTable(r) \in SUBSET Column
        BY <2>3, <4>3, AlteredTableType
      <4> QED
        BY <3>2, <4>1, <4>2, <4>3 DEF DataOK
    <3>5. stored' \subseteq {s \in Writers \X Nat : s[2] \in DOMAIN Batch[s[1]]}
      <4>1. stored' \subseteq stored \cup {<<r, idx[r]>>}
        BY <2>3 DEF WriterStep, Columns, Alter, AlterRefused, Push, ColumnsFails, AlterFails,
                    PushFails
      <4>2. idx[r] \in Nat
        BY DEF LoopOK
      <4> QED
        BY <2>3, <3>2, <4>1, <4>2 DEF DataOK
    <3>6. faults' \in 0 .. MaxFaults
      BY <2>3 DEF WriterStep, Columns, Alter, AlterRefused, Push, ColumnsFails, AlterFails,
                  PushFails, Fault, DataOK
    <3>7. UNCHANGED <<mutex, handle, opened>>
      BY <2>3 DEF WriterStep, Columns, Alter, AlterRefused, Push, ColumnsFails, AlterFails,
                  PushFails
    <3> QED
      BY <3>3, <3>4, <3>5, <3>6, <3>7 DEF DataOK
  <2>4. CASE Query(r) \/ QueryFails(r) \/ SetupHandleFails(r)
    BY <2>4 DEF DataOK, Query, QueryFails, SetupHandleFails, Fault
  <2> QED
    BY <1>1, <2>1, <2>2, <2>3, <2>4 DEF Step, Failure
<1>2. CASE UNCHANGED vars
  BY <1>2 DEF DataOK, vars
<1> QED
  BY <1>1, <1>2 DEF Next

LEMMA IndType == Spec => [](LoopOK /\ DataOK)
<1>1. Init => LoopOK /\ DataOK
  <2> SUFFICES ASSUME Init PROVE LoopOK /\ DataOK
    OBVIOUS
  <2>1. LoopOK
    BY DEF Init, LoopOK, Labelled, Outside, Requests
  <2>2. tables \in [Metrics -> SUBSET Column] /\ seen \in [Writers -> SUBSET Column]
    BY PrometheusAssumption DEF Init, NoTable
  <2>3. 0 \in 0 .. MaxFaults
    BY PrometheusAssumption
  <2> QED
    BY <2>1, <2>2, <2>3 DEF Init, DataOK
<1>2. LoopOK /\ DataOK /\ [Next]_vars => (LoopOK /\ DataOK)'
  BY NextKeepsLoop, NextKeepsData
<1> QED
  BY <1>1, <1>2, PTL DEF Spec

\* Types, and a writer that has passed GetHandle is at a series with a metric.
THEOREM TypeCorrect == Spec => []TypeOK
  BY IndType, TypeSplits, PTL

-----------------------------------------------------------------------------
(* One handle.                                                             *)

\* Whoever sets up a handle holds the mutex, and there is no handle yet.
IndHandle ==
    /\ OneHandle
    /\ \A r \in Requests : pc[r] = "setup" => mutex = r /\ ~handle

\* A step moves its request, and only GetHandleFirst moves it to SetupHandle.
LEMMA SetupIsEntered ==
  ASSUME LoopOK, NEW r \in Requests, Step(r) \/ Failure(r), ~GetHandleFirst(r)
  PROVE  \E label : label # "setup" /\ pc' = [pc EXCEPT ![r] = label]
<1>1. ASSUME NEW w \in Writers, NextSeries(w)
      PROVE  \E label : label # "setup" /\ pc' = [pc EXCEPT ![w] = label]
  <2>1. idx[w] + 1 \in Nat \ {0}
    BY DEF LoopOK, Requests
  <2>2. AtSeries(w, idx[w] + 1) # "setup"
    BY <2>1, AtSeriesType
  <2> QED
    BY <1>1, <2>2 DEF NextSeries, Fail, LeaveLoop, Goto
<1>2. ASSUME NEW w \in Writers, Ensured(w)
      PROVE  \E label : label # "setup" /\ pc' = [pc EXCEPT ![w] = label]
  BY <1>1, <1>2 DEF Ensured, Goto
<1>3. ASSUME HaveHandle(r)
      PROVE  \E label : label # "setup" /\ pc' = [pc EXCEPT ![r] = label]
  <2>1. r \in Readers => AtQuery(r, 1) # "setup"
    BY AtQueryType
  <2>2. CASE r \in Readers
    BY <1>3, <2>1, <2>2 DEF HaveHandle, Goto
  <2>3. CASE r \notin Readers /\ pc[r] = "ensureHandle"
    BY <1>3, <2>3 DEF HaveHandle, Goto
  <2>4. CASE r \notin Readers /\ pc[r] # "ensureHandle"
    BY <1>3, <2>4 DEF HaveHandle, Goto
  <2> QED
    BY <2>2, <2>3, <2>4
<1>4. CASE Send(r)
  <2>1. r \in Writers => AtSeries(r, 1) # "setup"
    BY AtSeriesType
  <2> QED
    BY <1>4, <2>1 DEF Send, Goto
<1>5. CASE GetHandle(r) \/ SetupHandle(r)
  BY <1>3, <1>5 DEF GetHandle, SetupHandle
<1>6. CASE r \in Writers /\ WriterStep(r)
  BY <1>1, <1>2, <1>6 DEF WriterStep, Columns, Alter, AlterRefused, Push, Fail, LeaveLoop, Goto
<1>7. CASE r \in Readers /\ Query(r)
  <2>1. idx[r] + 1 \in Nat \ {0}
    BY DEF LoopOK
  <2>2. AtQuery(r, idx[r] + 1) # "setup"
    BY <1>7, <2>1, AtQueryType
  <2> QED
    BY <1>7, <2>2 DEF Query, Fail, LeaveLoop, Goto
<1>8. CASE Failure(r)
  BY <1>8 DEF Failure, SetupHandleFails, ColumnsFails, AlterFails, PushFails, QueryFails,
              Fail, LeaveLoop, Goto
<1> QED
  BY <1>4, <1>5, <1>6, <1>7, <1>8 DEF Step

LEMMA IndHandleCorrect == Spec => []IndHandle
<1>1. Init => IndHandle
  BY DEF Init, IndHandle, OneHandle
<1>2. LoopOK /\ DataOK /\ IndHandle /\ [Next]_vars => IndHandle'
  <2> SUFFICES ASSUME LoopOK, DataOK, IndHandle, [Next]_vars PROVE IndHandle'
    OBVIOUS
  <2>1. ASSUME NEW r \in Requests, GetHandleFirst(r) PROVE IndHandle'
    BY <2>1, PrometheusAssumption DEF GetHandleFirst, IndHandle, OneHandle, LoopOK, Goto
  <2>2. ASSUME NEW r \in Requests, Step(r) \/ Failure(r), ~GetHandleFirst(r) PROVE IndHandle'
    <3>1. \A q \in Requests : pc'[q] = "setup" => pc[q] = "setup" /\ q # r
      BY <2>2, SetupIsEntered DEF LoopOK
    <3>2. CASE SetupHandle(r)
      BY <3>1, <3>2 DEF SetupHandle, IndHandle, OneHandle
    <3>3. CASE ~SetupHandle(r)
      <4>1. UNCHANGED <<mutex, handle, opened>>
        BY <2>2, <3>3 DEF Step, Failure, Send, GetHandle, WriterStep, Columns, Alter,
           AlterRefused, Push, Query, SetupHandleFails, ColumnsFails, AlterFails, PushFails,
           QueryFails
      <4> QED
        BY <3>1, <4>1 DEF IndHandle, OneHandle
    <3> QED
      BY <3>2, <3>3
  <2>3. CASE UNCHANGED vars
    BY <2>3 DEF IndHandle, OneHandle, vars
  <2> QED
    BY <2>1, <2>2, <2>3 DEF Next
<1> QED
  BY <1>1, <1>2, IndType, PTL DEF Spec

\* All the requests together open one handle, although a failure leaves the mutex
\* locked.
THEOREM OneHandleCorrect == Spec => []OneHandle
<1>1. IndHandle => OneHandle
  BY DEF IndHandle
<1> QED
  BY <1>1, IndHandleCorrect, PTL

\* One handle that cannot be set up puts an end to the remote storage: what the
\* mutex protects is never reached again.
THEOREM LeakedForGoodCorrect == Spec => LeakedForGood
<1>1. LoopOK /\ DataOK /\ IndHandle /\ [Next]_vars =>
        [ Leaked => /\ mutex' = mutex
                    /\ pc'[mutex] # "setup"
                    /\ handle' = handle
                    /\ \A r \in Requests :
                         pc[r] \in {"getHandle", "ensureHandle"} => pc'[r] = pc[r] ]_vars
  <2> SUFFICES ASSUME LoopOK, DataOK, IndHandle, Leaked, NEW r \in Requests,
                      Step(r) \/ Failure(r)
               PROVE  /\ mutex' = mutex
                      /\ pc'[mutex] # "setup"
                      /\ handle' = handle
                      /\ pc[r] \notin {"getHandle", "ensureHandle"}
                      /\ \A q \in Requests \ {r} : pc'[q] = pc[q]
    BY DEF Next
  <2>1. mutex # Free /\ \A q \in Requests : pc[q] # "setup"
    BY DEF Leaked, IndHandle
  <2>2. ~GetHandle(r) /\ ~GetHandleFirst(r) /\ ~SetupHandle(r)
    BY <2>1 DEF GetHandle, GetHandleFirst, SetupHandle
  <2>3. UNCHANGED <<mutex, handle>> /\ pc[r] \notin {"getHandle", "ensureHandle"}
    BY <2>1, <2>2 DEF Step, Failure, Send, WriterStep, Columns, Alter, AlterRefused, Push, Query,
       SetupHandleFails, ColumnsFails, AlterFails, PushFails, QueryFails
  <2>4. \E label : label # "setup" /\ pc' = [pc EXCEPT ![r] = label]
    BY <2>2, SetupIsEntered
  <2>5. /\ pc'[r] # "setup" /\ \A q \in Requests \ {r} : pc'[q] = pc[q]
    BY <2>4 DEF LoopOK
  <2>6. mutex \in Requests
    BY <2>1 DEF DataOK
  <2> QED
    BY <2>1, <2>3, <2>5, <2>6
<1> QED
  BY <1>1, IndType, IndHandleCorrect, PTL DEF Spec, LeakedForGood

-----------------------------------------------------------------------------
(* Writes.                                                                 *)

\* Tables only gain columns.
LEMMA TablesGrow ==
  ASSUME LoopOK, DataOK, [Next]_vars, NEW m \in Metrics
  PROVE  tables[m] \subseteq tables'[m]
<1>1. \/ UNCHANGED tables
      \/ \E w \in Writers : /\ pc[w] = "alter" /\ CanAlter(w)
                            /\ tables' = [tables EXCEPT ![Item(w).metric] = AlteredTable(w)]
  BY DEF Next, Step, Failure, Send, GetHandle, GetHandleFirst, SetupHandle, WriterStep, Columns,
     Alter, AlterRefused, Push, Query, SetupHandleFails, ColumnsFails, AlterFails, PushFails,
     QueryFails, vars
<1> QED
  BY <1>1, AlteredTableType DEF DataOK

\* What a writer has seen of a table is still there when it alters the table.
IndFits ==
    \A w \in Writers :
        /\ pc[w] = "push" => Fits(w)
        /\ pc[w] = "alter" => seen[w] \subseteq tables[Item(w).metric]

\* Another request's step leaves a writer where it is.
LEMMA OthersStay ==
  ASSUME LoopOK, DataOK, NEW r \in Requests, Step(r) \/ Failure(r),
         NEW w \in Writers, w # r
  PROVE  pc'[w] = pc[w] /\ idx'[w] = idx[w] /\ seen'[w] = seen[w]
<1> DEFINE Stays == pc'[w] = pc[w] /\ idx'[w] = idx[w]
<1>1. ASSUME NEW label, Goto(r, label), UNCHANGED idx PROVE Stays
  BY <1>1 DEF Goto, LoopOK
<1>2. ASSUME NEW label, NEW i, Goto(r, label), idx' = [idx EXCEPT ![r] = i] PROVE Stays
  BY <1>2 DEF Goto, LoopOK
<1>3. Fail(r) => Stays
  BY <1>2 DEF Fail, LeaveLoop
<1>4. NextSeries(r) => Stays
  BY <1>2, <1>3 DEF NextSeries
<1>5. Ensured(r) => Stays
  BY <1>1, <1>4 DEF Ensured
<1>6. HaveHandle(r) /\ UNCHANGED idx => Stays
  BY <1>1 DEF HaveHandle
<1>7. CASE Send(r) \/ GetHandle(r) \/ GetHandleFirst(r) \/ SetupHandle(r)
  <2>1. Stays
    BY <1>1, <1>6, <1>7 DEF Send, GetHandle, GetHandleFirst, SetupHandle
  <2>2. UNCHANGED seen
    BY <1>7 DEF Send, GetHandle, GetHandleFirst, SetupHandle
  <2> QED
    BY <2>1, <2>2
<1>8. CASE r \in Writers /\ WriterStep(r)
  <2>1. Stays
    BY <1>1, <1>3, <1>4, <1>5, <1>8 DEF WriterStep, Columns, Alter, AlterRefused, Push
  <2>2. seen'[w] = seen[w]
    BY <1>8 DEF WriterStep, Columns, Alter, AlterRefused, Push, Ensured, Forget, DataOK
  <2> QED
    BY <2>1, <2>2
<1>9. CASE r \in Readers /\ Query(r)
  <2>1. Stays
    BY <1>2, <1>3, <1>9 DEF Query, LeaveLoop
  <2>2. UNCHANGED seen
    BY <1>9 DEF Query
  <2> QED
    BY <2>1, <2>2
<1>10. CASE Failure(r)
  <2>1. Stays
    BY <1>3, <1>10
       DEF Failure, SetupHandleFails, ColumnsFails, AlterFails, PushFails, QueryFails
  <2>2. seen'[w] = seen[w]
    BY <1>10 DEF Failure, SetupHandleFails, ColumnsFails, AlterFails, PushFails, QueryFails,
       Forget, DataOK
  <2> QED
    BY <2>1, <2>2
<1> QED
  BY <1>7, <1>8, <1>9, <1>10 DEF Step

LEMMA IndFitsCorrect == Spec => []IndFits
<1>1. Init => IndFits
  BY DEF Init, IndFits, Requests
<1>2. LoopOK /\ DataOK /\ IndFits /\ [Next]_vars => IndFits'
  <2> SUFFICES ASSUME LoopOK, DataOK, IndFits, [Next]_vars, NEW w \in Writers
               PROVE  (/\ pc[w] = "push" => Fits(w)
                       /\ pc[w] = "alter" => seen[w] \subseteq tables[Item(w).metric])'
    BY DEF IndFits
  <2>1. \A m \in Metrics : tables[m] \subseteq tables'[m]
    BY TablesGrow
  <2>2. CASE pc'[w] = pc[w] /\ idx'[w] = idx[w] /\ seen'[w] = seen[w]
    <3>1. CASE pc[w] \in {"push", "alter"}
      BY <2>1, <2>2, <3>1, ItemType DEF IndFits, Fits, Item, Outside
    <3>2. CASE pc[w] \notin {"push", "alter"}
      BY <2>2, <3>2
    <3> QED
      BY <3>1, <3>2
  <2>3. ASSUME Step(w) \/ Failure(w)
        PROVE  (/\ pc[w] = "push" => Fits(w)
                /\ pc[w] = "alter" => seen[w] \subseteq tables[Item(w).metric])'
    <3>1. ASSUME NextSeries(w) PROVE pc'[w] \notin {"push", "alter"}
      <4>1. idx[w] + 1 \in Nat \ {0}
        BY DEF LoopOK, Requests
      <4>2. AtSeries(w, idx[w] + 1) \notin {"push", "alter"}
        BY <4>1, AtSeriesType
      <4> QED
        BY <3>1, <4>2 DEF NextSeries, Fail, LeaveLoop, Goto, LoopOK, Requests
    <3>2. ASSUME Ensured(w) PROVE pc'[w] # "alter" /\ (pc'[w] = "push" => UNCHANGED idx)
      BY <3>1, <3>2 DEF Ensured, Goto, LoopOK, Requests
    <3>3. CASE Columns(w)
      <4>1. CASE Fits(w) /\ Ensured(w)
        BY <3>2, <3>3, <4>1 DEF Columns, Fits, Item
      <4>2. CASE ~Fits(w)
        BY <3>3, <4>2 DEF Columns, Goto, LoopOK, DataOK, Requests, Item
      <4> QED
        BY <3>3, <4>1, <4>2 DEF Columns
    <3>4. CASE Alter(w)
      <4>1. Wanted(Item(w)) \subseteq AlteredTable(w) /\ Item(w).metric \in Metrics
        BY <3>4, AlteredTableType, ItemType DEF Alter, IndFits, Outside
      <4>2. tables' = [tables EXCEPT ![Item(w).metric] = AlteredTable(w)] /\ Ensured(w)
        BY <3>4 DEF Alter
      <4> QED
        BY <3>2, <4>1, <4>2 DEF Fits, Item, DataOK
    <3>5. CASE ~Columns(w) /\ ~Alter(w)
      <4>1. pc'[w] \notin {"push", "alter"}
        <5>1. CASE Send(w)
          BY <5>1, AtSeriesType DEF Send, Goto, LoopOK, Requests
        <5>2. CASE GetHandle(w) \/ SetupHandle(w)
          BY <5>2, PrometheusAssumption DEF GetHandle, SetupHandle, HaveHandle, Goto, LoopOK, Requests
        <5>3. CASE GetHandleFirst(w) \/ AlterRefused(w) \/ Failure(w)
          BY <5>3 DEF GetHandleFirst, AlterRefused, Failure, SetupHandleFails, ColumnsFails,
             AlterFails, PushFails, QueryFails, Fail, LeaveLoop, Goto, LoopOK, Requests
        <5>4. CASE Push(w)
          BY <3>1, <5>4 DEF Push, Fail, LeaveLoop, Goto, LoopOK, Requests
        <5>5. w \notin Readers
          BY PrometheusAssumption
        <5> QED
          BY <2>3, <3>5, <5>1, <5>2, <5>3, <5>4, <5>5 DEF Step, WriterStep
      <4> QED
        BY <4>1
    <3> QED
      BY <3>3, <3>4, <3>5
  <2> QED
    BY <2>2, <2>3, OthersStay DEF Next, vars
<1> QED
  BY <1>1, <1>2, IndType, PTL DEF Spec

\* Samples are only pushed into a table that has all of their columns.
THEOREM PushFitsCorrect == Spec => []PushFits
<1>1. IndFits => PushFits
  BY DEF IndFits, PushFits
<1> QED
  BY <1>1, IndFitsCorrect, PTL

-----------------------------------------------------------------------------
(* Tables.                                                                 *)

\* A table is changed by a writer whose change the cluster accepts, and then it
\* only gains columns that EnsureTable found to be missing.
LEMMA TablesChange ==
  ASSUME [Next]_vars, UNCHANGED tables => FALSE
  PROVE  \E w \in Writers : /\ pc[w] = "alter" /\ CanAlter(w)
                            /\ tables' = [tables EXCEPT ![Item(w).metric] = AlteredTable(w)]
BY DEF Next, Step, Failure, Send, GetHandle, GetHandleFirst, SetupHandle, WriterStep, Columns,
     Alter, AlterRefused, Push, Query, SetupHandleFails, ColumnsFails, AlterFails, PushFails,
     QueryFails, vars

LEMMA AlteredTableGains ==
  ASSUME LoopOK, DataOK, IndFits, NEW w \in Writers, pc[w] = "alter", CanAlter(w),
         NEW column \in AlteredTable(w) \ tables[Item(w).metric]
  PROVE  column \in Wanted(Item(w)) /\ (column.name = "value" => column = Value)
<1> DEFINE table == tables[Item(w).metric]
<1>1. Value \in Wanted(Item(w)) /\ Value.name = "value"
  BY DEF Wanted, Value
<1>2. column \in Missing(w) /\ Unambiguous(Missing(w))
  BY DEF AlteredTable, CanAlter, CanCreate, CanInsert, Missing, NoTable
<1>3. column \in Wanted(Item(w)) /\ seen[w] \subseteq table
  BY <1>2 DEF Missing, IndFits
<1>4. ASSUME column.name = "value" PROVE column = Value
  <2>1. CASE Value \in Missing(w)
    BY <1>1, <1>2, <1>4, <2>1 DEF Unambiguous
  <2>2. CASE Value \notin Missing(w)
    <3>1. Value \in seen[w] /\ Value \in table
      BY <1>1, <1>3, <2>2 DEF Missing
    <3>2. Names(Missing(w)) \cap Names(table) = {}
      BY <3>1 DEF CanAlter, CanInsert, NoTable
    <3> QED
      BY <1>1, <1>2, <1>4, <3>1, <3>2 DEF Names
  <2> QED
    BY <2>1, <2>2
<1> QED
  BY <1>3, <1>4

\* Creating and extending tables, in whatever order and however often, makes
\* nothing but what the batches need, and no second column for the values.
THEOREM TablesAreAskedCorrect == Spec => []TablesAreAsked
<1>1. Init => TablesAreAsked
  BY DEF Init, TablesAreAsked
<1>2. LoopOK /\ DataOK /\ IndFits /\ TablesAreAsked /\ [Next]_vars => TablesAreAsked'
  <2> SUFFICES ASSUME LoopOK, DataOK, IndFits, TablesAreAsked, [Next]_vars
               PROVE  TablesAreAsked'
    OBVIOUS
  <2>1. CASE UNCHANGED tables
    BY <2>1 DEF TablesAreAsked
  <2>2. CASE ~UNCHANGED tables
    <3>1. PICK w \in Writers :
              /\ pc[w] = "alter" /\ CanAlter(w)
              /\ tables' = [tables EXCEPT ![Item(w).metric] = AlteredTable(w)]
      BY <2>2, TablesChange
    <3>2. idx[w] \in DOMAIN Batch[w] /\ Item(w).metric \in Metrics
      BY <3>1, ItemType DEF Outside
    <3>3. /\ tables'[Item(w).metric] = AlteredTable(w)
          /\ \A m \in Metrics \ {Item(w).metric} : tables'[m] = tables[m]
      BY <3>1, <3>2 DEF DataOK
    <3>4. \A column \in AlteredTable(w) \ tables[Item(w).metric] :
            column \in Wanted(Item(w)) /\ (column.name = "value" => column = Value)
      BY <3>1, AlteredTableGains
    <3> QED
      BY <3>2, <3>3, <3>4 DEF TablesAreAsked, Item
  <2> QED
    BY <2>1, <2>2
<1> QED
  BY <1>1, <1>2, IndType, IndFitsCorrect, PTL DEF Spec

\* The columns of a series that no label of its own contradicts have names of
\* their own.
LEMMA StorableNames ==
  ASSUME NEW w \in Writers, Storable(w), NEW i \in DOMAIN Batch[w]
  PROVE  /\ Batch[w][i].metric \in Metrics
         /\ Unambiguous(Wanted(Batch[w][i]))
         /\ \A column \in Existing[Batch[w][i].metric] :
              column.name \in Names(Wanted(Batch[w][i])) => column \in Wanted(Batch[w][i])
<1> DEFINE s == Batch[w][i]
<1>1. /\ s.metric \in Metrics
      /\ "value" \notin s.labels
      /\ \A c \in Existing[s.metric] : c.name \in s.labels \cup {"value"} => c \in Wanted(s)
  BY DEF Storable
<1> HIDE DEF s
<1>2. \A c \in Wanted(s) : \/ c = Value /\ c.name = "value"
                           \/ \E l \in s.labels : c = Blob(l) /\ c.name = l
  BY DEF Wanted, Value, Blob
<1>3. Names(Wanted(s)) \subseteq s.labels \cup {"value"}
  BY <1>2 DEF Names
<1>4. Unambiguous(Wanted(s))
  BY <1>1, <1>2 DEF Unambiguous
<1> QED
  BY <1>1, <1>3, <1>4 DEF s

\* A batch that can be stored is refused only when the table has changed since it
\* was looked at; and as tables never lose a column and only get those that
\* batches need, every refusal is paid for by another request's progress.
THEOREM RefusedByOthersCorrect == Spec => []RefusedByOthers
<1>1. LoopOK /\ DataOK /\ IndFits /\ TablesAreAsked => RefusedByOthers
  <2> SUFFICES ASSUME LoopOK, DataOK, IndFits, TablesAreAsked,
                      NEW w \in Writers, Storable(w), pc[w] = "alter",
                      seen[w] = tables[Item(w).metric]
               PROVE  CanAlter(w)
    BY DEF RefusedByOthers
  <2> DEFINE wanted == Wanted(Item(w))
             table == tables[Item(w).metric]
  <2>1. /\ Item(w).metric \in Metrics
        /\ Unambiguous(wanted)
        /\ \A column \in Existing[Item(w).metric] :
             column.name \in Names(wanted) => column \in wanted
    BY ItemType, StorableNames DEF Outside, Item
  <2>2. Value \in wanted /\ Value.name = "value"
    BY DEF Wanted, Value
  <2>3. ASSUME NEW a \in wanted, NEW b \in table, a.name = b.name PROVE a \in table
    <3>1. a.name \in Names(wanted)
      BY DEF Names
    <3>2. CASE b \in Existing[Item(w).metric]
      BY <2>1, <2>3, <3>1, <3>2 DEF Unambiguous
    <3>3. CASE b \notin Existing[Item(w).metric]
      <4>1. b.name = "value" => b = Value
        BY <2>1, <3>3 DEF TablesAreAsked
      <4>2. PICK v \in Writers : \E i \in DOMAIN Batch[v] : b \in Wanted(Batch[v][i])
        BY <2>1, <3>3 DEF TablesAreAsked
      <4>3. b = Value \/ \E l : b = Blob(l)
        BY <4>2 DEF Wanted
      <4>4. a = Value \/ \E l : a = Blob(l)
        BY DEF Wanted
      <4>5. CASE a = Value
        BY <2>2, <2>3, <4>1, <4>5
      <4>6. CASE b = Value
        BY <2>1, <2>2, <2>3, <4>6 DEF Unambiguous
      <4>7. ASSUME NEW k, NEW l, a = Blob(k), b = Blob(l) PROVE a = b
        BY <2>3, <4>7 DEF Blob
      <4> QED
        BY <4>3, <4>4, <4>5, <4>6, <4>7
    <3> QED
      BY <3>2, <3>3
  <2>4. CASE seen[w] = NoTable
    BY <2>1, <2>4 DEF CanAlter, CanCreate
  <2>5. CASE seen[w] # NoTable
    <3>1. Unambiguous(Missing(w))
      BY <2>1 DEF Unambiguous, Missing
    <3>2. Names(Missing(w)) \cap Names(table) = {}
      BY <2>3 DEF Names, Missing
    <3> QED
      BY <2>5, <3>1, <3>2 DEF CanAlter, CanInsert
  <2> QED
    BY <2>4, <2>5
<1> QED
  BY <1>1, IndType, IndFitsCorrect, TablesAreAskedCorrect, PTL

\* The samples of the series that Write's loop has passed are stored, and when it
\* has passed them all the request is acknowledged.
IndStored ==
    \A w \in Writers :
        LET HasSamples(j) == Batch[w][j].samples
            Stored(j) == <<w, j>> \in stored
        IN /\ pc[w] \notin {"new", "failed"} =>
                \A j \in DOMAIN Batch[w] : j < idx[w] /\ HasSamples(j) => Stored(j)
           /\ pc[w] = "ok" => idx[w] > Len(Batch[w])
           /\ \A i, j \in DOMAIN Batch[w] :
                j < i /\ Stored(i) /\ HasSamples(j) => Stored(j)

\* The cluster keeps what is pushed, and a request pushes the series it is at.
LEMMA StoredGrows ==
  ASSUME LoopOK, DataOK, NEW r \in Requests, Step(r) \/ Failure(r)
  PROVE  /\ stored \subseteq stored' /\ stored' \subseteq stored \cup {<<r, idx[r]>>}
         /\ stored' # stored => pc[r] = "push"
<1>1. CASE UNCHANGED stored
  BY <1>1
<1>2. CASE r \in Writers /\ (Push(r) \/ PushFails(r))
  BY <1>2 DEF Push, PushFails
<1> QED
  BY <1>1, <1>2 DEF Step, Failure, Send, GetHandle, GetHandleFirst, SetupHandle, WriterStep,
     Columns, Alter, AlterRefused, Query, SetupHandleFails, ColumnsFails, AlterFails, QueryFails

\* A request that was answered 200 has all of its samples in the cluster, and any
\* other has those of its first series.
THEOREM AckedIsStoredCorrect == Spec => []AckedIsStored
<1> DEFINE HasSamples(w, j) == Batch[w][j].samples
           Passed(w) == \A j \in DOMAIN Batch[w] : j < idx[w] /\ HasSamples(w, j) => <<w, j>> \in stored
           InLoop(w) == /\ pc[w] \notin {"new", "failed"} => Passed(w)
                        /\ pc[w] = "ok" => idx[w] > Len(Batch[w])
           NoGap(w) == \A i, j \in DOMAIN Batch[w] :
                         j < i /\ <<w, i>> \in stored /\ HasSamples(w, j) => <<w, j>> \in stored
<1>1. Init => IndStored
  BY DEF Init, IndStored, Requests
<1>2. LoopOK /\ DataOK /\ IndStored /\ [Next]_vars => IndStored'
  <2> SUFFICES ASSUME LoopOK, DataOK, IndStored, [Next]_vars, NEW w \in Writers
               PROVE  InLoop(w)' /\ NoGap(w)'
    BY DEF IndStored
  <2>1. InLoop(w) /\ NoGap(w)
    BY DEF IndStored
  <2>2. ASSUME NEW r \in Requests, r # w, Step(r) \/ Failure(r)
        PROVE  InLoop(w)' /\ NoGap(w)'
    <3>1. pc'[w] = pc[w] /\ idx'[w] = idx[w]
      BY <2>2, OthersStay
    <3>2. \A j : <<w, j>> \in stored' <=> <<w, j>> \in stored
      BY <2>2, StoredGrows
    <3> QED
      BY <2>1, <3>1, <3>2
  <2>3. ASSUME Step(w) \/ Failure(w)
        PROVE  InLoop(w)' /\ NoGap(w)'
    <3>1. /\ stored \subseteq stored' /\ stored' \subseteq stored \cup {<<w, idx[w]>>}
          /\ stored' # stored => pc[w] = "push"
      BY <2>3, StoredGrows DEF Requests
    <3>2. idx[w] \in Nat \ {0} /\ DOMAIN Batch[w] \subseteq Nat
      BY PrometheusAssumption DEF LoopOK, Requests
    <3>3. NoGap(w)'
      BY <2>1, <3>1, <3>2
    <3> SUFFICES InLoop(w)'
      BY <3>3
    <3>4. ASSUME NextSeries(w), pc[w] \notin {"new", "failed"},
                 HasSamples(w, idx[w]) => <<w, idx[w]>> \in stored'
          PROVE  InLoop(w)'
      <4>1. CASE Fail(w)
        BY <4>1 DEF Fail, LeaveLoop, Goto, LoopOK, Requests
      <4>2. CASE ~Fail(w)
        <5>1. /\ idx' = [idx EXCEPT ![w] = @ + 1]
              /\ pc' = [pc EXCEPT ![w] = AtSeries(w, idx[w] + 1)]
          BY <3>4, <4>2 DEF NextSeries, Goto
        <5>2. idx'[w] = idx[w] + 1 /\ pc'[w] = AtSeries(w, idx[w] + 1)
          BY <5>1 DEF LoopOK, Requests
        <5>3. pc'[w] = "ok" => idx[w] + 1 > Len(Batch[w])
          BY <3>2, <5>2, AtSeriesType
        <5>4. Passed(w)'
          BY <2>1, <3>1, <3>2, <3>4, <5>2
        <5> QED
          BY <5>2, <5>3, <5>4
      <4> QED
        BY <4>1, <4>2
    <3>5. ASSUME pc'[w] \in Labelled \ {"new", "failed", "ok"}, idx'[w] = idx[w],
                 pc[w] \notin {"new", "failed"}
          PROVE  InLoop(w)'
      BY <2>1, <3>1, <3>5 DEF Labelled
    <3>6. ASSUME Ensured(w), pc[w] \notin {"new", "failed"} PROVE InLoop(w)'
      <4>1. CASE Item(w).samples
        BY <3>5, <3>6, <4>1 DEF Ensured, Goto, LoopOK, Labelled, Requests
      <4>2. CASE ~Item(w).samples
        BY <3>4, <3>6, <4>2 DEF Ensured, Item
      <4> QED
        BY <4>1, <4>2
    <3>7. Fail(w) => InLoop(w)'
      BY DEF Fail, LeaveLoop, Goto, LoopOK, Requests
    <3>8. CASE Send(w)
      <4>1. idx[w] = 1 /\ UNCHANGED idx /\ pc' = [pc EXCEPT ![w] = AtSeries(w, 1)]
        BY <3>8 DEF Send, LoopOK, Goto, Requests
      <4>2. pc'[w] = "ok" => 1 > Len(Batch[w])
        BY <4>1, AtSeriesType DEF LoopOK, Requests
      <4>3. Passed(w)'
        BY <3>2, <4>1, PrometheusAssumption
      <4> QED
        BY <4>1, <4>2, <4>3
    <3>9. CASE GetHandle(w) \/ GetHandleFirst(w) \/ SetupHandle(w)
      BY <3>5, <3>9, PrometheusAssumption
         DEF GetHandle, GetHandleFirst, SetupHandle, HaveHandle, Goto, LoopOK, Labelled, Requests
    <3>10. CASE Columns(w)
      BY <3>5, <3>6, <3>10 DEF Columns, Goto, LoopOK, Labelled, Requests
    <3>11. CASE Alter(w)
      BY <3>6, <3>11 DEF Alter
    <3>12. CASE Push(w)
      BY <3>4, <3>7, <3>12 DEF Push
    <3>13. CASE AlterRefused(w) \/ Failure(w)
      BY <3>7, <3>13 DEF AlterRefused, Failure, SetupHandleFails, ColumnsFails, AlterFails,
         PushFails, QueryFails
    <3>14. w \notin Readers
      BY PrometheusAssumption
    <3> QED
      BY <2>3, <3>8, <3>9, <3>10, <3>11, <3>12, <3>13, <3>14 DEF Step, WriterStep
  <2>4. CASE UNCHANGED vars
    BY <2>1, <2>4 DEF vars
  <2> QED
    BY <2>2, <2>3, <2>4 DEF Next
<1>3. LoopOK /\ IndStored => AckedIsStored
  <2> SUFFICES ASSUME LoopOK, IndStored, NEW w \in Writers
               PROVE  /\ pc[w] = "ok" => \A i \in DOMAIN Batch[w] : HasSamples(w, i) => <<w, i>> \in stored
                      /\ NoGap(w)
    BY DEF AckedIsStored
  <2>1. InLoop(w) /\ NoGap(w)
    BY DEF IndStored
  <2>2. DOMAIN Batch[w] = 1 .. Len(Batch[w]) /\ Len(Batch[w]) \in Nat /\ idx[w] \in Nat
    BY PrometheusAssumption DEF LoopOK, Requests
  <2> QED
    BY <2>1, <2>2
<1> QED
  BY <1>1, <1>2, <1>3, IndType, PTL DEF Spec
=============================================================================
