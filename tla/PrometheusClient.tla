--------------------------- MODULE PrometheusClient ---------------------------
(***************************************************************************)
(* The remote storage for Prometheus of prometheus/client.go.  All the     *)
(* requests share one Client with one handle to the cluster, and they      *)
(* create the tables and columns they need as they go.                     *)
(*                                                                         *)
(* Every call to the cluster is an action, which happens at once or fails. *)
(* A refused request is sent again: the handlers answer 500, after which   *)
(* Prometheus retries.                                                     *)
(***************************************************************************)
EXTENDS Integers, Sequences

CONSTANTS
    Writers,    \* requests to /api/prometheus/write
    Readers,    \* requests to /api/prometheus/read
    Batch,      \* the time series of each writer
    Queries,    \* the queries of each reader: a metric, BadQuery or NoMatchers
    Metrics,    \* the names of metrics
    Labels,     \* the names of labels
    Existing,   \* the columns of each metric's table at the start
    Faults,     \* which calls may fail: a subset of FaultKinds
    MaxFaults,  \* bound: calls that fail
    NoMetric,   \* of a time series: it has no metric
    BadQuery,   \* a query that buildQuasarDbQuery refuses
    NoMatchers, \* a query without any matcher
    Free        \* nobody

FaultKinds == {"setup",    \* qdb.SetupHandle
               "columns",  \* table.Columns
               "alter",    \* table.Create, table.InsertColumns
               "push",     \* writer.Push
               "query"}    \* the query of a read request

Requests == Writers \cup Readers

\* Columns have a name and a type; label values are blobs.
Column == [name : Labels \cup {"value"}, type : {"blob", "double"}]
\* A table has columns: without any there is no table.
NoTable == {}

Blob(label) == [name |-> label, type |-> "blob"]
Value == [name |-> "value", type |-> "double"]

\* A time series: its metric, its other labels, and whether it has samples.
Series == [metric : Metrics \cup {NoMetric}, labels : SUBSET Labels, samples : BOOLEAN]

ASSUME PrometheusAssumption ==
    /\ Batch \in [Writers -> Seq(Series)]
    /\ Queries \in [Readers -> Seq(Metrics \cup {BadQuery, NoMatchers})]
    /\ Existing \in [Metrics -> SUBSET Column]
    /\ MaxFaults \in Nat
    /\ Writers \cap Readers = {}
    /\ NoMetric \notin Metrics
    /\ {BadQuery, NoMatchers} \cap Metrics = {}
    /\ BadQuery # NoMatchers
    /\ Free \notin Requests

VARIABLES
    mutex,   \* who holds Client.mutex
    handle,  \* Client.Handle is not nil
    opened,  \* the number of handles that have been set up
    tables,  \* the columns of each metric's table
    stored,  \* <<w, i>>: the samples of Batch[w][i] are in the cluster
    pc,      \* where each request is
    idx,     \* the series or the query it is at
    seen,    \* the columns EnsureTable has read
    faults   \* the calls that have failed

vars == <<mutex, handle, opened, tables, stored, pc, idx, seen, faults>>

Item(w) == Batch[w][idx[w]]

\* The columns that a time series needs.
Wanted(series) == {Blob(l) : l \in series.labels} \cup {Value}

TypeOK ==
    /\ mutex \in Requests \cup {Free}
    /\ handle \in BOOLEAN
    /\ opened \in Nat
    /\ tables \in [Metrics -> SUBSET Column]
    /\ stored \subseteq {s \in Writers \X Nat : s[2] \in DOMAIN Batch[s[1]]}
    /\ pc \in [Requests -> {"new", "getHandle", "setup", "ensureHandle", "columns",
                            "alter", "push", "query", "ok", "failed", "panicked"}]
    /\ idx \in [Requests -> Nat \ {0}]
    /\ seen \in [Writers -> SUBSET Column]
    /\ faults \in 0 .. MaxFaults
    \* a writer is at a series of its batch, and a metric's once it has a handle
    /\ \A w \in Writers :
         /\ pc[w] # "panicked"
         /\ pc[w] \notin {"new", "ok", "failed"} =>
              idx[w] \in DOMAIN Batch[w] /\ Item(w).metric \in Metrics
    /\ \A r \in Readers :
         /\ pc[r] \in {"new", "getHandle", "setup", "query", "ok", "failed", "panicked"}
         /\ pc[r] = "query" =>
              idx[r] \in DOMAIN Queries[r] /\ Queries[r][idx[r]] \in Metrics

Init ==
    /\ mutex = Free
    /\ handle = FALSE
    /\ opened = 0
    /\ tables = Existing
    /\ stored = {}
    /\ pc = [r \in Requests |-> "new"]
    /\ idx = [r \in Requests |-> 1]
    /\ seen = [w \in Writers |-> NoTable]
    /\ faults = 0

\* A call fails.
Fault(kind) == /\ kind \in Faults
               /\ faults < MaxFaults
               /\ faults' = faults + 1

Goto(r, label) == pc' = [pc EXCEPT ![r] = label]

\* The loop that the request was in is over.
LeaveLoop(r, label) == /\ Goto(r, label)
                       /\ idx' = [idx EXCEPT ![r] = 1]

\* The request is answered 500.
Fail(r) == LeaveLoop(r, "failed")

\* Write's loop arrives at series i of w's batch.
AtSeries(w, i) == IF i > Len(Batch[w]) THEN "ok"
                  ELSE IF Batch[w][i].metric = NoMetric THEN "failed"
                  ELSE "getHandle"

NextSeries(w) ==
    LET label == AtSeries(w, idx[w] + 1)
    IN IF label = "failed" THEN Fail(w)
       ELSE Goto(w, label) /\ idx' = [idx EXCEPT ![w] = @ + 1]

\* Mutated AtQuery: what buildQuasarDbQuery returns is not tested.
AtQuery_NoCheck(r, i) == IF i > Len(Queries[r]) THEN "ok" ELSE "query"

\* Read's loop arrives at query i of r.  For a query without matchers
\* buildQuasarDbQuery asks for a slice of capacity -1: the client gets no answer.
AtQuery(r, i) == IF i > Len(Queries[r]) THEN "ok"
                 ELSE IF Queries[r][i] = BadQuery THEN "failed"
                 ELSE IF Queries[r][i] = NoMatchers THEN "panicked"
                 ELSE "query"

\* The request arrives, for the first time or again.
Send(r) ==
    /\ pc[r] \in {"new", "failed", "panicked"}
    /\ Goto(r, IF r \in Writers THEN AtSeries(r, 1) ELSE "getHandle")
    /\ UNCHANGED <<mutex, handle, opened, tables, stored, idx, seen, faults>>

-----------------------------------------------------------------------------
(* GetHandle, for Write, for EnsureTable and for Read.                     *)

\* What the caller goes on with.
HaveHandle(r) ==
    Goto(r, IF r \in Readers THEN AtQuery(r, 1)
            ELSE IF pc[r] = "ensureHandle" THEN "columns" ELSE "ensureHandle")

\* The handle is there.
GetHandle(r) ==
    /\ pc[r] \in {"getHandle", "ensureHandle"}
    /\ mutex = Free
    /\ handle
    /\ HaveHandle(r)
    /\ UNCHANGED <<mutex, handle, opened, tables, stored, idx, seen, faults>>

\* Mutated GetHandleFirst: the handle is tested before the mutex is taken.
GetHandleFirst_Unlocked(r) ==
    /\ pc[r] = "getHandle"
    /\ ~handle
    /\ mutex' = r
    /\ Goto(r, "setup")
    /\ UNCHANGED <<handle, opened, tables, stored, idx, seen, faults>>

\* It is not: SetupHandle is called with the mutex locked.  EnsureTable never
\* gets here.
GetHandleFirst(r) ==
    /\ pc[r] = "getHandle"
    /\ mutex = Free
    /\ ~handle
    /\ mutex' = r
    /\ Goto(r, "setup")
    /\ UNCHANGED <<handle, opened, tables, stored, idx, seen, faults>>

SetupHandle(r) ==
    /\ pc[r] = "setup"
    /\ handle' = TRUE
    /\ opened' = opened + 1
    /\ mutex' = Free
    /\ HaveHandle(r)
    /\ UNCHANGED <<tables, stored, idx, seen, faults>>

\* GetHandle returns without unlocking the mutex.
SetupHandleFails(r) ==
    /\ pc[r] = "setup"
    /\ Fault("setup")
    /\ Fail(r)
    /\ UNCHANGED <<mutex, handle, opened, tables, stored, seen>>

-----------------------------------------------------------------------------
(* EnsureTable.                                                            *)

\* The metric's table has the columns of the series.
Fits(w) == Wanted(Item(w)) \subseteq tables[Item(w).metric]

\* EnsureTable returns; its variables are gone.
Forget(w) == seen' = [seen EXCEPT ![w] = NoTable]

\* It succeeds, and Write goes on with the samples, if any.
Ensured(w) == /\ Forget(w)
              /\ IF Item(w).samples THEN Goto(w, "push") /\ UNCHANGED idx
                 ELSE NextSeries(w)

\* EnsureTable asks for the table's columns.
Columns(w) ==
    /\ pc[w] = "columns"
    /\ \/ Fits(w) /\ Ensured(w)
       \/ /\ ~Fits(w)
          /\ seen' = [seen EXCEPT ![w] = tables[Item(w).metric]]
          /\ Goto(w, "alter")
          /\ UNCHANGED idx
    /\ UNCHANGED <<mutex, handle, opened, tables, stored, faults>>

ColumnsFails(w) ==
    /\ pc[w] = "columns"
    /\ Fault("columns")
    /\ Fail(w)
    /\ UNCHANGED <<mutex, handle, opened, tables, stored, seen>>

Names(columns) == {c.name : c \in columns}

\* The cluster lets nobody create a table twice, or two columns of one name.
Unambiguous(columns) == \A a, b \in columns : a.name = b.name => a = b

\* Mutated Missing: only the table's blob columns count.
Missing_Blobs(w) == Wanted(Item(w)) \ {c \in seen[w] : c.type = "blob"}

\* The columns that EnsureTable found to be missing.
Missing(w) == Wanted(Item(w)) \ seen[w]

\* table.Create.
CanCreate(w) == /\ tables[Item(w).metric] = NoTable
                /\ Unambiguous(Wanted(Item(w)))

\* table.InsertColumns.
CanInsert(w) == /\ tables[Item(w).metric] # NoTable
                /\ Unambiguous(Missing(w))
                /\ Names(Missing(w)) \cap Names(tables[Item(w).metric]) = {}

\* The table that EnsureTable makes, if the cluster agrees.
CanAlter(w) == IF seen[w] = NoTable THEN CanCreate(w) ELSE CanInsert(w)
AlteredTable(w) == IF seen[w] = NoTable THEN Wanted(Item(w))
                   ELSE tables[Item(w).metric] \cup Missing(w)

\* EnsureTable creates the table or adds the missing columns.
Alter(w) ==
    /\ pc[w] = "alter"
    /\ CanAlter(w)
    /\ tables' = [tables EXCEPT ![Item(w).metric] = AlteredTable(w)]
    /\ Ensured(w)
    /\ UNCHANGED <<mutex, handle, opened, stored, faults>>

\* Mutated AlterRefused: somebody else has made the table: so much the better.
AlterRefused_Ignored(w) ==
    /\ pc[w] = "alter"
    /\ ~CanAlter(w)
    /\ Ensured(w)
    /\ UNCHANGED <<mutex, handle, opened, tables, stored, faults>>

\* The cluster refuses: somebody else was faster, or the columns are impossible.
AlterRefused(w) ==
    /\ pc[w] = "alter"
    /\ ~CanAlter(w)
    /\ Forget(w)
    /\ Fail(w)
    /\ UNCHANGED <<mutex, handle, opened, tables, stored, faults>>

\* The call fails; the change may have been made all the same.
AlterFails(w) ==
    /\ pc[w] = "alter"
    /\ Fault("alter")
    /\ \/ UNCHANGED tables
       \/ /\ CanAlter(w)
          /\ tables' = [tables EXCEPT ![Item(w).metric] = AlteredTable(w)]
    /\ Forget(w)
    /\ Fail(w)
    /\ UNCHANGED <<mutex, handle, opened, stored>>

-----------------------------------------------------------------------------
(* The samples.                                                            *)

\* The cluster accepts the samples if they fit.
Push(w) ==
    /\ pc[w] = "push"
    /\ IF Fits(w) THEN stored' = stored \cup {<<w, idx[w]>>} /\ NextSeries(w)
                  ELSE Fail(w) /\ UNCHANGED stored
    /\ UNCHANGED <<mutex, handle, opened, tables, seen, faults>>

\* Mutated PushFails: Write goes on with the next series.
PushFails_GoesOn(w) ==
    /\ pc[w] = "push"
    /\ Fault("push")
    /\ \/ UNCHANGED stored
       \/ Fits(w) /\ stored' = stored \cup {<<w, idx[w]>>}
    /\ NextSeries(w)
    /\ UNCHANGED <<mutex, handle, opened, tables, seen>>

\* Push fails; the samples may have been stored all the same.
PushFails(w) ==
    /\ pc[w] = "push"
    /\ Fault("push")
    /\ \/ UNCHANGED stored
       \/ Fits(w) /\ stored' = stored \cup {<<w, idx[w]>>}
    /\ Fail(w)
    /\ UNCHANGED <<mutex, handle, opened, tables, seen>>

\* Read executes a query, which needs the table.
Query(r) ==
    /\ pc[r] = "query"
    /\ LET next == IF tables[Queries[r][idx[r]]] = NoTable THEN "failed"
                   ELSE AtQuery(r, idx[r] + 1)
       IN IF next \in {"failed", "panicked"}
          THEN LeaveLoop(r, next)
          ELSE Goto(r, next) /\ idx' = [idx EXCEPT ![r] = @ + 1]
    /\ UNCHANGED <<mutex, handle, opened, tables, stored, seen, faults>>

QueryFails(r) ==
    /\ pc[r] = "query"
    /\ Fault("query")
    /\ Fail(r)
    /\ UNCHANGED <<mutex, handle, opened, tables, stored, seen>>

\* What a request does if the cluster lets it.
WriterStep(w) == Columns(w) \/ Alter(w) \/ AlterRefused(w) \/ Push(w)
Step(r) == \/ Send(r) \/ GetHandle(r) \/ GetHandleFirst(r) \/ SetupHandle(r)
           \/ r \in Writers /\ WriterStep(r)
           \/ r \in Readers /\ Query(r)

Failure(r) == \/ SetupHandleFails(r)
              \/ r \in Writers /\ (ColumnsFails(r) \/ AlterFails(r) \/ PushFails(r))
              \/ r \in Readers /\ QueryFails(r)

Next == \E r \in Requests : Step(r) \/ Failure(r)

Spec == Init /\ [][Next]_vars

\* Requests are not held up, the cluster answers every call, and Prometheus
\* sends a refused request again.
FairSpec == Spec /\ \A r \in Requests : WF_vars(Step(r))

-----------------------------------------------------------------------------
(* Safety.                                                                 *)

\* All the requests together open one handle, however many arrive before there
\* is one.
OneHandle == opened = IF handle THEN 1 ELSE 0

\* A request that was answered 200 has all of its samples in the cluster, and
\* any other has those of its first series: after a retry nothing is missing in
\* between.
AckedIsStored ==
    \A w \in Writers :
        LET HasSamples(i) == Batch[w][i].samples
            Stored(i) == <<w, i>> \in stored
        IN /\ pc[w] = "ok" =>
                \A i \in DOMAIN Batch[w] : HasSamples(i) => Stored(i)
           /\ \A i, j \in DOMAIN Batch[w] :
                j < i /\ Stored(i) /\ HasSamples(j) => Stored(j)

\* Samples are only pushed into a table that has all of their columns, although
\* the table was examined before others changed it.
PushFits == \A w \in Writers : pc[w] = "push" => Fits(w)

\* Whatever requests do to a table, fail at or do again: it has the columns it had
\* at the start and such as a batch needs, and never a blob called value.
TablesAreAsked ==
    \A m \in Metrics : \A column \in tables[m] \ Existing[m] :
        /\ \E w \in Writers : \E i \in DOMAIN Batch[w] :
              Batch[w][i].metric = m /\ column \in Wanted(Batch[w][i])
        /\ column.name = "value" => column = Value

\* SetupHandle has failed and GetHandle has returned without unlocking.
Leaked == mutex # Free /\ pc[mutex] # "setup"

\* The mutex is then locked for good: there will be no handle, and no request gets
\* past GetHandle any more, the retry of the one that failed included.
LeakedForGood ==
    [][ Leaked => /\ mutex' = mutex
                  /\ pc'[mutex] # "setup"
                  /\ handle' = handle
                  /\ \A r \in Requests :
                       pc[r] \in {"getHandle", "ensureHandle"} => pc'[r] = pc[r] ]_vars

\* A batch that the cluster can store: every series has a metric, no label is
\* called value, and none of them is a column of another type.
Storable(w) ==
    \A i \in DOMAIN Batch[w] :
        LET s == Batch[w][i]
        IN /\ s.metric \in Metrics
           /\ "value" \notin s.labels
           /\ \A c \in Existing[s.metric] : c.name \in s.labels \cup {"value"} => c \in Wanted(s)

\* Such a batch is only ever refused its tables and columns because another
\* request has changed the table since EnsureTable looked at it.
RefusedByOthers ==
    \A w \in Writers :
        Storable(w) /\ pc[w] = "alter" /\ ~CanAlter(w) => seen[w] # tables[Item(w).metric]

(* Liveness.                                                               *)

\* Writers of one metric may refuse one another's tables and columns, but not
\* for ever: each of them is acknowledged, unless a handle could not be set up.
RetriesSucceed ==
    \A w \in Writers : Storable(w) => <>(pc[w] = "ok" \/ Leaked)

\* Every request that asks for the handle is answered: with 200, or with 500 if the
\* cluster fails.
Answered ==
    \A r \in Requests : pc[r] = "getHandle" ~> pc[r] \in {"ok", "failed"}
=============================================================================
