# Verification of the QuasarDB REST server

TLA+ models of `qdb-api-rest`, the HTTP front end of a QuasarDB cluster: what TLC
checks on small instances and what TLAPS proves for all of them. Paths are relative to
`src/`. `PROJECT.json` lists the runs, the mutants, the source lines of every
definition, the findings, the hazards and the theorems.

Run `tlc -config X.cfg M` for the runs and `tlapm M.tla` for the proofs.

## 1. The system

A go-swagger server. net/http serves each request in a goroutine of its own, so that
everything that outlives a request is shared. What is shared, and by whom:

| Part | State it keeps | Operations | Meets |
|---|---|---|---|
| Connection pool, `vendor/github.com/silenceper/pool/channel.go` | idle connections in a Go channel, `openingConns`, queue `connReqs`, a mutex | `NewChannelPool`, `Get`, `Put`, `Close`, `Release` | called by the handle cache; calls the cluster |
| Handle cache, `restapi/configure_qdb_api_rest.go` | `handleCache`: user -> pool, a concurrent map | login, authentication, `GetHandle`, `PutHandle`, `CloseHandle` | every handler; the pools |
| CSV export, same file, 504-657 | chunks, a goroutine, a pipe | `GetTableCsvHandler`, `CsvProducer`, `chunkRange` | a handle; the client that reads |
| Prometheus, `prometheus/client.go` | one `Client` with one handle and a mutex | `Write`, `Read`, `EnsureTable`, `GetHandle` | the cluster's tables; Prometheus, which retries |
| Rolling log, `lumberjack/logger.go` | the log file, its size, backups; the mill and its channel `millCh` | `Write`, rotation, `millRunOnce`, `compressLogFile` | the file system; every handler logs |
| Cluster information, `qdbinterface/cluster_information.go` | package variables, not synchronised: status, nodes, totals, a map, `lastUpdate` | `RetrieveInformation` | get-cluster, get-node |
| Tags, queries, options | none (but the tags handler writes `err` of `configureAPI`, and so does `CsvProducer`) | their handlers | a handle |
| Generated API, `restapi/operations/`, `embedded_spec.go`, `models/` | the registry of handlers, built once | `ServeHTTP` and `BindRequest` of each operation, responders | everything that is requested |
| Tokens, `jwt/lib.go` | none | `Build`, `Parse` | login, authentication |
| Configuration, `config/` | `APIConfig`, read once | `SetDefaults`, `Check` | everything |
| Server lifecycle, `restapi/server.go`, `apps/` | listeners, signals, the channel `shutdown` | `Serve`, `Shutdown`, `handleShutdown`, the mains | configuration; signals; the Windows service |

What is hard here, and what each part has to get right:

- **Pool.** `Get` reads the channel before it locks, and unlocks before it waits; `Put`
  unlocks before it closes; `Release` closes the channel under all of them. A connection
  must have one owner, never be used after it was closed, never get lost, and be counted
  exactly, as the count decides who waits. Somebody must always be able to go on.
- **Handle cache.** A handler looks its user up twice, before and after it used a
  handle; in between a login may have replaced the pool, an expired token dropped it or
  a node request set it to nil; and the two sides do not use the same key: login and
  authentication use the user name, the handlers the part of `user:secret` before its first
  colon. The cache must not offer released pools, no request may
  work with another user's connection, and no pool may be forgotten with its connections.
- **CSV export.** The response outlives its handler. Rows must come once, in order and
  with their fields in place, although each chunk is a read of its own.
- **Prometheus.** Writers that need different columns race to create and extend one
  table; calls fail half way through a batch and are retried. An acknowledged sample
  must be stored, and what can be stored must be acknowledged in the end.
- **Log.** The mill removes and compresses backups without the lock, on a listing that
  rotations make stale; the process may die in between. Records must not be lost before
  their time, and the file must keep its limit.
- **Requests.** Between the route and the handler lie authentication, negotiation and
  binding, generated from one of two copies of the description: the right handler must
  run, only for those it is meant for, and what it answers must be what is documented.
- **Cluster information, tags.** Unsynchronised reads and writes of shared variables:
  the information is built up in steps that another request sees, and the error of one
  request can be reported to another. Neither may go further than the requests that overlap.
- **Configuration, lifecycle.** Precedence of flags, file and defaults, where a file
  overwrites defaults with the keys it does not have; a secured cluster must not be
  served in plain text. A shutdown must end, although clients may never finish, and must
  not cut requests before their time, although it stops waiting after the first failure.

## 2. The modules

`HandleLeases` <- implemented by - `ConnectionPool` <- extended by - `HandleCache`, which
implements `AccountLeases`, an extension of `HandleLeases`. `Requests` extends
`ClusterInformation` and `Operations` and implements `ApiContract`, `ServerLifecycle` extends
`Configuration`. `LogRotation`, `PrometheusClient` and `CsvExport` stand alone. `MC*` modules hold values
for TLC, `*Proofs` the theorems. Definitions whose names end in `_Something` and whose
comment begins with "Mutated" are wrong on purpose: each breaks one property.

**HandleLeases** is the promise: a handle is connected, has one lessee at most, and is
closed by its lessee or while nobody has it. Nothing about pools. **AccountLeases** adds whom
a handle belongs to: the user with whose credentials it was connected, for as long as it is
connected, and only clients of this account lease it. Nothing about a cache: which pool a
handle is in is not part of the promise, only that it never crosses to another account. Whose
account a client is on is a parameter: HandleCache gives it the name that the client's principal
begins with.

**ApiContract** is what a client may rely on, without routes, stages and handlers: a request is
admitted if it must be, served or refused, and answered once, with an answer of its operation.
`Requests` maps onto it: where a request is in the pipeline becomes a `phase`, what has been
written becomes the `reply`.

**ConnectionPool** has an action for each critical section and each access outside of
one: `GetConns`, `Receive`, `Miss` (the `default` branch), `Enqueue`, `Open`, `WakeUp`,
`PutHandOver`, `PutIdle`, `PutFull`, `Close`, and `Release` in its three parts. `pc`
is the place of a client in the code, `hand` its connection. A connection
goes stale (`IdleTimeout`) when the model likes. The channel is a set, as nothing
depends on the order of idle connections. A pool is created once (`Pools` bounds how
many), and the cluster refuses connections when `Handles` runs out. `connReqs` is the queue of clients; the
buffered channel of each is the client's `handed` place. `Close` of a released pool
closes nothing, as in the code (channel.go:208).
`ClientStep` and `CallGet` are the handlers as the pool sees them; HandleCache replaces
them by the handlers themselves.

**HandleCache** has request slots that serve login, query, node and csv requests, one
after another. `query` stands for every handler that treats its handle in the same way
(queries, tags, options, cluster). An access to the concurrent map is a step; so is
every step of ConnectionPool, by `InPool`. `CreatePool` is one step: until it is in the
cache nobody else can reach the pool. A panic is a state (`panicked`) during
which deferred calls still run, as in Go. `Before` maps a user name to its part before the first
colon, which is the key of `Found` (`GetHandle`, `PutHandle`, `CloseHandle`, `GetNode`), while
`Entry` and `SetEntry` (login, authentication) use the name; the runs have a user `alice` and
another one named `alice:x`. `OrphansHaveCauses` and `LeaksHaveCauses` name
the ways in which the handlers lose a pool or a connection, as conditions on the step that does it.

**LogRotation** keeps the log file and the backups as sets of record numbers, with the
file's size, so that what is lost can be seen. The writer holds the mutex for a whole
`Write`, so there is one; it is split at each call to the file system, since the mill
and a crash come in between. `MillLists` is the listing with all its decisions; the mill's
removals and the steps of each compression follow, each of which may fail. `StatFails` is
`openNew` when it cannot examine the log file: it goes on without moving it, and `Create` then
truncates it. `Restart` is a crash at any point. Times stand for the milliseconds in the names of backups.

**PrometheusClient** has writers and readers. Every call to the cluster is an action:
table columns read, table created or extended, batch pushed, each with a failure. A
failed request is sent again by `Send`. A query without matchers (`NoMatchers`) panics where
`buildQuasarDbQuery` makes its slice. A label is a name; values and samples
are abstracted to "this series has samples". The cluster's side (a table is created if
it is missing, a column inserted if none has its name) is external, modelled from the use.

**CsvExport** has the handler, the goroutine, the pipe with one line in it at most
(`io.Pipe` is synchronous) and the reader. A row is its time. A field is the
column its value comes from, so that a shifted field is visible. `chunkRange` is its two
loops, the first one (`TimePoints`) in closed form.

**Operations** is the generated code as tables: for each operation its route in the embedded
description, the responses it documents, the stages of its `ServeHTTP`, what `BindRequest`
asks for and the responses that can be constructed; then the registry
(`initHandlerCache`, `ConsumersFor`, `ProducersFor`) and, as operators, how the vendored
runtime negotiates and binds. Paths have `:id` where the description has braces. The two
embedded copies of the description, the flattened one included, give the same tables.

**ClusterInformation** has a step for each access of `RetrieveInformation` to a shared
variable, in the order of the code: the time stamp comes before the information, append reads the
slice and stores the longer one, the map is made anew before it is filled. `Statistics` returns
the nodes it reached, and an error or none. `lone` and `last` are history.

**Requests** is a request from `Arrive` to `Leave`: `Authorize`, `Bind`, the handler,
`Respond`. Each handler of the service is an action (or several, where it shares state) with the
answers its code can return. `Server(r)` is the handler that the registry finds, which the
handler actions go by. The shared `err` is an interface: `StoreType` and `StoreData` write its two
words. `DataRace` ends the process where two accesses conflict, which Go
leaves undefined. A panic is an outcome, since net/http recovers from it.

**Configuration** is the package `config` as operators: `SetDefaults` with the file, `--local`
and `--secure`, `Check` with the paths that exist, the questions of the generator, with
answers that are no integer. A configuration is a function on the fields.

**ServerLifecycle** has the three programs: `main` is the goroutine that loads the
configuration, listens and serves; `listener` its goroutines; `closer` is `handleShutdown`,
whose goroutines (`drain`) call `Shutdown` of each http.Server. `Signal`, `Stop` and requests
come at any time. The generated server chooses its listeners and its grace period (`--scheme`,
`--graceful-timeout`). http.Server is external, and does what its documentation says.

## 3. The runs

| Run | Shows | Bounds |
|---|---|---|
| `pool_safety` | exclusive, usable, exactly counted, bounded, never lost, never all parked; implements HandleLeases | 2 pools of size 1 (limit 2), 3 clients, 4 connections, all faults |
| `pool_live` | waiters are served while requests keep coming, once operations and connection attempts stop failing; a released pool is emptied | 1 pool, 3 clients, 2 connections, all faults |
| `cache_safety` | through logins, expiries, failed requests and node failures the cache offers live pools only; a request works with connections of the user that its principal begins with and of no other; pools are orphaned, and connections left open out of reach, in the ways that are named and in no other; implements AccountLeases | 3 users, one named as another up to a colon, 2 slots (one of them for the third user), 3 pools, 2 connections |
| `cache_orphan` | *violated*: an expired token drops a pool that is never released | 1 slot |
| `cache_csv` | *violated*: an export reads from a handle that another request has | 2 slots, 1 pool |
| `requests` | implements ApiContract, so that only authorized requests reach handlers; answers are documented (with named exceptions), an error stays with the requests that overlap, the information is that of one fetch unless two overlapped | all 12 operations one after another, and 2 slots for those that share state; 2 nodes, a list of at most 3 |
| `requests_answered` | *violated*: a pool that cannot be made ends the request in a panic instead of a 401 | 1 slot, all operations |
| `server` | a server ends when asked to, cuts requests only when their time is over, serves no secured cluster in plain text | 2 clients, 1 or 2 listeners, 3 programs, 4 command lines, 2 files, 4 disks, 4 faults |
| `log_safety` | the size limit, no record lost before its time but by one truncation, no rotation missed by the mill | 3 records of 1 or 2 bytes in a file of 2, 3 instants, all faults but one |
| `prom_writes` | one handle, acknowledged means stored, samples only where they fit, and retries succeed | 3 writers, 2 readers, 2 metrics, 3 labels, 2 failing calls |
| `prom_lock` | *violated*: a failed set-up of the handle blocks every later request | 2 writers, 1 reader, 1 failing call |
| `csv_export` | rows in order, complete but for failed chunks and the tail, fields in place, the response ends | all ranges of 7 instants, chunks of 2, all tables, 4 layouts |

*Why the bounds are enough.* Three clients are one that holds, one that waits and one
that interferes between two of their steps; a pool of size 1 has the limit 2, so that
two connections can be out while a third client queues, and an idle channel that is
full after one `Put`. Two pools are what a login makes of one. Users need three
pools, so that one user can replace a pool while another one has its own; three users are one
whose name has a colon, the one it is taken for, and a stranger, who has one request at a time (`MCOneStranger`), since two
requests of one user are two of alice's. Three
instants of the log tell three backups apart, of which one is superfluous and one too old.
Two failures are one in each of two writers, or one request that fails twice. Seven
instants and chunks of two give ranges with no chunk, one, and several, with and without
a tail. Two requests are what it takes for one to see what the other has half done; two nodes
make a list that can lack one, and the third place lets a node appear twice. Overlapping
refreshes can restore what others have emptied, so that the list of nodes has no bound
of its own (`MaxLength`). The command lines and files are those that differ in what
security and TLS depend on; the disks lack one file each.
Every property of a passing run is broken by a mutant in that run, so that none
of the bounds hides the case.

*Symmetry* over clients, pools and handles is used in the safety runs only (MC modules),
where no property tells them apart. *Deadlock* is not checked where the models may stop:
their bounds (records, failing calls, handles) run out, a parked client of a released
pool waits, an export ends.

*Fairness.* `FairSpec` of the pool assumes that a goroutine which is not parked keeps
running and that the cluster answers: the Go scheduler is fair to runnable goroutines,
and the handle has a timeout (connect.go:20). `Traffic`, in `pool_live` only, adds that requests keep
coming. This is needed: without it TLC finds a client that waits for ever beside an idle
connection. `WaitersServed` also supposes that failures end (`FailuresEnd`: no connection is
closed after a failed operation, no attempt to connect to a pool in use fails). This is needed
as well, and the code does not see to it: TLC finds `WaitersAlwaysServed`, which supposes
`Traffic` alone, violated by three clients of which two get, fail and close in turn. PrometheusClient's fairness makes each
request go on, and lets the number of failures be bounded (`MaxFaults`): a cluster that
always fails stores nothing. `RetriesSucceed` leaves out what no retry can mend: batches
that no table can hold, and the mutex of `prom_lock`. CsvExport's fairness is that of
the goroutine and of a client that reads; one that leaves may do so. ServerLifecycle
assumes that its goroutines go on and that time passes (`GraceEnds`); no client has to
end its request, no signal has to be sent, and a listener that serves may do so for ever.

## 4. What was found

- **An expired token leaks a pool** (`cache_orphan`): `RemoveFromCache` closes handles,
  but the cache holds pools (line 94).
- **An export shares its handle** (`cache_csv`): `PutHandle` is deferred in the handler
  (line 553), which returns before the goroutine begins to read.
- **A failed set-up locks the Prometheus endpoints** (`prom_lock`): `GetHandle` returns
  with the mutex locked (client.go:121-124).
- **Requests panic instead of being refused** (`requests_answered`). Where the cluster refuses
  a user, `CreatePool` goes on with a nil pool (lines 132-136), so that neither login nor
  authentication answers 401. `RequestsAreAnswered` is also broken, with other `Loads`, by a node
  that the cluster does not have (line 695, 404 is documented), by an export whose range does not
  begin before its end (line 71) and by a Prometheus read with a query that has no matchers (client.go:321).

The passing runs state more things as they are; no document of the repository says
otherwise, but whoever maintains the code should know them.

Pool and exports:

- An expired token is not the only way to orphan a pool: two requests that both find none each
  make one, a failed node takes one out of the cache, a login that looked before another's pool
  was there replaces it, and a login can fail after its old pool has been taken out
  (`OrphansHaveCauses`). A connection stays open out of reach if it is closed into a released pool or
  returned while its user has no pool (`LeaksHaveCauses`).
- The cache has two keys: login and authentication use the user name, the handlers
  `strings.Split(principal, ":")[0]` (lines 153, 174, 193). A user whose name contains a colon
  works with the pool of another one, or finds none. `UserIsolation` and `ImplementsAccounts`
  therefore speak of the users that principals begin with: between those, connections never
  pass, as getting and returning use the same key. That each user has connections of his own
  is not true of the code, and not claimed.
- A failed node leaves a nil in the cache (`RemoveHandleFromCache`, line 101), on which every
  later request of the user fails until a login.
- Operations that fail may starve a waiting client: `Close` hands nothing to `connReqs`
  (channel.go:202-213), and a `Get` that comes later does not queue behind it.
- `Get` queues without looking at the idle channel again under the lock
  (channel.go:130-137): a client may be forgotten until another one returns a connection.
- An export ends at the last multiple of four hours after its start, and a range of four
  hours or less is empty; failed chunks are left out of a successful response
  (`Complete`). Fields after a symbol column are shifted (`FieldsInPlace`).

Log (`RetainsNewest`):

- `openNew` takes any error of `osStat` for a missing file (logger.go:215), and opens the file
  that is still there with `O_TRUNC`: its records are lost. This is the one exception of
  `RetainsNewest`; where the file can be examined it has been moved (`MovedBeforeCreated`, proved on the
  way to `RetainsNewest`).

Requests (`AnswerIsDocumented` and `OutcomeIsOwn` name these):

- `ProtobufProducer` writes nothing, so that protobuf answers are empty; a client that
  insists on JSON, or sends a body of that type, gets the fields of a reader.
- get-cluster and get-node leave out required fields (disk and cpu figures), and more of them
  while another request refreshes the information.
- `lastUpdate` is set before the information is fetched and `lastError` never: after a failed
  refresh, partial information is answered with 200 for five seconds.
- A type of answer that is not offered is refused (406) only if the request has no body.
- Only login documents its 401.

Configuration and lifecycle (`PlainOnlyWithoutTLS`, `CutOnlyAfterGrace`):

- A key that the file lacks replaces a default by zero (config.go:134), three numbers
  apart; without `tls_port` https is served on a port of the system's choice, while
  the http listener redirects to port 0.
- qdb_rest and the service do not parse the flags of `Server`, so that the grace period is
  zero instead of the 15 seconds of server.go:74: requests are cut at once.
- `handleShutdown` stops waiting after the first listener that fails (line 444).
- The interactive generator asks for ever: numbers of type uint are never set
  (generator.go:76-81), so that `validate` never agrees. It panics where the input ends
  (line 39), and stores nothing for a TLS port that is no integer.
- The service's `Stop` does not wait, and panics before there is a server.

## 5. What is proved

From the named assumptions of the modules alone (`PoolAssumption`, `CacheAssumption`,
`LogAssumption`, `PrometheusAssumption`, `CsvAssumption`, `InformationAssumption`, `RequestsAssumption`,
`ServerAssumption`: bounds are naturals, null values are no members, nodes and connections
are finitely many, a port is a number), for any number of clients, users, pools, requests,
nodes, records, configurations, and any faults.

**ConnectionPoolProofs.** `TypeOK` and `QueueIsExact` are inductive together: a `Put`
hands over to the head of the queue, whose place in the code follows from
`QueueIsExact` only. On top of them `Ownership`: besides `Exclusive`, no two pools have
opened the same connection, and whatever is idle or held is open in some pool, which is
what gives `Usable`. `Counts` uses it: a close takes a connection that is open in the
pool that counts it. `NothingLost` and `ChannelFits` (an idle channel holds at most
PoolSize) follow, and with them `AllParkedIsFew`: when all clients wait, every open
connection is idle, so that there are at most PoolSize; but whoever parks last saw
2*PoolSize. Hence `NeverAllParkedCorrect`, for PoolSize > 0. `PoolImplementsLeases` maps each
step to a step of HandleLeases or a stutter. Two action properties say what `Release` does to
calls that are under way: `ReleasedOnlyShrinksCorrect`, a released pool never gains a connection
nor comes back into use; and `StrandedForGoodCorrect`, the reason why `WaitersServed` speaks of
pools in use only: a client that is parked on a pool when that is released stays parked, because
by `QueueIsExact` only a hand-over could wake it, and a `Put` into a released pool makes none.

**HandleCacheProofs.** `CachedPoolIsLiveCorrect`. The invariant adds that the
pool which a login remembers is not in the cache any more when the login is about to release it:
pools are used once, so that a concurrent login cannot put it back.

**HandleCustodyProofs.** The pool's lemmas, lifted to the handlers. ConnectionPool promises
`Ownership` to clients that put a handle back where they got it; handlers do not, so a
handle may be idle in a pool that did not open it. `Custody` is what is left of
`Ownership` then, and `CountIsExact` is what is lost. `Located` is the pool's invariant
with `Custody`, together with where each handler keeps its handle; it gives
`CacheExclusiveCorrect`, `CacheUsableCorrect` and `CacheTypeCorrect`. `Separated` adds to
`UserIsolation` that a pool serves one user for ever, and that every request uses a pool of the
user that its principal begins with: `UserIsolationCorrect`, for any map `Before` that is
idempotent. `HandlerMove` says what a handler's step does to handles, from
which `CacheImplementsLeases` follows by the pool's own refinement. `CacheImplementsAccounts`
refines `AccountLeases` step by step: a handle's account is the owner of the pool that has it in `open`,
which is one pool (`Custody`), and `Separated` says that it is put only into pools of this owner.
With the promise of the abstract specification (the lemma `AccountsPromise`) this gives
`HandlersKeepAccountsApart`: whoever leases a handle is on its account and the only one to have it.
`OrphansHaveCausesCorrect` and `LeaksHaveCausesCorrect` are completeness results: for
any number of users, slots and pools, these are all the ways in which a pool or a connection is lost. They need what `Located` says of
the places of pools and handles, and the second one that a pool has nothing before it is created.
`CacheReleasedOnlyShrinks` and `CacheStrandedForGood` carry the pool's two action properties
over to the handlers: a request that waits for a connection of the pool which a login replaces
never gets an answer.

**CsvExportProofs.** `ChunksOfRange` computes the chunks: step i of a range of q whole steps
is chunk i, from which no instant before `Covered` is missed (`ChunksCover`), and chunks do not
overlap. The field lemmas compare two counts of positions, the cursor's and the column's: the
cursor is never ahead, and level with the column as long as every position was read.
`Ordered` strengthens `InOrder` by what is still to come: the rows left are later than what
has been written, and earlier than the chunks left. `Exported` follows each row that was there
at the beginning: behind the goroutine it is written or its chunk failed, in the
goroutine's chunk it is written or left. `InOrderCorrect`, `CompleteCorrect`,
`FieldsInPlaceCorrect` and `TypeCorrect` follow. `CsvAssumption` says that the null value of the
pipe is no line.

**LogRotationProofs.** `TypeCorrect`: `IndType` adds that the file is closed before it
is moved aside and that one listing never both removes and compresses a backup.
`SizeLimitCorrect`: `IndSize` adds that a record at `append` fits.
`RetainsNewestCorrect`, without the fault `collision`, and but for the truncation after a
failed stat: `IndRetain` says that whatever the mill has
on its list to remove has expired, and what has expired stays so, since new backups only make
it older (`ExpiredStays`); that no log file exists when one is created, unless its status
could not be read; and that a backup is
removed only when its compressed form is complete. `MillCaughtUpCorrect`: `IndMill` relates
what the last listing leaves to be done to the backups that may have been added since, for
which nobody has woken the mill yet; how many those are depends on the writer's place.
`ReadsInOrderCorrect`, with `collision`, too: the backups by their times and then the log file
hold the records in the order of writing, and no record is in two files. `IndOrder` adds that no
backup has a time after now; it needs a clock that does not go back, which `Tick` assumes.

**PrometheusClientProofs.** `TypeCorrect` is split in the requests' places
(`LoopOK`) and the rest (`DataOK`). `OneHandleCorrect`: whoever sets up holds the mutex
and there is no handle yet. `PushFitsCorrect`: tables only grow, hence what a writer has seen
is still there when it alters the table. `AckedIsStoredCorrect`: what the loop of a writer
has passed is stored, and nothing is stored behind a gap. Three more say what the retries do:
`TablesAreAskedCorrect`, tables only get columns that a series of their metric asks for;
`RefusedByOthersCorrect`, a batch that the cluster can store is refused only when its table has
changed since it was examined; and `LeakedForGoodCorrect`, the other half of `prom_lock`: once `SetupHandle` has
failed, nothing unlocks the mutex and no request gets past `GetHandle`. The first two are why
`RetriesSucceed` holds: each refusal is another request's progress, of which there is a bound.

**RequestsProofs.** `InformationIsOneFetchCorrect`: while a refresh is alone, `Progress` says
how far the shared variables have got at each of its steps; in its loop the list has exactly
the nodes that are done, each once, and the map the same but for the one at hand. `IndInfo` adds that no
second refresh is under way while `lone` holds. The other theorems are about requests:
`HandlerIsOwn`, that the registry finds each operation's own handler, and
`StagesAgree`, that the generated stages authorize exactly what the description secures, are
lemmas about the tables, and replace `Server(r)` by `op[r]` everywhere. `IndRequests` then says which
errors a request can have at which place, and that one which runs alone finds its own
error in the shared variable. `OnlyAuthorizedCorrect`, `OutcomeIsOwnCorrect` and
`TypeCorrect` follow. `AnswerIsDocumentedCorrect`: `IndAnswers` says that what a handler
returned is documented for its operation until it is written; `IndFilled` says when the
information can be null: once a refresh has begun, one is under way or the information is
complete (`Begun`), and nobody has a pointer to it before (`ClusterLacks`).
`ImplementsContractCorrect` refines ApiContract, one step of the pipeline at a time, from
`IndRequests`, `IndAnswers` and `IndContract`: who is being authorized has not been before, and an
empty answer is one of an operation that offers protobuf. With the contract's own promise (the lemma
`ContractHonours`) this gives `ServerHonoursContract`: nobody is served a protected operation
without a good token, and every reply is one of its operation or a refusal before its handler.

**ServerLifecycleProofs.** `IndType` adds when schemes and listeners may be chosen.
`PlainOnlyWithoutTLSCorrect`: a configuration that passes `Check` with the keys of a secured
cluster has a certificate (`SecuredHasCertificate`), and it does not change while there are
listeners. `CutOnlyAfterGraceCorrect`: before the grace period is over a listener answers
only when it has no request. `FlagsWin`: a flag that differs from its default wins. Two results
stand behind `ShutdownEnds`, for any number of clients: `ShutdownNeverStuckCorrect`, after an
interrupt some goroutine can always go on and none has to wait for a client; and
`AlwaysForwardCorrect`, every move of a goroutine takes it nearer to its end, as four distances
measure it, and none takes another one farther.

**Only model-checked.** Liveness (`WaitersServed`, `ReleaseDrains`, `RetriesSucceed`,
`ResponseEnds`, `ShutdownEnds`), which needs fairness and ENABLED. Every invariant, action
property and refinement that the passing runs check is proved, too.

**Only proved.** These hold of the instances of section 3 as well, but no run checks them:
`Exclusive`, `Usable` and `ImplementsLeases` of the handlers (`pool_safety` checks them
of the pool), `OnlyAuthorized` (ApiContract implies it of what is protected), what the
two abstract specifications promise, of the server, `ReleasedOnlyShrinks`, `StrandedForGood`,
`TablesAreAsked`, `RefusedByOthers`, `LeakedForGood`, `ReadsInOrder`, `ShutdownNeverStuck` and `AlwaysForward`.

## 6. What is not modelled

- Building and parsing tokens (cryptography of a library): what a token comes to is an input
  of `Authorize`. Connecting to the cluster (calls of the C client) is an action that succeeds or fails.
- The contents of answers to queries and to Prometheus reads, the formatting of CSV fields.
- The URL builders of the generated code, which nothing calls; models without a check of
  their own; gzip, CORS and the file server, which transform a response and keep no state;
  the unix socket, which no program enables; installing the Windows service.
- The handle that each readiness probe opens and never closes: `StatusReadiness` has the
  probe's answers only.
- `Rotate` and `Close` of the logger, which nothing calls. What the C client appends to the
  log file by itself (`qdb.SetLogFile`, configure_qdb_api_rest.go:236): `Logger.size` does not
  count it, so that `SizeLimit` is about what the logger writes.
- A series with a label called value, which no table can hold (client.go:188):
  PrometheusClient has it, and `RetriesSucceed` leaves it out.
- A pool size of 0, in which every `Get` parks: it is assumed away in HandleCache and the runs.
- `HandleCache` does not bound the connections of a pool: handles that change pools make their
  counts drift, so that `CountIsExact` and `WithinMaxActive` hold for the pool by itself only.
- Two rotations in one millisecond would overwrite a backup (logger.go:255). LogRotation
  has this as the fault `collision`, which `log_safety` leaves out.
- The goroutine of an export whose client has left: it blocks on its pipe. CsvExport has the
  state, and no property asks anything of it.

## 7. Plan

Done: everything of section 2, and the theorems of section 5. Left, in this order:

1. The readiness probe's handles and the drift of the pools' counts in HandleCache.
2. The middleware chain as operators on a response.
