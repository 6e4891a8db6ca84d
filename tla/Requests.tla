------------------------------ MODULE Requests ------------------------------
(***************************************************************************)
(* A request from its arrival to its answer: the generated ServeHTTP of    *)
(* its operation, authentication, binding, the handler in                  *)
(* restapi/configure_qdb_api_rest.go, content negotiation and the writing  *)
(* of the response.                                                        *)
(*                                                                         *)
(* Requests share the information about the cluster (ClusterInformation)   *)
(* and the variable err of configureAPI, which the tags handler and        *)
(* CsvProducer write: an interface value, that is, a type and a data word. *)
(* What happens to handles is in HandleCache: here a handler gets one or   *)
(* does not, and the cluster answers or fails.  Inputs are chosen where    *)
(* the code looks at them.                                                 *)
(***************************************************************************)
EXTENDS ClusterInformation, Operations

CONSTANT
    Loads       \* each says which operations a slot of Requests is used for

ASSUME RequestsAssumption ==
    /\ Loads \subseteq [Requests -> SUBSET OperationIds]
    /\ Null \notin OperationIds \cup {"regexp", "copy"}

VARIABLES
    load,       \* the load of this behaviour
    op,         \* the operation whose route a request matches
    place,      \* where the request is
    principal,  \* it has been authenticated
    producer,   \* what will write its body, by the negotiated media type
    own,        \* the error of its own expression or copy
    answer,     \* what the handler returns, then what the client gets
    errType, errData,  \* the two words of err in configureAPI
    alone       \* history: no other request ran at the same time

requestVars == <<load, op, place, principal, producer, own, answer, errType, errData, alone>>
vars == <<infoVars, requestVars>>

Answer(code, body, lacks, during) ==
    [code |-> code, body |-> body, lacks |-> lacks, during |-> during]
NoAnswer == Answer(0, "none", {}, FALSE)

\* The errors that reach the shared variable, by their Go types.
ErrorTypes == {"regexp", "copy"}

\* Why a handler panics, by its own input and the cluster or by others.  net/http
\* recovers, and the client gets no answer.
OwnCauses == {"refused", "unknown node", "empty range", "no matchers"}
Causes == OwnCauses \cup {"nil error", "torn error", "producer"}

RequestPlaces == {"idle", "authorize", "bind", "handle", "retrieve", "lookup",
                  "storeType", "storeData", "test", "report", "find", "produced",
                  "respond", "answered", "panicked"}

\* The variables have their types, and a request is inside RetrieveInformation
\* exactly while its handler has called it.
TypeOK ==
    /\ InfoTypeOK
    /\ load \in Loads
    /\ op \in [Requests -> OperationIds \cup {Null}]
    /\ place \in [Requests -> RequestPlaces]
    /\ principal \in [Requests -> BOOLEAN]
    /\ producer \in [Requests -> {"CsvProducer", "JSONProducer", "ProtobufProducer"}]
    /\ own \in [Requests -> ErrorTypes \cup {Null}]
    /\ errType \in ErrorTypes \cup {Null}
    /\ errData \in ErrorTypes \cup {Null}
    /\ alone \in [Requests -> BOOLEAN]
    /\ DOMAIN answer = Requests
    /\ \A r \in Requests : /\ op[r] = Null <=> place[r] = "idle"
                           /\ at[r] = "out" <=> place[r] # "retrieve"

Init ==
    /\ InfoInit
    /\ load \in Loads
    /\ op = [r \in Requests |-> Null]
    /\ place = [r \in Requests |-> "idle"]
    /\ principal = [r \in Requests |-> FALSE]
    /\ producer = [r \in Requests |-> "JSONProducer"]
    /\ own = [r \in Requests |-> Null]
    /\ answer = [r \in Requests |-> NoAnswer]
    /\ errType = Null /\ errData = Null
    /\ alone = [r \in Requests |-> TRUE]

At(r, p) == place[r] = p
Goto(r, p) == place' = [place EXCEPT ![r] = p]

\* The handler that the registry has for the request's route.
Server(r) == HandlerFor(Api[op[r]].route.method, Api[op[r]].route.path)

\* ServeHTTP goes on to its next stage.
Proceed(r) ==
    LET stages == Api[Server(r)].stages
    IN \E i \in 1..Len(stages)-1 : stages[i] = place[r] /\ Goto(r, stages[i+1])

\* The handler returns a responder.
Return(r, response) ==
    /\ Goto(r, "respond")
    /\ answer' = [answer EXCEPT ![r] = Answer(response.code, response.body, {}, FALSE)]

\* The error responder: ServeError writes the error's code and message as JSON.
Refuse(r, code) ==
    /\ Goto(r, "answered")
    /\ answer' = [answer EXCEPT ![r] = Answer(code, "Error", {}, FALSE)]

Panic(r, cause) ==
    /\ Goto(r, "panicked")
    /\ answer' = [answer EXCEPT ![r] = Answer(0, cause, {}, FALSE)]

-----------------------------------------------------------------------------
(* Arrival, authentication and binding.                                    *)

Arrive(r, id) ==
    /\ At(r, "idle")
    /\ op' = [op EXCEPT ![r] = id]
    /\ Goto(r, Head(Api[HandlerFor(Api[id].route.method, Api[id].route.path)].stages))
    /\ LET others == {s \in Requests \ {r} : ~At(s, "idle")}
       IN alone' = [s \in Requests |-> IF s = r THEN others = {} ELSE alone[s] /\ At(s, "idle")]
    /\ UNCHANGED <<infoVars, load, principal, producer, own, answer, errType, errData>>

\* What a token comes to: BearerAuth and URLParamAuth parse it, compare its
\* dates and, if the user has no pool, create one.  A cluster that refuses the
\* user makes CreatePool panic.
Tokens == {"missing", "invalid", "not yet valid", "expired", "refused", "good"}

\* The header is tried before the URL; the first that is accepted decides.
Authenticate(bearer, urlParam) ==
    CASE bearer \in {"good", "refused"} -> bearer
      [] urlParam \in {"good", "refused"} -> urlParam
      [] OTHER -> "unauthenticated"

Authorize(r) ==
    /\ At(r, "authorize")
    /\ \E bearer, urlParam \in Tokens :
         LET outcome == IF Api[op[r]].route.secured THEN Authenticate(bearer, urlParam)
                                                    ELSE "anonymous"
         IN /\ principal' = [principal EXCEPT ![r] = outcome = "good"]
            /\ \/ /\ outcome \in {"good", "anonymous"}
                  /\ Proceed(r)
                  /\ UNCHANGED answer
               \/ outcome = "refused" /\ Panic(r, "refused")
               \/ outcome = "unauthenticated" /\ Refuse(r, 401)
    /\ UNCHANGED <<infoVars, load, op, producer, own, errType, errData, alone>>

Bind(r) ==
    /\ At(r, "bind")
    /\ \E contentType \in {JSON, Protobuf, "application/octet-stream", NoBody},
          accept \in {Anything, JSON, CSV}, wellFormed \in BOOLEAN :
         LET code == BindValidRequest(op[r], Server(r), contentType, accept, wellFormed)
         IN IF code # 0
              THEN Refuse(r, code) /\ UNCHANGED producer
              ELSE /\ producer' = [producer EXCEPT ![r] = ProducerOf(op[r],
                          NegotiateContentType(accept, Produces(op[r]), NoFormat))]
                   /\ Proceed(r)
                   /\ UNCHANGED answer
    /\ UNCHANGED <<infoVars, load, op, principal, own, errType, errData, alone>>

-----------------------------------------------------------------------------
(* The handlers.                                                           *)

\* The handler of an operation is about to run.
Handles(r, id) == At(r, "handle") /\ Server(r) = id

\* A handler whose outcome depends on nothing that is shared.
Outcome(r, responses) ==
    /\ \E response \in responses : Return(r, response)
    /\ UNCHANGED <<infoVars, load, op, principal, producer, own, errType, errData, alone>>

\* CreatePool panics when the cluster refuses the user, instead of returning the
\* error that the handler answers with 401.
Login(r) ==
    /\ Handles(r, "login")
    /\ \/ Outcome(r, {LoginResponses.OK, LoginResponses.Unauthorized})
       \/ /\ Panic(r, "refused")
          /\ UNCHANGED <<infoVars, load, op, principal, producer, own, errType, errData, alone>>

StatusLiveness(r) ==
    Handles(r, "status_liveness") /\ Outcome(r, {StatusLivenessResponses.OK})

\* No handle, or no answer to the query or the statistics.
StatusReadiness(r) ==
    /\ Handles(r, "status_readiness")
    /\ Outcome(r, {StatusReadinessResponses.OK, StatusReadinessResponses.InternalServerError})

GetMaxInBufferSize(r) ==
    /\ Handles(r, "get_max_in_buffer_size")
    /\ Outcome(r, {GetMaxInBufferSizeResponses.OK, GetMaxInBufferSizeResponses.BadRequest})

GetParallelism(r) ==
    /\ Handles(r, "get_parallelism")
    /\ Outcome(r, {GetParallelismResponses.OK, GetParallelismResponses.BadRequest})

PostQuery(r) ==
    /\ Handles(r, "post_query")
    /\ Outcome(r, {PostQueryResponses.OK,                    \* the result
                   PostQueryResponses.BadRequest,            \* the query fails
                   PostQueryResponses.InternalServerError})  \* there is no handle

PrometheusWrite(r) ==
    /\ Handles(r, "prometheusWrite")
    /\ Outcome(r, {PrometheusWriteResponses.OK, PrometheusWriteResponses.InternalServerError})

\* For a query without matchers buildQuasarDbQuery asks for a slice of capacity -1.
PrometheusRead(r) ==
    /\ Handles(r, "prometheusRead")
    /\ \/ Outcome(r, {PrometheusReadResponses.OK, PrometheusReadResponses.InternalServerError})
       \/ /\ Panic(r, "no matchers")
          /\ UNCHANGED <<infoVars, load, op, principal, producer, own, errType, errData, alone>>

\* The export itself is in CsvExport.  A range that does not begin before its
\* end makes chunkRange ask for a slice of capacity -1.
GetTableCsv(r) ==
    /\ Handles(r, "get_table_csv")
    /\ \/ Outcome(r, {GetTableCsvResponses.OK,                   \* rows will follow
                      GetTableCsvResponses.BadRequest,           \* no time stamp
                      GetTableCsvResponses.InternalServerError}) \* no handle or no table
       \/ /\ Panic(r, "empty range")
          /\ UNCHANGED <<infoVars, load, op, principal, producer, own, errType, errData, alone>>

-----------------------------------------------------------------------------
(* The cluster and its nodes.                                              *)

\* Both handlers take the answer of the query handler when there is no handle.
RetrieveInformation(r) ==
    /\ At(r, "handle")
    /\ Server(r) \in {"get_cluster", "get_node"}
    /\ \/ Outcome(r, {PostQueryResponses.InternalServerError})
       \/ /\ Goto(r, "retrieve")
          /\ Call(r)
          /\ UNCHANGED <<load, op, principal, producer, own, answer, errType, errData, alone>>

\* get-cluster lets ErrUnstableCluster and ErrConnectionRefused pass.
GetCluster(r) ==
    /\ at[r] = "returned"
    /\ Server(r) = "get_cluster"
    /\ \/ Return(r, GetClusterResponses.OK)
       \/ err[r] # "none" /\ Return(r, GetClusterResponses.BadRequest)
    /\ Forget(r)
    /\ UNCHANGED <<load, op, principal, producer, own, errType, errData, alone>>

GetNode(r) ==
    /\ at[r] = "returned"
    /\ Server(r) = "get_node"
    /\ IF err[r] = "none" THEN Goto(r, "lookup") /\ UNCHANGED answer
                          ELSE Return(r, GetNodeResponses.BadRequest)
    /\ Forget(r)
    /\ UNCHANGED <<load, op, principal, producer, own, errType, errData, alone>>

\* The message about a node that is not in the map calls Error of nil.
LookupNode(r) ==
    /\ At(r, "lookup")
    /\ \E id \in Nodes : IF id \in known THEN Return(r, GetNodeResponses.OK)
                                         ELSE Panic(r, "unknown node")
    /\ UNCHANGED <<infoVars, load, op, principal, producer, own, errType, errData, alone>>

-----------------------------------------------------------------------------
(* The shared error of configureAPI.                                       *)

\* Mutated Compile: the variable is written only when there is an error.
Compile_Failures(r) ==
    /\ Handles(r, "get_tags")
    /\ \E e \in {Null, "regexp"} :
         /\ own' = [own EXCEPT ![r] = e]
         /\ Goto(r, IF e = Null THEN "test" ELSE "storeType")
    /\ UNCHANGED <<infoVars, load, op, principal, producer, answer, errType, errData, alone>>

\* The tags handler compiles the expression of the request, if it has one.
Compile(r) ==
    /\ Handles(r, "get_tags")
    /\ \E e \in {Null, "regexp"} :
         /\ own' = [own EXCEPT ![r] = e]
         /\ Goto(r, "storeType")
    /\ UNCHANGED <<infoVars, load, op, principal, producer, answer, errType, errData, alone>>

NoExpression(r) ==
    /\ Handles(r, "get_tags")
    /\ Goto(r, "find")
    /\ UNCHANGED <<infoVars, load, op, principal, producer, own, answer, errType, errData, alone>>

StoreType(r) ==
    /\ At(r, "storeType")
    /\ errType' = own[r]
    /\ Goto(r, "storeData")
    /\ UNCHANGED <<infoVars, load, op, principal, producer, own, answer, errData, alone>>

StoreData(r) ==
    /\ At(r, "storeData")
    /\ errData' = own[r]
    /\ Goto(r, IF Server(r) = "get_tags" THEN "test" ELSE "produced")
    /\ UNCHANGED <<infoVars, load, op, principal, producer, own, answer, errType, alone>>

TestErr(r) ==
    /\ At(r, "test")
    /\ Goto(r, IF errType = Null THEN "find" ELSE "report")
    /\ UNCHANGED <<infoVars, load, op, principal, producer, own, answer, errType, errData, alone>>

\* err.Error() on what the variable holds by now: nil, or an error of which
\* another request has written one word.
ReportErr(r) ==
    /\ At(r, "report")
    /\ \/ errType # Null /\ Return(r, GetTagsResponses.InternalServerError)
       \/ errType = Null /\ Panic(r, "nil error")
       \/ errType # Null /\ errType # errData /\ Panic(r, "torn error")
    /\ UNCHANGED <<infoVars, load, op, principal, producer, own, errType, errData, alone>>

\* No handle, no answer, or the tags: all of them if the expression is nil.
FindTags(r) ==
    /\ At(r, "find")
    /\ Outcome(r, {GetTagsResponses.InternalServerError, GetTagsResponses.BadRequest,
                   GetTagsResponses.OK})

-----------------------------------------------------------------------------
(* Writing the response.                                                   *)

\* ProtobufProducer is a dummy that writes nothing, and JSON cannot express a
\* reader: it writes the fields of one.
Encoded(writer, body) ==
    CASE body = "none" -> "none"
      [] writer = "ProtobufProducer" -> "none"
      [] writer = "JSONProducer" /\ body = "binary" -> "garbled"
      [] OTHER -> body

\* The information about the cluster, as the client gets it: the properties
\* that are not null, and the fields a handler fills in a node.
ClusterFields ==
    LET Given == (IF status = Null THEN {} ELSE {"status"})
                   \cup (IF nodes = Null THEN {} ELSE {"nodes"})
                   \cup (IF memory = Null THEN {} ELSE {"memoryTotal", "memoryUsed"})
    IN [f \in Given |-> IF f = "status" THEN status ELSE f]
NodeFields == {"id", "memoryTotal", "memoryUsed", "os", "quasardbVersion"}

\* A body that is null where its schema says that it is not.
Lacking(body) == CASE body = "Cluster" -> ClusterErrors(ClusterFields)
                   [] body = "Node" -> NodeErrors(NodeFields)
                   [] OTHER -> {}

\* Respond and WriteResponse.  A cluster is read while it is written: the
\* handler has returned a pointer to the shared variables.
Respond(r) ==
    /\ At(r, "respond")
    /\ ~(producer[r] = "CsvProducer" /\ answer[r].body # "none")
    /\ Goto(r, "answered")
    /\ answer' = [answer EXCEPT ![r] =
           Answer(@.code, Encoded(producer[r], @.body), Lacking(@.body),
                  \E s \in Requests \ {r} : Refreshing(s))]
    /\ UNCHANGED <<infoVars, load, op, principal, producer, own, errType, errData, alone>>

\* CsvProducer, on a reader: the copy ends, or the client leaves.  On anything
\* else it returns an error.
ProduceCsv(r) ==
    /\ At(r, "respond")
    /\ producer[r] = "CsvProducer"
    /\ \/ /\ answer[r].body = "binary"
          /\ \E e \in {Null, "copy"} : own' = [own EXCEPT ![r] = e]
          /\ Goto(r, "storeType")
          /\ UNCHANGED answer
       \/ /\ answer[r].body \notin {"binary", "none"}
          /\ Panic(r, "producer")
          /\ UNCHANGED own
    /\ UNCHANGED <<infoVars, load, op, principal, producer, errType, errData, alone>>

\* CsvProducer returns err, and WriteResponse panics if it is not nil.
Produced(r) ==
    /\ At(r, "produced")
    /\ IF errType = Null THEN Goto(r, "answered") /\ UNCHANGED answer
                         ELSE Panic(r, "producer")
    /\ UNCHANGED <<infoVars, load, op, principal, producer, own, errType, errData, alone>>

\* The request is over, and its slot free.
Leave(r) ==
    /\ place[r] \in {"answered", "panicked"}
    /\ op' = [op EXCEPT ![r] = Null]
    /\ Goto(r, "idle")
    /\ principal' = [principal EXCEPT ![r] = FALSE]
    /\ producer' = [producer EXCEPT ![r] = "JSONProducer"]
    /\ own' = [own EXCEPT ![r] = Null]
    /\ answer' = [answer EXCEPT ![r] = NoAnswer]
    /\ alone' = [alone EXCEPT ![r] = TRUE]
    /\ UNCHANGED <<infoVars, load, errType, errData>>

-----------------------------------------------------------------------------
\* A handler and a response read the shared information, too.
ReadsInfo(r) ==
    Reads(r) \cup (IF At(r, "lookup") THEN {"map"} ELSE {})
             \cup (IF At(r, "respond") /\ answer[r].body = "Cluster"
                   THEN {"status", "nodes"} ELSE {})

\* Two accesses to the information that are both about to happen, of which one
\* is a write: the outcome may be the end of the process.
DataRace ==
    /\ \E r, s \in Requests : r # s /\ Writes(r) \cap (Writes(s) \cup ReadsInfo(s)) # {}
    /\ crashed' = TRUE
    /\ UNCHANGED <<sharedInfo, localInfo, lone, last, requestVars>>

Handler(r) ==
    \/ Login(r) \/ StatusLiveness(r) \/ StatusReadiness(r)
    \/ GetMaxInBufferSize(r) \/ GetParallelism(r) \/ PostQuery(r)
    \/ PrometheusWrite(r) \/ PrometheusRead(r) \/ GetTableCsv(r)
    \/ RetrieveInformation(r) \/ GetCluster(r) \/ GetNode(r) \/ LookupNode(r)
    \/ Compile(r) \/ NoExpression(r) \/ TestErr(r) \/ ReportErr(r) \/ FindTags(r)

RequestStep(r) ==
    \/ Authorize(r) \/ Bind(r) \/ Handler(r)
    \/ StoreType(r) \/ StoreData(r)
    \/ Respond(r) \/ ProduceCsv(r) \/ Produced(r) \/ Leave(r)

Next == /\ ~crashed
        /\ \/ \E r \in Requests : \E id \in load[r] : Arrive(r, id)
           \/ \E r \in Requests : RequestStep(r)
           \/ \E r \in Requests : Retrieve(r) /\ UNCHANGED requestVars
           \/ Interval /\ UNCHANGED requestVars
           \/ DataRace

Spec == Init /\ [][Next]_vars

-----------------------------------------------------------------------------
(* Safety.                                                                 *)

\* No handler of an operation whose documentation demands a token runs for a
\* request that has not presented a good one: the description from which the
\* routes are built and the generated handlers agree on it.
OnlyAuthorized ==
    \A r \in Requests :
        place[r] \in {"handle", "retrieve", "lookup", "test", "find"} =>
            (Api[op[r]].route.secured <=> principal[r])

\* What the pipeline may answer before a handler runs.  No operation documents
\* it (but login, its own 401).
PipelineErrors == {Response(code, "Error") : code \in {400, 401, 406, 415, 422}}

\* An answer is one that the documentation of the operation has, or the pipeline,
\* but for these three: a body that is protobuf is empty; a reader is garbled for
\* a client that insists on JSON, or who sent his body with a type the answer
\* cannot have; what describes a cluster or a node lacks the fields nobody
\* fills, and while another request refreshes the information it may lack any.
DocumentedAnswer(r) ==
    LET a == answer[r]
        documented == Api[op[r]].documented \cup PipelineErrors
        binary == Response(200, "binary") \in documented
    IN /\ \/ Response(a.code, a.body) \in documented
          \/ a.body = "none" /\ producer[r] = "ProtobufProducer"
               /\ \E d \in documented : d.code = a.code
          \/ a.body = "garbled" /\ a.code = 200 /\ binary
               /\ producer[r] = "JSONProducer"
       /\ a.lacks \subseteq {"diskTotal", "diskUsed", "cpuTotal", "cpuUsed"} \/ a.during

\* Whoever is answered gets a documented answer of the operation he asked for.
AnswerIsDocumented == \A r \in Requests : At(r, "answered") => DocumentedAnswer(r)

\* A request that no other one overlaps ends as its own input and the cluster
\* have it: it reports an error of an expression if its own has one, takes the
\* end of a copy for a failure if its own failed, and panics only where the code
\* does so by itself.  Whatever earlier requests have left in the shared
\* variables makes no difference.
OutcomeIsOwn ==
    \A r \in Requests : alone[r] =>
        /\ At(r, "report") => own[r] = "regexp"
        /\ At(r, "find") => own[r] = Null
        /\ At(r, "answered") => own[r] # "copy"
        /\ At(r, "panicked") =>
              \/ answer[r].body \in OwnCauses
              \/ answer[r].body = "producer" /\ own[r] = "copy"

\* Every request gets an answer, and be it a refusal.  A pool that cannot be made,
\* an unknown node, an empty range and a read without matchers break this: see the
\* run requests_answered.
RequestsAreAnswered == \A r \in Requests : ~At(r, "panicked")

-----------------------------------------------------------------------------
(* The contract with the client.                                           *)

ProtectedIds == {id \in OperationIds : Api[id].route.secured}

\* What each operation may answer once its handler runs: what is documented, with
\* the exceptions of DocumentedAnswer.
Replies == [id \in OperationIds |->
    LET documented == Api[id].documented
    IN documented
       \cup {Response(d.code, "none") : d \in {e \in documented : Protobuf \in TypesIn(Produces(id))}}
       \cup {Response(200, "garbled") : d \in documented \cap {Response(200, "binary")}}]

Phase(r) ==
    CASE place[r] = "idle" -> "idle"
      [] place[r] \in {"authorize", "bind"} -> "received"
      [] place[r] = "answered" -> "replied"
      [] place[r] = "panicked" -> "aborted"
      [] OTHER -> "served"

phases == [r \in Requests |-> Phase(r)]

\* The code and the body that the client has got.
replies == [r \in Requests |-> IF At(r, "answered") THEN Response(answer[r].code, answer[r].body)
                               ELSE Null]

Contract == INSTANCE ApiContract WITH
    Operations <- OperationIds, Protected <- ProtectedIds, None <- Null,
    asked <- op, admitted <- principal, phase <- phases, reply <- replies

\* However requests interleave and whatever they leave in the shared variables,
\* each has one reply at most, which nothing changes any more, and which is one
\* of its own operation, served only to whom it may be.
ImplementsContract == Contract!Spec
=============================================================================
