----------------------------- MODULE Operations -----------------------------
(***************************************************************************)
(* What the generated code says of the operations of the API, as tables:   *)
(*                                                                         *)
(*   XRoute       the route in FlatSwaggerJSON, from which the router is   *)
(*                built (cmd and apps pass it to loads.Embedded);          *)
(*   XDocumented  the answers in SwaggerJSON, which clients are shown;     *)
(*   XStages      what the generated ServeHTTP calls, in its order;        *)
(*   XParams      what its BindRequest asks for;                           *)
(*   XResponses   the answers that can be constructed, with their codes    *)
(*                and bodies.                                              *)
(*                                                                         *)
(* The five parts are in five files (restapi/embedded_spec.go and          *)
(* restapi/operations): whether they agree, and what a client really gets  *)
(* when the handlers of configure_qdb_api_rest.go use them, is what module *)
(* Requests is about.  A schema is a name; examples, summaries and tags    *)
(* are left out.  A parameter of a path is written as the router writes    *)
(* it, :id for {id}.                                                       *)
(***************************************************************************)
EXTENDS Naturals, Sequences, FiniteSets

JSON == "application/json"
CSV == "text/csv"
Protobuf == "application/x-protobuf"

Route(method, path, secured, consumes, produces) ==
    [method |-> method, path |-> path, secured |-> secured,
     consumes |-> consumes, produces |-> produces]

Response(code, body) == [code |-> code, body |-> body]

\* BindRequest: how the body is read, and which query parameters are required.
Params(body, required) == [body |-> body, required |-> required]

\* ServeHTTP of an operation with security, and of one without.
Secured == <<"authorize", "bind", "handle", "respond">>
Open    == <<"bind", "handle", "respond">>

-----------------------------------------------------------------------------
(* The probes.                                                             *)

StatusLivenessRoute == Route("GET", "/status/liveness", FALSE, <<JSON>>, <<JSON>>)
StatusLivenessDocumented == {Response(200, "none"), Response(500, "QdbError")}
StatusLivenessStages == Open
StatusLivenessParams == Params("none", {})
StatusLivenessResponses ==
    [OK |-> Response(200, "none"), InternalServerError |-> Response(500, "QdbError")]

StatusReadinessRoute == Route("GET", "/status/readiness", FALSE, <<JSON>>, <<JSON>>)
StatusReadinessDocumented == {Response(200, "none"), Response(500, "QdbError")}
StatusReadinessStages == Open
StatusReadinessParams == Params("none", {})
StatusReadinessResponses ==
    [OK |-> Response(200, "none"), InternalServerError |-> Response(500, "QdbError")]

-----------------------------------------------------------------------------
(* Login.                                                                  *)

LoginRoute == Route("POST", "/login", FALSE, <<JSON>>, <<JSON>>)
LoginDocumented == {Response(200, "Token"), Response(401, "QdbError")}
LoginStages == Open
LoginParams == Params("json", {})
LoginResponses ==
    [OK |-> Response(200, "Token"), Unauthorized |-> Response(401, "QdbError")]

-----------------------------------------------------------------------------
(* Queries, tags and options.                                              *)

PostQueryRoute == Route("POST", "/query", TRUE, <<JSON>>, <<JSON>>)
PostQueryDocumented ==
    {Response(200, "QueryResult"), Response(400, "QdbError"), Response(500, "QdbError")}
\* Mutated ServeHTTP: the operation is generated from a description that has no
\* security.
PostQueryStages_Open == Open

PostQueryStages == Secured
PostQueryParams == Params("json", {})
PostQueryResponses ==
    [OK |-> Response(200, "QueryResult"), BadRequest |-> Response(400, "QdbError"),
     InternalServerError |-> Response(500, "QdbError")]

GetTagsRoute == Route("GET", "/tags", TRUE, <<JSON>>, <<JSON>>)
GetTagsDocumented ==
    {Response(200, "QueryResult"), Response(400, "QdbError"), Response(500, "QdbError")}
GetTagsStages == Secured
GetTagsParams == Params("none", {})
GetTagsResponses ==
    [OK |-> Response(200, "QueryResult"), BadRequest |-> Response(400, "QdbError"),
     InternalServerError |-> Response(500, "QdbError")]

GetMaxInBufferSizeRoute == Route("GET", "/option/max-in-buffer-size", TRUE, <<JSON>>, <<JSON>>)
GetMaxInBufferSizeDocumented == {Response(200, "int64"), Response(400, "QdbError")}
GetMaxInBufferSizeStages == Secured
GetMaxInBufferSizeParams == Params("none", {})
GetMaxInBufferSizeResponses ==
    [OK |-> Response(200, "int64"), BadRequest |-> Response(400, "QdbError")]

GetParallelismRoute == Route("GET", "/option/parallelism", TRUE, <<JSON>>, <<JSON>>)
GetParallelismDocumented == {Response(200, "int64"), Response(400, "QdbError")}
GetParallelismStages == Secured
GetParallelismParams == Params("none", {})
GetParallelismResponses ==
    [OK |-> Response(200, "int64"), BadRequest |-> Response(400, "QdbError")]

-----------------------------------------------------------------------------
(* The cluster.                                                            *)

GetClusterRoute == Route("GET", "/cluster", TRUE, <<JSON>>, <<JSON>>)
GetClusterDocumented ==
    {Response(200, "Cluster"), Response(400, "QdbError"), Response(500, "QdbError")}
GetClusterStages == Secured
GetClusterParams == Params("none", {})
GetClusterResponses ==
    [OK |-> Response(200, "Cluster"), BadRequest |-> Response(400, "QdbError"),
     InternalServerError |-> Response(500, "QdbError")]

GetNodeRoute == Route("GET", "/cluster/nodes/:id", TRUE, <<JSON>>, <<JSON>>)
GetNodeDocumented ==
    {Response(200, "Node"), Response(400, "QdbError"), Response(404, "string"),
     Response(500, "QdbError")}
GetNodeStages == Secured
GetNodeParams == Params("none", {})
GetNodeResponses ==
    [OK |-> Response(200, "Node"), BadRequest |-> Response(400, "QdbError"),
     NotFound |-> Response(404, "string"), InternalServerError |-> Response(500, "QdbError")]

-----------------------------------------------------------------------------
(* CSV export and Prometheus: bodies that a reader delivers ("binary").    *)

GetTableCsvRoute == Route("GET", "/tables/:name.csv", TRUE, <<JSON>>, <<CSV>>)
GetTableCsvDocumented ==
    {Response(200, "binary"), Response(400, "none"), Response(500, "none")}
GetTableCsvStages == Secured
GetTableCsvParams == Params("none", {"start", "end"})
GetTableCsvResponses ==
    [OK |-> Response(200, "binary"), BadRequest |-> Response(400, "none"),
     InternalServerError |-> Response(500, "none")]

PrometheusReadRoute == Route("POST", "/prometheus/read", FALSE, <<Protobuf>>, <<Protobuf>>)
PrometheusReadDocumented == {Response(200, "binary"), Response(500, "QdbError")}
PrometheusReadStages == Open
PrometheusReadParams == Params("raw", {})
PrometheusReadResponses ==
    [OK |-> Response(200, "binary"), InternalServerError |-> Response(500, "QdbError")]

PrometheusWriteRoute == Route("POST", "/prometheus/write", FALSE, <<Protobuf>>, <<Protobuf>>)
PrometheusWriteDocumented == {Response(200, "none"), Response(500, "QdbError")}
PrometheusWriteStages == Open
PrometheusWriteParams == Params("raw", {})
PrometheusWriteResponses ==
    [OK |-> Response(200, "none"), InternalServerError |-> Response(500, "QdbError")]

-----------------------------------------------------------------------------
(* The schemas of the bodies that are assembled from shared variables.     *)

\* The required properties, as the documentation has them.
ClusterRequired == {"memoryTotal", "memoryUsed", "diskTotal", "diskUsed", "nodes", "status"}
NodeRequired == {"id", "os", "quasardbVersion", "memoryTotal", "memoryUsed",
                 "diskTotal", "diskUsed", "cpuTotal", "cpuUsed"}
StatusEnum == {"stable", "unstable", "unreachable"}

\* What Cluster.Validate and Node.Validate complain about in a value given as a
\* function on the properties that are not null.  Nothing calls them for an
\* answer.
ClusterErrors(m) ==
    (ClusterRequired \ DOMAIN m)
        \cup {f \in DOMAIN m : f = "status" /\ m[f] \notin StatusEnum}
NodeErrors(fields) == NodeRequired \ fields

-----------------------------------------------------------------------------
(* The tables as the router and the handlers use them.                     *)

Operation(route, documented, stages, params, responses) ==
    [route |-> route, documented |-> documented, stages |-> stages,
     params |-> params, responses |-> responses]

Api ==
  [get_cluster |-> Operation(GetClusterRoute, GetClusterDocumented, GetClusterStages,
                             GetClusterParams, GetClusterResponses),
   get_node |-> Operation(GetNodeRoute, GetNodeDocumented, GetNodeStages,
                          GetNodeParams, GetNodeResponses),
   get_max_in_buffer_size |->
       Operation(GetMaxInBufferSizeRoute, GetMaxInBufferSizeDocumented,
                 GetMaxInBufferSizeStages, GetMaxInBufferSizeParams,
                 GetMaxInBufferSizeResponses),
   get_parallelism |->
       Operation(GetParallelismRoute, GetParallelismDocumented, GetParallelismStages,
                 GetParallelismParams, GetParallelismResponses),
   get_table_csv |-> Operation(GetTableCsvRoute, GetTableCsvDocumented, GetTableCsvStages,
                               GetTableCsvParams, GetTableCsvResponses),
   get_tags |-> Operation(GetTagsRoute, GetTagsDocumented, GetTagsStages,
                          GetTagsParams, GetTagsResponses),
   login |-> Operation(LoginRoute, LoginDocumented, LoginStages, LoginParams,
                       LoginResponses),
   post_query |-> Operation(PostQueryRoute, PostQueryDocumented, PostQueryStages,
                            PostQueryParams, PostQueryResponses),
   prometheusRead |->
       Operation(PrometheusReadRoute, PrometheusReadDocumented, PrometheusReadStages,
                 PrometheusReadParams, PrometheusReadResponses),
   prometheusWrite |->
       Operation(PrometheusWriteRoute, PrometheusWriteDocumented, PrometheusWriteStages,
                 PrometheusWriteParams, PrometheusWriteResponses),
   status_liveness |->
       Operation(StatusLivenessRoute, StatusLivenessDocumented, StatusLivenessStages,
                 StatusLivenessParams, StatusLivenessResponses),
   status_readiness |->
       Operation(StatusReadinessRoute, StatusReadinessDocumented, StatusReadinessStages,
                 StatusReadinessParams, StatusReadinessResponses)]

OperationIds == DOMAIN Api

-----------------------------------------------------------------------------
(* The registry of qdb_api_rest_api.go.                                    *)

DefaultConsumes == JSON
DefaultProduces == JSON

\* initHandlerCache: which generated handler serves a method and a path.
Handlers ==
    {<<"GET", "/cluster", "get_cluster">>,
     <<"GET", "/option/max-in-buffer-size", "get_max_in_buffer_size">>,
     <<"GET", "/cluster/nodes/:id", "get_node">>,
     <<"GET", "/option/parallelism", "get_parallelism">>,
     <<"GET", "/tables/:name.csv", "get_table_csv">>,
     <<"GET", "/tags", "get_tags">>,
     <<"POST", "/login", "login">>,
     <<"POST", "/query", "post_query">>,
     <<"POST", "/prometheus/read", "prometheusRead">>,
     <<"POST", "/prometheus/write", "prometheusWrite">>,
     <<"GET", "/status/liveness", "status_liveness">>,
     <<"GET", "/status/readiness", "status_readiness">>}

\* Mutated HandlerFor: the two options are registered the wrong way round, and
\* so are the tags and the CSV export.
HandlerFor_Swapped(method, path) ==
    CHOOSE id \in OperationIds :
        <<method, CASE path = "/tags" -> "/tables/:name.csv"
                    [] path = "/tables/:name.csv" -> "/tags"
                    [] OTHER -> path, id>> \in Handlers

\* The handler of a route: the route of an operation is looked up by its method
\* and its path, not by its name.
HandlerFor(method, path) ==
    CHOOSE id \in OperationIds : <<method, path, id>> \in Handlers

\* ConsumersFor and ProducersFor: what reads and writes a media type.
ConsumersFor(mediaTypes) ==
    [mt \in mediaTypes \cap {JSON, Protobuf} |->
        IF mt = JSON THEN "JSONConsumer" ELSE "ProtobufConsumer"]

ProducersFor(mediaTypes) ==
    [mt \in mediaTypes \cap {CSV, JSON, Protobuf} |->
        CASE mt = CSV -> "CsvProducer"
          [] mt = JSON -> "JSONProducer"
          [] mt = Protobuf -> "ProtobufProducer"]

-----------------------------------------------------------------------------
(* The media types of a request (vendor/github.com/go-openapi/runtime).    *)

WithDefault(types, default) ==
    IF \E i \in DOMAIN types : types[i] = default THEN types ELSE Append(types, default)

TypesIn(types) == {types[i] : i \in DOMAIN types}

\* The router adds the API's own media type to those of the operation.
Consumes(id) == WithDefault(Api[id].route.consumes, DefaultConsumes)
Produces(id) == WithDefault(Api[id].route.produces, DefaultProduces)

Anything == "*/*"
NoFormat == "no format"
NoBody == "no body"

\* NegotiateContentType, for an Accept header with one media type.
NegotiateContentType(accept, offers, default) ==
    CASE accept = Anything -> Head(offers)
      [] accept \in TypesIn(offers) -> accept
      [] OTHER -> default

\* BindValidRequest on the route of an operation, with the BindRequest of the
\* operation that serves it: the code of the error a request is refused with,
\* or 0.  A request that has a body is not refused for what it accepts: the type
\* of its body is the default of the negotiation.
BindValidRequest(id, server, contentType, accept, wellFormed) ==
    LET default == IF contentType = NoBody THEN NoFormat ELSE contentType
        body == Api[server].params.body
    IN CASE contentType \notin DOMAIN ConsumersFor(TypesIn(Consumes(id))) \cup {NoBody} -> 415
         [] NegotiateContentType(accept, Produces(id), default) = NoFormat -> 406
         [] body # "none" /\ contentType = NoBody -> 422
         [] body = "json" /\ ~wellFormed -> 400
         [] Api[server].params.required # {} /\ ~wellFormed -> 422
         [] OTHER -> 0

\* Respond: the producer that writes a body, the JSON producer if the request
\* accepts nothing that is offered.
ProducerOf(id, format) ==
    LET producers == ProducersFor(TypesIn(Produces(id)))
    IN IF format \in DOMAIN producers THEN producers[format]
       ELSE ProducersFor({DefaultProduces})[DefaultProduces]
=============================================================================
