--------------------------- MODULE RequestsProofs ---------------------------
(***************************************************************************)
(* What TLAPS proves of Requests, ClusterInformation and Operations, for   *)
(* any number of requests in flight, any mix of operations and any nodes.  *)
(***************************************************************************)
EXTENDS Requests, FiniteSetTheorems, TLAPS

-----------------------------------------------------------------------------
(* The information about the cluster.                                      *)

\* A list has each node of a set once.
Lists(list, set) ==
    /\ list \in Seq(Nodes)
    /\ {list[i] : i \in DOMAIN list} = set
    /\ Len(list) = Cardinality(set)

LEMMA ListsEmpty == Lists(<<>>, {})
  BY FS_EmptySet DEF Lists

LEMMA ListsAppend ==
  ASSUME NEW list, NEW set \in SUBSET Nodes, NEW n \in Nodes, n \notin set, Lists(list, set)
  PROVE  Lists(Append(list, n), set \cup {n})
<1> DEFINE longer == Append(list, n)
<1>1. longer \in Seq(Nodes) /\ Len(longer) = Len(list) + 1
  BY DEF Lists
<1>2. \A i \in 1..Len(list) : longer[i] = list[i]
  BY DEF Lists
<1>3. longer[Len(list) + 1] = n
  BY DEF Lists
<1>4. {longer[i] : i \in DOMAIN longer} = set \cup {n}
  <2>1. DOMAIN longer = 1..(Len(list) + 1) /\ DOMAIN list = 1..Len(list) /\ Len(list) \in Nat
    BY <1>1 DEF Lists
  <2>2. \A i \in DOMAIN longer : longer[i] \in set \cup {n}
    BY <1>2, <1>3, <2>1 DEF Lists
  <2>3. \A m \in set \cup {n} : \E i \in DOMAIN longer : longer[i] = m
    <3>1. \A m \in set : \E i \in DOMAIN list : list[i] = m
      BY DEF Lists
    <3> QED
      BY <1>2, <1>3, <2>1, <3>1
  <2> HIDE DEF longer
  <2> QED
    BY <2>2, <2>3
<1>5. Cardinality(set \cup {n}) = Cardinality(set) + 1
  <2>1. IsFiniteSet(set)
    BY FS_Subset, InformationAssumption
  <2> QED
    BY <2>1, FS_AddElement
<1> QED
  BY <1>1, <1>4, <1>5 DEF Lists

\* The types of the information, and that the loop has a list and a node.
IndInfoType ==
    /\ InfoTypeOK
    /\ \A r \in Requests :
         /\ at[r] \in {"append", "record"} => node[r] \in Nodes
         /\ at[r] \in {"remakeMap", "next", "append", "record", "totals"} => nodes \in Seq(Nodes)

Looping == {"next", "append", "record", "totals"}

\* How far a request is that refreshes the information by itself.
Progress(r) ==
    LET done == stats[r] \ rest[r]
        fetched == [stats |-> stats[r], err |-> err[r]]
    IN /\ at[r] \in {"setStatus", "resetNodes", "remakeMap"} \cup Looping => last = fetched
       /\ at[r] \in {"resetNodes", "remakeMap"} \cup Looping =>
             status = IF last.err = "none" THEN "stable" ELSE "unstable"
       /\ at[r] = "remakeMap" => nodes = <<>>
       /\ at[r] \in Looping => rest[r] \subseteq stats[r]
       /\ at[r] = "next" => known = done /\ Lists(nodes, done)
       /\ at[r] = "append" => /\ node[r] \in done /\ known = done \ {node[r]}
                              /\ Lists(nodes, known) /\ read[r] = nodes
       /\ at[r] = "record" => /\ node[r] \in done /\ known = done \ {node[r]}
                              /\ Lists(nodes, done)
       /\ at[r] = "totals" => known = stats[r] /\ Lists(nodes, stats[r])

\* While the last refresh to begin is alone, it is the only one, and after it the
\* information is what it received.
IndInfo ==
    lone =>
      /\ \A r, s \in Requests : Refreshing(r) /\ Refreshing(s) => r = s
      /\ \A r \in Requests : Refreshing(r) => Progress(r)
      /\ status # Null /\ (\A r \in Requests : ~Refreshing(r)) =>
           /\ known = last.stats /\ memory = last.stats
           /\ Lists(nodes, last.stats)
           /\ status = IF last.err = "none" THEN "stable" ELSE "unstable"

\* What a step does to the information.
InfoNext ==
    \/ \E r \in Requests : Retrieve(r) \/ Call(r) \/ (at[r] = "returned" /\ Forget(r))
    \/ Interval
    \/ UNCHANGED <<sharedInfo, localInfo, lone, last>> /\ crashed' \in BOOLEAN

LEMMA StepsOfInfo ==
  ASSUME IndInfoType, [Next]_vars
  PROVE  InfoNext
<1>1. CASE UNCHANGED infoVars
  BY <1>1 DEF InfoNext, infoVars, IndInfoType, InfoTypeOK
<1>2. CASE \E r \in Requests : Retrieve(r)
  BY <1>2 DEF InfoNext
<1>3. CASE Interval \/ DataRace
  BY <1>3 DEF InfoNext, DataRace
<1>4. ASSUME NEW r \in Requests, RetrieveInformation(r) PROVE InfoNext
  BY <1>1, <1>4 DEF InfoNext, RetrieveInformation, Outcome
<1>5. ASSUME NEW r \in Requests, GetCluster(r) \/ GetNode(r) PROVE InfoNext
  BY <1>5 DEF InfoNext, GetCluster, GetNode
<1>6. ASSUME NEW r \in Requests,
             \/ Authorize(r) \/ Bind(r) \/ StoreType(r) \/ StoreData(r)
             \/ Respond(r) \/ ProduceCsv(r) \/ Produced(r) \/ Leave(r)
      PROVE  UNCHANGED infoVars
  BY <1>6 DEF Authorize, Bind, StoreType, StoreData, Respond, ProduceCsv, Produced, Leave
<1>7. ASSUME NEW r \in Requests,
             \/ Login(r) \/ StatusLiveness(r) \/ StatusReadiness(r) \/ GetMaxInBufferSize(r)
             \/ GetParallelism(r) \/ PostQuery(r) \/ PrometheusWrite(r) \/ PrometheusRead(r)
             \/ GetTableCsv(r) \/ LookupNode(r) \/ Compile(r) \/ NoExpression(r)
             \/ TestErr(r) \/ ReportErr(r) \/ FindTags(r)
      PROVE  UNCHANGED infoVars
  BY <1>7 DEF Login, StatusLiveness, StatusReadiness, GetMaxInBufferSize, GetParallelism, PostQuery,
       PrometheusWrite, PrometheusRead, GetTableCsv, LookupNode, Compile, NoExpression, TestErr,
       ReportErr, FindTags, Outcome
<1>8. ASSUME NEW r \in Requests, NEW id \in load[r], Arrive(r, id) PROVE UNCHANGED infoVars
  BY <1>8 DEF Arrive
<1>9. CASE UNCHANGED vars
  BY <1>1, <1>9 DEF vars
<1> QED
  BY <1>1, <1>2, <1>3, <1>4, <1>5, <1>6, <1>7, <1>8, <1>9 DEF Next, RequestStep, Handler

LEMMA InfoTypeInit == Init => IndInfoType
<1> SUFFICES ASSUME InfoInit PROVE IndInfoType
  BY DEF Init
<1>1. Nothing \in [stats : SUBSET Nodes, err : Errors]
  BY DEF Nothing, Errors
<1>2. read \in [Requests -> Seq(Nodes)]
  BY DEF InfoInit
<1>3. last \in [stats : SUBSET Nodes, err : Errors]
  BY <1>1 DEF InfoInit
<1>4. /\ fresh \in BOOLEAN /\ crashed \in BOOLEAN /\ lone \in BOOLEAN
      /\ status = Null /\ nodes = Null /\ memory = Null /\ known \subseteq Nodes
  BY DEF InfoInit
<1>5. /\ at \in [Requests -> Places] /\ stats \in [Requests -> SUBSET Nodes]
      /\ rest \in [Requests -> SUBSET Nodes] /\ node \in [Requests -> Nodes \cup {Null}]
      /\ err \in [Requests -> Errors] /\ \A r \in Requests : at[r] = "out"
  BY DEF InfoInit, Places, Errors
<1> QED
  BY <1>2, <1>3, <1>4, <1>5 DEF IndInfoType, InfoTypeOK

LEMMA InfoTypeStep ==
  ASSUME IndInfoType, InfoNext
  PROVE  IndInfoType'
<1> USE DEF Places, Errors, Nothing, Move, sharedInfo, localInfo
<1>1. CASE Interval \/ (UNCHANGED <<sharedInfo, localInfo, lone, last>> /\ crashed' \in BOOLEAN)
  BY <1>1 DEF Interval, IndInfoType, InfoTypeOK
<1>2. ASSUME NEW r \in Requests, at[r] = "returned" /\ Forget(r) PROVE IndInfoType'
  BY <1>2 DEF Forget, IndInfoType, InfoTypeOK
<1>3. ASSUME NEW r \in Requests, Call(r) \/ IsFresh(r) \/ Stamp(r) \/ ReadStatus(r)
      PROVE  IndInfoType'
  BY <1>3, ZenonT(30) DEF Call, IsFresh, Stamp, ReadStatus, IndInfoType, InfoTypeOK
<1>12. ASSUME NEW r \in Requests, IsStale(r) PROVE IndInfoType'
  <2>1. last' \in [stats : SUBSET Nodes, err : Errors] /\ lone' \in BOOLEAN
    BY <1>12 DEF IsStale
  <2> QED
    BY <1>12, <2>1 DEF IsStale, IndInfoType, InfoTypeOK
<1>4. ASSUME NEW r \in Requests, NewStatus(r) \/ SetStatus(r) PROVE IndInfoType'
  BY <1>4 DEF NewStatus, SetStatus, IndInfoType, InfoTypeOK
<1>5. ASSUME NEW r \in Requests, Fetch(r) PROVE IndInfoType'
  <2>1. PICK S \in SUBSET Nodes, e \in Errors :
           /\ stats' = [stats EXCEPT ![r] = S] /\ err' = [err EXCEPT ![r] = e]
           /\ last' = IF lone THEN [stats |-> S, err |-> e] ELSE Nothing
    BY <1>5 DEF Fetch
  <2>2. last' \in [stats : SUBSET Nodes, err : Errors]
    BY <2>1
  <2>3. /\ at' = [at EXCEPT ![r] = "setStatus"]
        /\ UNCHANGED <<fresh, status, nodes, memory, known, crashed, rest, node, read, lone>>
    BY <1>5 DEF Fetch
  <2>4. /\ at' \in [Requests -> Places] /\ stats' \in [Requests -> SUBSET Nodes]
        /\ err' \in [Requests -> Errors]
    BY <2>1, <2>3 DEF IndInfoType, InfoTypeOK
  <2>5. InfoTypeOK'
    BY <2>2, <2>3, <2>4 DEF IndInfoType, InfoTypeOK
  <2>6. \A s \in Requests :
           at'[s] = at[s] \/ at'[s] \notin {"append", "record", "remakeMap", "next", "totals"}
    BY <2>3 DEF IndInfoType, InfoTypeOK
  <2> QED
    BY <2>3, <2>5, <2>6 DEF IndInfoType
<1>6. ASSUME NEW r \in Requests, ResetNodes(r) PROVE IndInfoType'
  <2>1. nodes' = <<>> /\ nodes' \in Seq(Nodes)
    BY <1>6 DEF ResetNodes
  <2> QED
    BY <1>6, <2>1 DEF ResetNodes, IndInfoType, InfoTypeOK
<1>7. ASSUME NEW r \in Requests, RemakeMap(r) \/ EndOfNodes(r) PROVE IndInfoType'
  BY <1>7, ZenonT(30) DEF RemakeMap, EndOfNodes, IndInfoType, InfoTypeOK
<1>8. ASSUME NEW r \in Requests, NextNode(r) PROVE IndInfoType'
  <2>1. PICK n \in rest[r] : /\ node' = [node EXCEPT ![r] = n]
                             /\ rest' = [rest EXCEPT ![r] = @ \ {n}]
    BY <1>8 DEF NextNode
  <2>2. n \in Nodes /\ nodes \in Seq(Nodes)
    BY <1>8, <2>1 DEF NextNode, IndInfoType, InfoTypeOK
  <2>3. /\ at' = [at EXCEPT ![r] = "append"] /\ read' = [read EXCEPT ![r] = nodes]
        /\ UNCHANGED <<fresh, status, nodes, memory, known, crashed, stats, err, lone, last>>
    BY <1>8 DEF NextNode
  <2> QED
    BY <2>1, <2>2, <2>3 DEF IndInfoType, InfoTypeOK
<1>9. ASSUME NEW r \in Requests, AppendNode(r) PROVE IndInfoType'
  <2>1. read[r] \in Seq(Nodes) /\ node[r] \in Nodes
    BY <1>9 DEF AppendNode, IndInfoType, InfoTypeOK
  <2>2. nodes' \in Seq(Nodes) /\ <<>> \in Seq(Nodes)
    BY <1>9, <2>1 DEF AppendNode
  <2>3. /\ at' = [at EXCEPT ![r] = "record"] /\ read' = [read EXCEPT ![r] = <<>>]
        /\ UNCHANGED <<fresh, status, memory, known, crashed, stats, rest, node, err, lone, last>>
    BY <1>9 DEF AppendNode
  <2> QED
    BY <2>1, <2>2, <2>3 DEF IndInfoType, InfoTypeOK
<1>10. ASSUME NEW r \in Requests, RecordNode(r) PROVE IndInfoType'
  BY <1>10, ZenonT(30) DEF RecordNode, IndInfoType, InfoTypeOK
<1>11. ASSUME NEW r \in Requests, SetTotals(r) PROVE IndInfoType'
  BY <1>11 DEF SetTotals, IndInfoType, InfoTypeOK
<1>13. ASSUME NEW r \in Requests, Retrieve(r) \/ Call(r) \/ (at[r] = "returned" /\ Forget(r))
       PROVE  IndInfoType'
  BY <1>3, <1>2, <1>4, <1>5, <1>6, <1>7, <1>8, <1>9, <1>10, <1>11, <1>12, <1>13 DEF Retrieve
<1> QED
  BY <1>1, <1>2, <1>13 DEF InfoNext

LEMMA InfoTypeCorrect == Spec => []IndInfoType
<1>1. IndInfoType /\ [Next]_vars => IndInfoType'
  BY StepsOfInfo, InfoTypeStep
<1> QED
  BY <1>1, InfoTypeInit, PTL DEF Spec

\* A step of a refresh that is by itself: nobody else refreshes before or after it.
LEMMA LoneStep ==
  ASSUME IndInfoType, IndInfo, NEW r \in Requests, Refreshing(r), lone, lone' = lone,
         at' \in [Requests -> Places], \A s \in Requests \ {r} : at'[s] = at[s],
         Refreshing(r)' => Progress(r)',
         ~Refreshing(r)' /\ status' # Null =>
           /\ known' = last'.stats /\ memory' = last'.stats
           /\ Lists(nodes', last'.stats)
           /\ status' = IF last'.err = "none" THEN "stable" ELSE "unstable"
  PROVE  IndInfo'
<1>1. \A s \in Requests : Refreshing(s) => s = r
  BY DEF IndInfo
<1>2. \A s \in Requests \ {r} : ~Refreshing(s)'
  BY <1>1 DEF Refreshing
<1> QED
  BY <1>2 DEF IndInfo, Lists

LEMMA InfoStep ==
  ASSUME IndInfoType, IndInfo, InfoNext
  PROVE  IndInfo'
<1>0. IndInfoType'
  BY InfoTypeStep
<1> USE DEF Move, sharedInfo, localInfo
<1>1. ASSUME UNCHANGED <<status, nodes, memory, known, localInfo, lone, last>> PROVE IndInfo'
  <2>1. \A r \in Requests : Refreshing(r)' = Refreshing(r)
    BY <1>1 DEF Refreshing
  <2>2. \A r \in Requests : Progress(r) => Progress(r)'
    BY <1>1 DEF Progress, Lists, Looping
  <2> QED
    BY <1>1, <2>1, <2>2 DEF IndInfo, Lists
<1>2. ASSUME NEW r \in Requests, UNCHANGED <<status, nodes, memory, known, stats, rest, node, read, lone, last>>,
             UNCHANGED err \/ \A s \in Requests \ {r} : err'[s] = err[s],
             ~Refreshing(r), ~Refreshing(r)', \A s \in Requests \ {r} : at'[s] = at[s]
      PROVE  IndInfo'
  <2>1. \A s \in Requests : Refreshing(s)' <=> Refreshing(s)
    BY <1>2 DEF Refreshing
  <2>2. \A s \in Requests : Refreshing(s) => at'[s] = at[s] /\ err'[s] = err[s]
    BY <1>2
  <2>3. \A s \in Requests : Refreshing(s) /\ Progress(s) => Progress(s)'
    BY <1>2, <2>2 DEF Progress, Lists, Looping
  <2> QED
    BY <1>2, <2>1, <2>3 DEF IndInfo, Lists
<1>3. ASSUME NEW r \in Requests, Call(r) \/ IsFresh(r) \/ (at[r] = "returned" /\ Forget(r))
      PROVE  IndInfo'
  BY <1>0, <1>2, <1>3 DEF Call, IsFresh, Forget, Refreshing, IndInfoType, InfoTypeOK
<1>4. ASSUME NEW r \in Requests, IsStale(r) PROVE IndInfo'
  <2>1. lone' = (\A s \in Requests \ {r} : ~Refreshing(s)) /\ at' = [at EXCEPT ![r] = "stamp"]
    BY <1>4 DEF IsStale
  <2>2. SUFFICES ASSUME lone' PROVE IndInfo'
    BY DEF IndInfo
  <2>3. \A s \in Requests \ {r} : ~Refreshing(s)'
    BY <2>1, <2>2 DEF Refreshing, IndInfoType, InfoTypeOK
  <2>4. at'[r] = "stamp"
    BY <2>1 DEF IndInfoType, InfoTypeOK
  <2>5. Progress(r)' /\ Refreshing(r)'
    BY <2>4 DEF Progress, Refreshing, Looping
  <2> QED
    BY <2>3, <2>5 DEF IndInfo
<1>5. ASSUME NEW r \in Requests,
             \/ Stamp(r) \/ ReadStatus(r) \/ NewStatus(r) \/ Fetch(r) \/ SetStatus(r)
             \/ ResetNodes(r) \/ RemakeMap(r) \/ NextNode(r) \/ AppendNode(r) \/ RecordNode(r)
             \/ EndOfNodes(r) \/ SetTotals(r)
      PROVE  IndInfo'
  <2>1. lone' = lone /\ Refreshing(r)
    BY <1>5 DEF Stamp, ReadStatus, NewStatus, Fetch, SetStatus, ResetNodes, RemakeMap, NextNode,
         AppendNode, RecordNode, EndOfNodes, SetTotals, Refreshing
  <2>2. SUFFICES ASSUME lone PROVE IndInfo'
    BY <2>1 DEF IndInfo
  <2>3. Progress(r) /\ at' \in [Requests -> Places] /\ \A s \in Requests \ {r} : at'[s] = at[s]
    BY <1>0, <1>5, <2>1, <2>2 DEF IndInfo, Stamp, ReadStatus, NewStatus, Fetch, SetStatus, ResetNodes,
         RemakeMap, NextNode, AppendNode, RecordNode, EndOfNodes, SetTotals, IndInfoType, InfoTypeOK
  <2>4. SUFFICES /\ Refreshing(r)' => Progress(r)'
                 /\ ~Refreshing(r)' /\ status' # Null =>
                      /\ known' = last'.stats /\ memory' = last'.stats
                      /\ Lists(nodes', last'.stats)
                      /\ status' = IF last'.err = "none" THEN "stable" ELSE "unstable"
    BY <2>1, <2>2, <2>3, LoneStep
  <2>5. at[r] \in Places /\ stats[r] \in SUBSET Nodes /\ rest[r] \in SUBSET Nodes /\ err[r] \in Errors
    BY DEF IndInfoType, InfoTypeOK
  <2>6. CASE Stamp(r) \/ ReadStatus(r) \/ NewStatus(r)
    <3>1. at'[r] \in {"status", "newStatus", "fetch"}
      BY <2>6 DEF Stamp, ReadStatus, NewStatus, IndInfoType, InfoTypeOK
    <3> QED
      BY <3>1 DEF Progress, Refreshing, Looping
  <2>7. CASE Fetch(r)
    <3>1. at'[r] = "setStatus" /\ last' = [stats |-> stats'[r], err |-> err'[r]]
      BY <2>2, <2>7 DEF Fetch, IndInfoType, InfoTypeOK
    <3> QED
      BY <3>1 DEF Progress, Refreshing, Looping
  <2>8. CASE SetStatus(r)
    <3>1. /\ at'[r] = "resetNodes" /\ last = [stats |-> stats[r], err |-> err[r]]
          /\ UNCHANGED <<last, stats, err, rest>>
          /\ status' = IF err[r] = "none" THEN "stable" ELSE "unstable"
      BY <2>3, <2>8 DEF SetStatus, Progress, IndInfoType, InfoTypeOK
    <3> QED
      BY <3>1 DEF Progress, Refreshing, Looping
  <2>9. CASE ResetNodes(r)
    <3>1. /\ at'[r] = "remakeMap" /\ at[r] = "resetNodes" /\ nodes' = <<>>
          /\ UNCHANGED <<last, stats, err, rest, status>>
      BY <2>9 DEF ResetNodes, IndInfoType, InfoTypeOK
    <3> QED
      BY <2>3, <3>1 DEF Progress, Refreshing, Looping
  <2>10. CASE RemakeMap(r)
    <3>1. /\ at'[r] = "next" /\ at[r] = "remakeMap" /\ known' = {} /\ rest'[r] = stats[r]
          /\ UNCHANGED <<last, stats, err, status, nodes>>
      BY <2>10 DEF RemakeMap, IndInfoType, InfoTypeOK
    <3>2. Lists(nodes', {}) /\ stats[r] \ rest'[r] = {}
      BY <2>3, <3>1, ListsEmpty DEF Progress
    <3> QED
      BY <2>3, <3>1, <3>2 DEF Progress, Refreshing, Looping
  <2>11. CASE NextNode(r)
    <3>1. PICK n \in rest[r] : node'[r] = n /\ rest'[r] = rest[r] \ {n}
      BY <2>11 DEF NextNode, IndInfoType, InfoTypeOK
    <3>2. /\ at'[r] = "append" /\ at[r] = "next" /\ read'[r] = nodes
          /\ UNCHANGED <<last, stats, err, status, nodes, known>>
      BY <2>11 DEF NextNode, IndInfoType, InfoTypeOK
    <3>3. n \in stats[r] /\ (stats[r] \ rest'[r]) \ {n} = stats[r] \ rest[r]
      BY <2>3, <3>1, <3>2 DEF Progress, Looping
    <3>4. known = stats[r] \ rest[r] /\ Lists(nodes, known)
      BY <2>3, <3>2 DEF Progress
    <3>5. Lists(nodes', known')
      BY <3>2, <3>4 DEF Lists
    <3>6. /\ node'[r] \in stats'[r] \ rest'[r] /\ known' = (stats'[r] \ rest'[r]) \ {node'[r]}
          /\ rest'[r] \subseteq stats'[r] /\ read'[r] = nodes'
      BY <2>3, <3>1, <3>2, <3>3, <3>4 DEF Progress, Looping
    <3> QED
      BY <2>3, <3>2, <3>5, <3>6 DEF Progress, Refreshing, Looping
  <2>12. CASE AppendNode(r)
    <3> DEFINE done == stats[r] \ rest[r]
    <3>1. /\ at'[r] = "record" /\ at[r] = "append" /\ nodes' = Append(read[r], node[r])
          /\ UNCHANGED <<last, stats, err, status, known, rest, node>>
      BY <2>12 DEF AppendNode, IndInfoType, InfoTypeOK
    <3>2. node[r] \in done /\ known = done \ {node[r]} /\ Lists(nodes, known) /\ read[r] = nodes
      BY <2>3, <3>1 DEF Progress
    <3>3. Lists(nodes', known \cup {node[r]})
      BY <2>5, <3>1, <3>2, ListsAppend DEF IndInfoType, InfoTypeOK
    <3>4. known \cup {node[r]} = done
      BY <3>2
    <3> QED
      BY <2>3, <3>1, <3>2, <3>3, <3>4 DEF Progress, Refreshing, Looping
  <2>13. CASE RecordNode(r)
    <3>1. /\ at'[r] = "next" /\ at[r] = "record" /\ known' = known \cup {node[r]}
          /\ UNCHANGED <<last, stats, err, status, nodes, rest>>
      BY <2>13 DEF RecordNode, IndInfoType, InfoTypeOK
    <3> QED
      BY <2>3, <3>1 DEF Progress, Refreshing, Looping, Lists
  <2>14. CASE EndOfNodes(r)
    <3>1. /\ at'[r] = "totals" /\ at[r] = "next" /\ rest[r] = {}
          /\ UNCHANGED <<last, stats, err, status, nodes, known, rest>>
      BY <2>14 DEF EndOfNodes, IndInfoType, InfoTypeOK
    <3>2. stats[r] \ rest[r] = stats[r]
      BY <3>1
    <3> QED
      BY <2>3, <3>1, <3>2 DEF Progress, Refreshing, Looping
  <2>15. CASE SetTotals(r)
    <3>1. /\ at'[r] = "returned" /\ at[r] = "totals" /\ memory' = stats[r]
          /\ UNCHANGED <<last, status, nodes, known>>
      BY <2>15 DEF SetTotals, IndInfoType, InfoTypeOK
    <3> QED
      BY <2>3, <3>1 DEF Progress, Refreshing, Looping
  <2> QED
    BY <1>5, <2>6, <2>7, <2>8, <2>9, <2>10, <2>11, <2>12, <2>13, <2>14, <2>15
<1>6. ASSUME NEW r \in Requests, Retrieve(r) \/ Call(r) \/ (at[r] = "returned" /\ Forget(r))
      PROVE  IndInfo'
  <2>1. CASE Call(r) \/ IsFresh(r) \/ (at[r] = "returned" /\ Forget(r))
    BY <1>3, <2>1
  <2>2. CASE IsStale(r)
    BY <1>4, <2>2
  <2>3. CASE \/ Stamp(r) \/ ReadStatus(r) \/ NewStatus(r) \/ Fetch(r) \/ SetStatus(r)
             \/ ResetNodes(r) \/ RemakeMap(r) \/ NextNode(r) \/ AppendNode(r) \/ RecordNode(r)
             \/ EndOfNodes(r) \/ SetTotals(r)
    BY <1>5, <2>3
  <2> QED
    BY <1>6, <2>1, <2>2, <2>3 DEF Retrieve
<1>7. CASE Interval
  BY <1>1, <1>7 DEF Interval
<1>8. CASE UNCHANGED <<sharedInfo, localInfo, lone, last>> /\ crashed' \in BOOLEAN
  BY <1>1, <1>8
<1> QED
  BY <1>6, <1>7, <1>8 DEF InfoNext

\* However many requests read and refresh the information, and whatever the cluster
\* answers: if the last refresh began by itself and no other has overlapped it, the
\* shared variables describe one answer of the cluster, each of its nodes once.
THEOREM InformationIsOneFetchCorrect == Spec => []InformationIsOneFetch
<1>1. Init => IndInfo
  BY DEF Init, InfoInit, IndInfo, Refreshing
<1>2. IndInfoType /\ IndInfo /\ [Next]_vars => IndInfo'
  BY StepsOfInfo, InfoStep
<1>3. IndInfo => InformationIsOneFetch
  BY DEF IndInfo, InformationIsOneFetch, Lists
<1> QED
  BY <1>1, <1>2, <1>3, InfoTypeCorrect, PTL DEF Spec

-----------------------------------------------------------------------------
(* The tables of the generated code.                                       *)

LEMMA OperationIdsAre ==
  OperationIds = {"get_cluster", "get_node", "get_max_in_buffer_size", "get_parallelism",
                  "get_table_csv", "get_tags", "login", "post_query", "prometheusRead",
                  "prometheusWrite", "status_liveness", "status_readiness"}
  BY DEF OperationIds, Api

\* The rows of the tables that the proofs look at.
LEMMA RoutesAre ==
  /\ Api["get_cluster"].route.method = "GET" /\ Api["get_cluster"].route.path = "/cluster"
  /\ Api["get_node"].route.method = "GET" /\ Api["get_node"].route.path = "/cluster/nodes/:id"
  /\ Api["get_max_in_buffer_size"].route.method = "GET" /\ Api["get_max_in_buffer_size"].route.path = "/option/max-in-buffer-size"
  /\ Api["get_parallelism"].route.method = "GET" /\ Api["get_parallelism"].route.path = "/option/parallelism"
  /\ Api["get_table_csv"].route.method = "GET" /\ Api["get_table_csv"].route.path = "/tables/:name.csv"
  /\ Api["get_tags"].route.method = "GET" /\ Api["get_tags"].route.path = "/tags"
  /\ Api["login"].route.method = "POST" /\ Api["login"].route.path = "/login"
  /\ Api["post_query"].route.method = "POST" /\ Api["post_query"].route.path = "/query"
  /\ Api["prometheusRead"].route.method = "POST" /\ Api["prometheusRead"].route.path = "/prometheus/read"
  /\ Api["prometheusWrite"].route.method = "POST" /\ Api["prometheusWrite"].route.path = "/prometheus/write"
  /\ Api["status_liveness"].route.method = "GET" /\ Api["status_liveness"].route.path = "/status/liveness"
  /\ Api["status_readiness"].route.method = "GET" /\ Api["status_readiness"].route.path = "/status/readiness"
  BY DEF Api, Operation, Route, GetClusterRoute, GetNodeRoute, GetMaxInBufferSizeRoute, GetParallelismRoute,
       GetTableCsvRoute, GetTagsRoute, LoginRoute, PostQueryRoute, PrometheusReadRoute,
       PrometheusWriteRoute, StatusLivenessRoute, StatusReadinessRoute

LEMMA MediaAre ==
  /\ Api["get_cluster"].route.produces = <<JSON>>
  /\ Api["get_node"].route.produces = <<JSON>>
  /\ Api["get_max_in_buffer_size"].route.produces = <<JSON>>
  /\ Api["get_parallelism"].route.produces = <<JSON>>
  /\ Api["get_table_csv"].route.produces = <<CSV>>
  /\ Api["get_tags"].route.produces = <<JSON>>
  /\ Api["login"].route.produces = <<JSON>>
  /\ Api["post_query"].route.produces = <<JSON>>
  /\ Api["prometheusRead"].route.produces = <<Protobuf>>
  /\ Api["prometheusWrite"].route.produces = <<Protobuf>>
  /\ Api["status_liveness"].route.produces = <<JSON>>
  /\ Api["status_readiness"].route.produces = <<JSON>>
  BY DEF Api, Operation, Route, GetClusterRoute, GetNodeRoute, GetMaxInBufferSizeRoute, GetParallelismRoute,
       GetTableCsvRoute, GetTagsRoute, LoginRoute, PostQueryRoute, PrometheusReadRoute,
       PrometheusWriteRoute, StatusLivenessRoute, StatusReadinessRoute

LEMMA SecuredAre ==
  /\ Api["get_cluster"].route.secured = TRUE /\ Api["get_cluster"].stages = Secured
  /\ Api["get_node"].route.secured = TRUE /\ Api["get_node"].stages = Secured
  /\ Api["get_max_in_buffer_size"].route.secured = TRUE /\ Api["get_max_in_buffer_size"].stages = Secured
  /\ Api["get_parallelism"].route.secured = TRUE /\ Api["get_parallelism"].stages = Secured
  /\ Api["get_table_csv"].route.secured = TRUE /\ Api["get_table_csv"].stages = Secured
  /\ Api["get_tags"].route.secured = TRUE /\ Api["get_tags"].stages = Secured
  /\ Api["login"].route.secured = FALSE /\ Api["login"].stages = Open
  /\ Api["post_query"].route.secured = TRUE /\ Api["post_query"].stages = Secured
  /\ Api["prometheusRead"].route.secured = FALSE /\ Api["prometheusRead"].stages = Open
  /\ Api["prometheusWrite"].route.secured = FALSE /\ Api["prometheusWrite"].stages = Open
  /\ Api["status_liveness"].route.secured = FALSE /\ Api["status_liveness"].stages = Open
  /\ Api["status_readiness"].route.secured = FALSE /\ Api["status_readiness"].stages = Open
  BY DEF Api, Operation, Route, GetClusterRoute, GetNodeRoute, GetMaxInBufferSizeRoute, GetParallelismRoute,
       GetTableCsvRoute, GetTagsRoute, LoginRoute, PostQueryRoute, PrometheusReadRoute,
       PrometheusWriteRoute, StatusLivenessRoute, StatusReadinessRoute, GetClusterStages,
       GetNodeStages, GetMaxInBufferSizeStages, GetParallelismStages, GetTableCsvStages,
       GetTagsStages, LoginStages, PostQueryStages, PrometheusReadStages,
       PrometheusWriteStages, StatusLivenessStages, StatusReadinessStages

\* The registry has one handler for each route, that of the route's own operation.
THEOREM HandlerIsOwn ==
  ASSUME NEW id \in OperationIds
  PROVE  HandlerFor(Api[id].route.method, Api[id].route.path) = id
<1>1. ASSUME NEW method, NEW path, NEW other, <<method, path, other>> \in Handlers
      PROVE  other \in OperationIds /\ Api[other].route.path = path
  BY <1>1, RoutesAre, OperationIdsAre DEF Handlers
<1>2. <<Api[id].route.method, Api[id].route.path, id>> \in Handlers
  BY RoutesAre, OperationIdsAre DEF Handlers
<1>3. ASSUME NEW other \in OperationIds, Api[other].route.path = Api[id].route.path
      PROVE  other = id
  BY <1>3, RoutesAre, OperationIdsAre, SMTT(30)
<1>4. \A other \in OperationIds :
         <<Api[id].route.method, Api[id].route.path, other>> \in Handlers <=> other = id
  BY <1>1, <1>2, <1>3
<1> QED
  BY <1>4 DEF HandlerFor

\* The generated handlers authorize exactly the operations whose route is secured.
LEMMA StagesAgree ==
  ASSUME NEW id \in OperationIds
  PROVE  /\ Api[id].route.secured \in BOOLEAN
         /\ Api[id].stages = IF Api[id].route.secured THEN Secured ELSE Open
  BY SecuredAre, OperationIdsAre

LEMMA StagesAre ==
  /\ Head(Secured) = "authorize" /\ Head(Open) = "bind"
  /\ \A i \in 1..Len(Secured)-1 :
        /\ Secured[i] = "authorize" => Secured[i+1] = "bind"
        /\ Secured[i] = "bind" => Secured[i+1] = "handle"
  /\ \A i \in 1..Len(Open)-1 : Open[i] # "authorize" /\ (Open[i] = "bind" => Open[i+1] = "handle")
<1>1. Len(Secured) = 4 /\ Len(Open) = 3
  BY DEF Secured, Open
<1>2. /\ Secured[1] = "authorize" /\ Secured[2] = "bind" /\ Secured[3] = "handle"
      /\ Open[1] = "bind" /\ Open[2] = "handle"
  BY DEF Secured, Open
<1>3. \A i \in 1..3 : i = 1 \/ i = 2 \/ i = 3
  OBVIOUS
<1>4. \A i \in 1..2 : i = 1 \/ i = 2
  OBVIOUS
<1>5. Head(Secured) = "authorize" /\ Head(Open) = "bind"
  BY DEF Secured, Open
<1> QED
  BY <1>1, <1>2, <1>3, <1>4, <1>5

\* Only the export has answers that CsvProducer writes.
LEMMA CsvIsExport ==
  ASSUME NEW id \in OperationIds, NEW format
  PROVE  /\ ProducerOf(id, format) \in {"CsvProducer", "JSONProducer", "ProtobufProducer"}
         /\ ProducerOf(id, format) = "CsvProducer" => id = "get_table_csv"
<1>1. id # "get_table_csv" => Api[id].route.produces \in {<<JSON>>, <<Protobuf>>}
  BY MediaAre, OperationIdsAre
<1>2. JSON # CSV /\ JSON # Protobuf /\ CSV # Protobuf
  BY DEF JSON, CSV, Protobuf
<1>3. id # "get_table_csv" => CSV \notin TypesIn(Produces(id))
  BY <1>1, <1>2 DEF TypesIn, Produces, WithDefault, DefaultProduces
<1>4. ProducersFor({DefaultProduces})[DefaultProduces] = "JSONProducer"
  BY <1>2 DEF ProducersFor, DefaultProduces
<1>5. \A types : \A mt \in DOMAIN ProducersFor(types) :
         /\ ProducersFor(types)[mt] \in {"CsvProducer", "JSONProducer", "ProtobufProducer"}
         /\ ProducersFor(types)[mt] = "CsvProducer" => CSV \in types
  BY <1>2 DEF ProducersFor
<1> QED
  BY <1>3, <1>4, <1>5 DEF ProducerOf

-----------------------------------------------------------------------------
(* The requests.                                                           *)

RequestTypes ==
    /\ load \in Loads
    /\ op \in [Requests -> OperationIds \cup {Null}]
    /\ place \in [Requests -> RequestPlaces]
    /\ principal \in [Requests -> BOOLEAN]
    /\ producer \in [Requests -> {"CsvProducer", "JSONProducer", "ProtobufProducer"}]
    /\ own \in [Requests -> ErrorTypes \cup {Null}]
    /\ errType \in ErrorTypes \cup {Null}
    /\ errData \in ErrorTypes \cup {Null}
    /\ alone \in [Requests -> BOOLEAN]
    /\ DOMAIN answer = Requests

\* Where a request is, who it may be, and which error may be its own.
RequestOK(r) ==
    /\ op[r] = Null <=> place[r] = "idle"
    /\ place[r] = "idle" => ~principal[r] /\ producer[r] = "JSONProducer"
    /\ place[r] = "authorize" => Api[op[r]].route.secured
    /\ place[r] \notin {"idle", "authorize", "answered", "panicked"} =>
           (Api[op[r]].route.secured <=> principal[r])
    /\ place[r] \in {"idle", "authorize", "bind", "handle", "retrieve", "lookup"} => own[r] = Null
    /\ place[r] = "respond" => own[r] # "copy"
    /\ place[r] = "lookup" => op[r] = "get_node"
    /\ place[r] \in {"test", "report", "find"} => op[r] = "get_tags"
    /\ place[r] \in {"storeType", "storeData", "test", "report", "find"} /\ op[r] = "get_tags" =>
           own[r] # "copy"
    /\ place[r] \in {"storeType", "storeData", "produced"} /\ op[r] # "get_tags" =>
           own[r] # "regexp"
    /\ place[r] = "produced" => op[r] # "get_tags"
    /\ place[r] # "idle" /\ producer[r] = "CsvProducer" => op[r] = "get_table_csv"
    /\ place[r] = "respond" /\ op[r] = "get_table_csv" => answer[r].body \in {"binary", "none"}

\* A request that runs by itself finds its own error in the shared variable.
AloneOK(r) ==
    alone[r] /\ place[r] # "idle" =>
      /\ \A s \in Requests \ {r} : place[s] = "idle"
      /\ place[r] = "storeData" => errType = own[r]
      /\ place[r] \in {"test", "report"} => errType = own[r] /\ errData = own[r]
      /\ place[r] = "report" => own[r] # Null
      /\ place[r] = "find" => own[r] = Null
      /\ place[r] = "produced" => errType = own[r]
      /\ place[r] = "answered" => own[r] # "copy"
      /\ place[r] = "panicked" =>
           \/ answer[r].body \in OwnCauses
           \/ answer[r].body = "producer" /\ own[r] = "copy"

IndRequests ==
    /\ RequestTypes
    /\ \A r \in Requests : RequestOK(r) /\ AloneOK(r) /\ (at[r] = "out" <=> place[r] # "retrieve")

LEMMA RequestsInit == Init => IndRequests
<1> SUFFICES ASSUME Init PROVE IndRequests
  OBVIOUS
<1>1. RequestTypes
  BY RequestsAssumption DEF Init, RequestTypes, RequestPlaces, ErrorTypes
<1>2. ASSUME NEW r \in Requests
      PROVE  /\ place[r] = "idle" /\ own[r] = Null /\ op[r] = Null /\ principal[r] = FALSE
             /\ producer[r] = "JSONProducer" /\ at[r] = "out"
  BY DEF Init, InfoInit
<1> QED
  BY <1>1, <1>2 DEF IndRequests, RequestOK, AloneOK

LEMMA ServerIsOp ==
  ASSUME IndRequests, NEW r \in Requests, place[r] # "idle"
  PROVE  op[r] \in OperationIds /\ Server(r) = op[r]
<1>1. op[r] \in OperationIds
  BY DEF IndRequests, RequestTypes, RequestOK
<1> QED
  BY <1>1, HandlerIsOwn DEF Server

\* A step of one request.
LEMMA OwnStep ==
  ASSUME IndRequests, NEW r \in Requests, place[r] # "idle",
         RequestTypes', UNCHANGED alone,
         \A s \in Requests \ {r} :
            /\ op'[s] = op[s] /\ place'[s] = place[s] /\ principal'[s] = principal[s]
            /\ producer'[s] = producer[s] /\ own'[s] = own[s] /\ answer'[s] = answer[s]
            /\ at'[s] = at[s],
         RequestOK(r)', (\A s \in Requests \ {r} : place[s] = "idle") => AloneOK(r)',
         at'[r] = "out" <=> place'[r] # "retrieve"
  PROVE  IndRequests'
<1>1. ASSUME NEW s \in Requests \ {r}
      PROVE  RequestOK(s)' /\ AloneOK(s)' /\ (at'[s] = "out" <=> place'[s] # "retrieve")
  <2>1. RequestOK(s)
    BY DEF IndRequests
  <2>2. RequestOK(s)'
    BY <2>1 DEF RequestOK
  <2>3. ~(alone[s] /\ place[s] # "idle")
    BY DEF IndRequests, AloneOK
  <2> QED
    BY <2>2, <2>3 DEF AloneOK, IndRequests
<1>2. AloneOK(r)'
  <2>1. CASE alone[r]
    BY <2>1 DEF IndRequests, AloneOK
  <2>2. CASE ~alone[r]
    BY <2>2 DEF AloneOK
  <2> QED
    BY <2>1, <2>2
<1> QED
  BY <1>1, <1>2 DEF IndRequests

\* What a request does not change when it is answered or goes on.
Kept == <<infoVars, load, op, principal, producer, own, errType, errData, alone>>

LEMMA GotoIs ==
  ASSUME RequestTypes, NEW r \in Requests, NEW p \in RequestPlaces, Goto(r, p)
  PROVE  /\ place' \in [Requests -> RequestPlaces] /\ place'[r] = p
         /\ \A s \in Requests \ {r} : place'[s] = place[s]
  BY DEF RequestTypes, Goto

LEMMA AnswerIs ==
  ASSUME RequestTypes, NEW r \in Requests, NEW a, answer' = [answer EXCEPT ![r] = a]
  PROVE  /\ DOMAIN answer' = Requests /\ answer'[r] = a
         /\ \A s \in Requests \ {r} : answer'[s] = answer[s]
  BY DEF RequestTypes

LEMMA TypesAre == ASSUME IndRequests PROVE RequestTypes
  BY DEF IndRequests

LEMMA GoesTo ==
  ASSUME IndRequests, NEW r \in Requests, NEW p \in RequestPlaces, Goto(r, p)
  PROVE  place'[r] = p /\ \A s \in Requests \ {r} : place'[s] = place[s]
<1>1. RequestTypes
  BY TypesAre
<1> QED
  BY <1>1, GotoIs

LEMMA AnswersWith ==
  ASSUME IndRequests, NEW r \in Requests, NEW a, answer' = [answer EXCEPT ![r] = a]
  PROVE  /\ DOMAIN answer' = Requests /\ answer'[r] = a
         /\ \A s \in Requests \ {r} : answer'[s] = answer[s]
<1>1. RequestTypes
  BY TypesAre
<1> QED
  BY <1>1, AnswerIs

LEMMA NullIsNoError == Null # "regexp" /\ Null # "copy"
  BY RequestsAssumption

\* A handler, or the search for tags, answers.
LEMMA OutcomeStep ==
  ASSUME IndRequests, NEW r \in Requests, place[r] \in {"handle", "find"}, NEW responses,
         op[r] = "get_table_csv" => \A x \in responses : x.body \in {"binary", "none"},
         Outcome(r, responses)
  PROVE  IndRequests'
<1> USE DEF IndRequests
<1>1. PICK x \in responses : Return(r, x)
  BY DEF Outcome
<1>2. UNCHANGED Kept
  BY DEF Outcome, Kept
<1>3. place' \in [Requests -> RequestPlaces] /\ place'[r] = "respond"
      /\ \A s \in Requests \ {r} : place'[s] = place[s]
  BY <1>1, GotoIs DEF Return, RequestPlaces
<1>4. DOMAIN answer' = Requests /\ answer'[r].body = x.body
      /\ \A s \in Requests \ {r} : answer'[s] = answer[s]
  BY <1>1, AnswerIs DEF Return, Answer
<1>5. RequestTypes'
  BY <1>2, <1>3, <1>4 DEF RequestTypes, Kept
<1>6. RequestOK(r)'
  BY <1>2, <1>3, <1>4, NullIsNoError DEF RequestOK, Kept
<1>7. AloneOK(r)' \/ ~\A s \in Requests \ {r} : place[s] = "idle"
  BY <1>2, <1>3 DEF AloneOK, Kept
<1>8. at'[r] = "out" <=> place'[r] # "retrieve"
  BY <1>2, <1>3 DEF Kept, infoVars, localInfo
<1> HIDE DEF IndRequests
<1> QED
  BY <1>2, <1>3, <1>4, <1>5, <1>6, <1>7, <1>8, OwnStep DEF Kept, infoVars, localInfo

\* A request that goes on, with no answer yet, and leaves the errors alone.
LEMMA ProceedStep ==
  ASSUME IndRequests, NEW r \in Requests, NEW p \in RequestPlaces, p # "retrieve",
         place[r] \notin {"idle", "retrieve"},
         Goto(r, p), UNCHANGED Kept, UNCHANGED answer,
         RequestOK(r)', (\A s \in Requests \ {r} : place[s] = "idle") => AloneOK(r)'
  PROVE  IndRequests'
<1>1. place' \in [Requests -> RequestPlaces] /\ place'[r] = p
      /\ \A s \in Requests \ {r} : place'[s] = place[s]
  BY GotoIs DEF IndRequests
<1>2. RequestTypes'
  BY <1>1 DEF IndRequests, RequestTypes, Kept
<1>3. at'[r] = "out" <=> place'[r] # "retrieve"
  BY <1>1 DEF IndRequests, Kept, infoVars, localInfo
<1> QED
  BY <1>1, <1>2, <1>3, OwnStep DEF Kept, infoVars, localInfo

\* A handler panics by itself.
LEMMA PanicStep ==
  ASSUME IndRequests, NEW r \in Requests, place[r] \in {"handle", "lookup"},
         NEW cause \in OwnCauses,
         Panic(r, cause), UNCHANGED Kept
  PROVE  IndRequests'
<1>1. place' \in [Requests -> RequestPlaces] /\ place'[r] = "panicked"
      /\ \A s \in Requests \ {r} : place'[s] = place[s]
  BY GotoIs DEF IndRequests, Panic, RequestPlaces
<1>2. DOMAIN answer' = Requests /\ answer'[r].body = cause
      /\ \A s \in Requests \ {r} : answer'[s] = answer[s]
  BY AnswerIs DEF IndRequests, Panic, Answer
<1>3. RequestTypes'
  BY <1>1, <1>2 DEF IndRequests, RequestTypes, Kept
<1>4. RequestOK(r)'
  BY <1>1, <1>2 DEF IndRequests, RequestOK, Kept
<1>5. (\A s \in Requests \ {r} : place[s] = "idle") => AloneOK(r)'
  BY <1>1, <1>2 DEF AloneOK
<1>6. at'[r] = "out" <=> place'[r] # "retrieve"
  BY <1>1 DEF IndRequests, Kept, infoVars, localInfo
<1> QED
  BY <1>1, <1>2, <1>3, <1>4, <1>5, <1>6, OwnStep DEF Kept, infoVars, localInfo

LEMMA PlainHandlers ==
  ASSUME IndRequests, NEW r \in Requests,
         \/ Login(r) \/ StatusLiveness(r) \/ StatusReadiness(r)
         \/ GetMaxInBufferSize(r) \/ GetParallelism(r) \/ PostQuery(r)
         \/ PrometheusWrite(r) \/ PrometheusRead(r) \/ GetTableCsv(r) \/ FindTags(r)
  PROVE  IndRequests'
<1>1. CASE Login(r)
  <2>1. op[r] = "login" /\ place[r] = "handle"
    BY <1>1, ServerIsOp DEF Login, Handles, At
  <2>2. CASE Panic(r, "refused") /\ UNCHANGED Kept
    BY <2>1, <2>2, PanicStep DEF OwnCauses
  <2>3. CASE Outcome(r, {LoginResponses.OK, LoginResponses.Unauthorized})
    BY <2>1, <2>3, OutcomeStep
  <2> QED
    BY <1>1, <2>2, <2>3 DEF Login, Kept
<1>2. CASE GetTableCsv(r)
  <2>1. op[r] = "get_table_csv" /\ place[r] = "handle"
    BY <1>2, ServerIsOp DEF GetTableCsv, Handles, At
  <2>2. CASE Panic(r, "empty range") /\ UNCHANGED Kept
    BY <2>1, <2>2, PanicStep DEF OwnCauses
  <2> DEFINE responses == {GetTableCsvResponses.OK, GetTableCsvResponses.BadRequest,
                           GetTableCsvResponses.InternalServerError}
  <2>3. CASE Outcome(r, responses)
    <3>1. \A x \in responses : x.body \in {"binary", "none"}
      BY DEF GetTableCsvResponses, Response
    <3> QED
      BY <2>1, <2>3, <3>1, OutcomeStep
  <2> QED
    BY <1>2, <2>2, <2>3 DEF GetTableCsv, Kept
<1>3. CASE FindTags(r)
  <2>1. place[r] = "find" /\ op[r] = "get_tags"
    BY <1>3 DEF FindTags, At, IndRequests, RequestOK
  <2> QED
    BY <1>3, <2>1, OutcomeStep DEF FindTags
<1>4. CASE StatusLiveness(r) \/ StatusReadiness(r) \/ GetMaxInBufferSize(r)
           \/ GetParallelism(r) \/ PostQuery(r) \/ PrometheusWrite(r)
  <2>1. PICK responses : Outcome(r, responses)
    BY <1>4 DEF StatusLiveness, StatusReadiness, GetMaxInBufferSize, GetParallelism, PostQuery,
              PrometheusWrite
  <2>2. place[r] = "handle" /\ Server(r) # "get_table_csv"
    BY <1>4 DEF StatusLiveness, StatusReadiness, GetMaxInBufferSize, GetParallelism, PostQuery,
              PrometheusWrite, Handles, At
  <2>3. op[r] # "get_table_csv"
    BY <2>2, ServerIsOp
  <2> QED
    BY <2>1, <2>2, <2>3, OutcomeStep
<1>5. CASE PrometheusRead(r)
  <2>1. op[r] = "prometheusRead" /\ place[r] = "handle"
    BY <1>5, ServerIsOp DEF PrometheusRead, Handles, At
  <2>2. CASE Panic(r, "no matchers") /\ UNCHANGED Kept
    BY <2>1, <2>2, PanicStep DEF OwnCauses
  <2>3. CASE Outcome(r, {PrometheusReadResponses.OK, PrometheusReadResponses.InternalServerError})
    BY <2>1, <2>3, OutcomeStep
  <2> QED
    BY <1>5, <2>2, <2>3 DEF PrometheusRead, Kept
<1> QED
  BY <1>1, <1>2, <1>3, <1>4, <1>5

\* The tags handler, and what reads the shared error.
LEMMA TagsHandler ==
  ASSUME IndRequests, NEW r \in Requests,
         Compile(r) \/ NoExpression(r) \/ TestErr(r) \/ ReportErr(r)
  PROVE  IndRequests'
<1>1. CASE NoExpression(r)
  <2>1. op[r] = "get_tags" /\ place[r] = "handle"
    BY <1>1, ServerIsOp DEF NoExpression, Handles, At
  <2>2. UNCHANGED Kept /\ UNCHANGED answer /\ Goto(r, "find")
    BY <1>1 DEF NoExpression, Kept
  <2>3. place'[r] = "find" /\ \A s \in Requests \ {r} : place'[s] = place[s]
    BY <2>2, GoesTo DEF RequestPlaces
  <2>4. RequestOK(r)'
    BY <2>1, <2>2, <2>3, NullIsNoError DEF IndRequests, RequestOK, Kept
  <2>5. (\A s \in Requests \ {r} : place[s] = "idle") => AloneOK(r)'
    BY <2>1, <2>2, <2>3, ZenonT(30) DEF IndRequests, RequestOK, AloneOK, Kept
  <2> QED
    BY <2>1, <2>2, <2>4, <2>5, ProceedStep DEF RequestPlaces
<1>2. CASE TestErr(r)
  <2>1. op[r] = "get_tags" /\ place[r] = "test"
    BY <1>2 DEF TestErr, At, IndRequests, RequestOK
  <2> DEFINE p == IF errType = Null THEN "find" ELSE "report"
  <2>2. UNCHANGED Kept /\ UNCHANGED answer /\ Goto(r, p)
    BY <1>2 DEF TestErr, Kept
  <2>3. p \in RequestPlaces /\ p # "retrieve"
    BY DEF RequestPlaces
  <2>4. place'[r] = p /\ \A s \in Requests \ {r} : place'[s] = place[s]
    BY <2>2, <2>3, GotoIs DEF IndRequests
  <2>5. RequestOK(r)'
    BY <2>1, <2>2, <2>4 DEF IndRequests, RequestOK, Kept
  <2>6. (\A s \in Requests \ {r} : place[s] = "idle") => AloneOK(r)'
    BY <2>1, <2>2, <2>4 DEF IndRequests, AloneOK, Kept
  <2> HIDE DEF p
  <2> QED
    BY <2>1, <2>2, <2>3, <2>5, <2>6, ProceedStep
<1>3. CASE Compile(r)
  <2>1. op[r] = "get_tags" /\ place[r] = "handle"
    BY <1>3, ServerIsOp DEF Compile, Handles, At
  <2>2. PICK e \in {Null, "regexp"} : own' = [own EXCEPT ![r] = e] /\ Goto(r, "storeType")
    BY <1>3 DEF Compile
  <2>3. UNCHANGED <<infoVars, load, op, principal, producer, answer, errType, errData, alone>>
    BY <1>3 DEF Compile
  <2>4. place' \in [Requests -> RequestPlaces] /\ place'[r] = "storeType"
        /\ \A s \in Requests \ {r} : place'[s] = place[s]
    BY <2>2, GotoIs DEF IndRequests, RequestPlaces
  <2>5. own' \in [Requests -> ErrorTypes \cup {Null}] /\ own'[r] = e
        /\ \A s \in Requests \ {r} : own'[s] = own[s]
    BY <2>2 DEF IndRequests, RequestTypes, ErrorTypes
  <2>6. RequestTypes'
    BY <2>3, <2>4, <2>5 DEF IndRequests, RequestTypes
  <2>7. RequestOK(r)'
    BY <2>1, <2>3, <2>4, <2>5, NullIsNoError DEF IndRequests, RequestOK
  <2>8. (\A s \in Requests \ {r} : place[s] = "idle") => AloneOK(r)'
    BY <2>4 DEF AloneOK
  <2>9. at'[r] = "out" <=> place'[r] # "retrieve"
    BY <2>1, <2>3, <2>4 DEF IndRequests, infoVars, localInfo
  <2> QED
    BY <2>1, <2>3, <2>4, <2>5, <2>6, <2>7, <2>8, <2>9, OwnStep DEF infoVars, localInfo
<1>4. CASE ReportErr(r)
  <2>1. op[r] = "get_tags" /\ place[r] = "report"
    BY <1>4 DEF ReportErr, At, IndRequests, RequestOK
  <2>2. PICK p \in {"respond", "panicked"} :
           /\ Goto(r, p) /\ \E a : answer' = [answer EXCEPT ![r] = a]
           /\ p = "panicked" => errType = Null \/ errType # errData
    BY <1>4 DEF ReportErr, Return, Panic
  <2>3. UNCHANGED Kept
    BY <1>4 DEF ReportErr, Kept
  <2>4. place' \in [Requests -> RequestPlaces] /\ place'[r] = p
        /\ \A s \in Requests \ {r} : place'[s] = place[s]
    BY <2>2, GotoIs DEF IndRequests, RequestPlaces
  <2>5. DOMAIN answer' = Requests /\ \A s \in Requests \ {r} : answer'[s] = answer[s]
    BY <2>2, AnswerIs DEF IndRequests
  <2>6. RequestTypes'
    BY <2>3, <2>4, <2>5 DEF IndRequests, RequestTypes, Kept
  <2>7. RequestOK(r)'
    BY <2>1, <2>3, <2>4 DEF IndRequests, RequestOK, Kept
  <2>8. (\A s \in Requests \ {r} : place[s] = "idle") => AloneOK(r)'
    <3>1. CASE alone[r]
      <4>1. errType = own[r] /\ errData = own[r] /\ own[r] # Null
        BY <2>1, <3>1 DEF IndRequests, AloneOK
      <4>2. place'[r] = "respond"
        BY <2>2, <2>4, <4>1
      <4> QED
        BY <2>4, <4>2 DEF AloneOK
    <3>2. CASE ~alone[r]
      BY <2>3, <3>2 DEF AloneOK, Kept
    <3> QED
      BY <3>1, <3>2
  <2>9. at'[r] = "out" <=> place'[r] # "retrieve"
    BY <2>1, <2>3, <2>4 DEF IndRequests, Kept, infoVars, localInfo
  <2> QED
    BY <2>1, <2>3, <2>4, <2>5, <2>6, <2>7, <2>8, <2>9, OwnStep DEF Kept, infoVars, localInfo
<1> QED
  BY <1>1, <1>2, <1>3, <1>4

\* What is left to show of a step of one request that changes nothing else.
LEMMA StepTo ==
  ASSUME IndRequests, NEW r \in Requests, place[r] # "idle",
         NEW p \in RequestPlaces, Goto(r, p),
         UNCHANGED <<load, op, alone>>,
         principal' \in [Requests -> BOOLEAN],
         producer' \in [Requests -> {"CsvProducer", "JSONProducer", "ProtobufProducer"}],
         own' \in [Requests -> ErrorTypes \cup {Null}],
         DOMAIN answer' = Requests,
         errType' \in ErrorTypes \cup {Null}, errData' \in ErrorTypes \cup {Null},
         \A s \in Requests \ {r} :
            /\ principal'[s] = principal[s] /\ producer'[s] = producer[s]
            /\ own'[s] = own[s] /\ answer'[s] = answer[s] /\ at'[s] = at[s],
         at'[r] = "out" <=> p # "retrieve"
  PROVE  /\ place'[r] = p
         /\ \A s \in Requests \ {r} : place'[s] = place[s]
         /\ RequestOK(r)' /\ ((\A s \in Requests \ {r} : place[s] = "idle") => AloneOK(r)')
               => IndRequests'
<1>1. place' \in [Requests -> RequestPlaces] /\ place'[r] = p
      /\ \A s \in Requests \ {r} : place'[s] = place[s]
  BY GotoIs DEF IndRequests
<1>2. RequestTypes'
  BY <1>1 DEF IndRequests, RequestTypes
<1> QED
  BY <1>1, <1>2, OwnStep

\* The handlers that call RetrieveInformation.
LEMMA InformationHandlers ==
  ASSUME IndInfoType, IndRequests, NEW r \in Requests,
         RetrieveInformation(r) \/ GetCluster(r) \/ GetNode(r) \/ LookupNode(r)
  PROVE  IndRequests'
<1>1. at \in [Requests -> Places]
  BY DEF IndInfoType, InfoTypeOK
<1>2. CASE RetrieveInformation(r)
  <2>1. place[r] = "handle" /\ op[r] \in {"get_cluster", "get_node"}
    BY <1>2, ServerIsOp DEF RetrieveInformation, At
  <2>2. CASE Outcome(r, {PostQueryResponses.InternalServerError})
    BY <2>1, <2>2, OutcomeStep
  <2>3. CASE /\ Goto(r, "retrieve") /\ Call(r)
             /\ UNCHANGED <<load, op, principal, producer, own, answer, errType, errData, alone>>
    <3>1. at'[r] = "check" /\ \A s \in Requests \ {r} : at'[s] = at[s]
      BY <1>1, <2>3 DEF Call, Move
    <3>2. place'[r] = "retrieve" /\ \A s \in Requests \ {r} : place'[s] = place[s]
      BY <2>3, GotoIs DEF IndRequests, RequestPlaces
    <3>3. RequestTypes'
      BY <2>3, GotoIs DEF IndRequests, RequestTypes, RequestPlaces
    <3>4. RequestOK(r)'
      BY <2>1, <2>3, <3>2 DEF IndRequests, RequestOK
    <3>5. (\A s \in Requests \ {r} : place[s] = "idle") => AloneOK(r)'
      BY <3>2 DEF AloneOK
    <3> QED
      BY <2>1, <2>3, <3>1, <3>2, <3>3, <3>4, <3>5, OwnStep
  <2> QED
    BY <1>2, <2>2, <2>3 DEF RetrieveInformation
<1>3. CASE GetCluster(r) \/ GetNode(r)
  <2>1. place[r] = "retrieve" /\ op[r] \in {"get_cluster", "get_node"}
    BY <1>3, ServerIsOp DEF GetCluster, GetNode, IndRequests, RequestOK
  <2>2. at'[r] = "out" /\ \A s \in Requests \ {r} : at'[s] = at[s]
    BY <1>1, <1>3 DEF GetCluster, GetNode, Forget
  <2>3. PICK p \in {"respond", "lookup"} :
           /\ Goto(r, p) /\ (answer' = answer \/ \E a : answer' = [answer EXCEPT ![r] = a])
           /\ p = "lookup" => op[r] = "get_node"
    BY <1>3, <2>1, ServerIsOp DEF GetCluster, GetNode, Return
  <2>4. UNCHANGED <<load, op, principal, producer, own, errType, errData, alone>>
    BY <1>3 DEF GetCluster, GetNode
  <2>5. place'[r] = p /\ \A s \in Requests \ {r} : place'[s] = place[s]
    BY <2>3, GotoIs DEF IndRequests, RequestPlaces
  <2>6. RequestOK(r)'
    BY <2>1, <2>3, <2>4, <2>5, NullIsNoError DEF IndRequests, RequestOK
  <2>7. (\A s \in Requests \ {r} : place[s] = "idle") => AloneOK(r)'
    BY <2>5 DEF AloneOK
  <2>8. RequestTypes'
    BY <2>3, <2>4, GotoIs, AnswerIs DEF IndRequests, RequestTypes, RequestPlaces
  <2>9. \A s \in Requests \ {r} : answer'[s] = answer[s]
    BY <2>3, AnswerIs DEF IndRequests
  <2> QED
    BY <2>1, <2>2, <2>4, <2>5, <2>6, <2>7, <2>8, <2>9, OwnStep
<1>4. CASE LookupNode(r)
  <2>1. place[r] = "lookup"
    BY <1>4 DEF LookupNode, At
  <2>2. UNCHANGED Kept
    BY <1>4 DEF LookupNode, Kept
  <2>3. CASE Panic(r, "unknown node")
    BY <2>1, <2>2, <2>3, PanicStep DEF OwnCauses
  <2>4. CASE Return(r, GetNodeResponses.OK)
    <3>1. /\ place'[r] = "respond" /\ \A s \in Requests \ {r} : place'[s] = place[s]
          /\ RequestOK(r)' /\ ((\A s \in Requests \ {r} : place[s] = "idle") => AloneOK(r)')
                => IndRequests'
      <4>1. DOMAIN answer' = Requests /\ \A s \in Requests \ {r} : answer'[s] = answer[s]
        BY <2>4, AnswerIs DEF Return, IndRequests
      <4>2. Goto(r, "respond") /\ "respond" \in RequestPlaces
        BY <2>4 DEF Return, RequestPlaces
      <4>3. at'[r] = "out"
        BY <2>1, <2>2 DEF IndRequests, Kept, infoVars, localInfo
      <4> QED
        BY <2>1, <2>2, <4>1, <4>2, <4>3, StepTo
           DEF Kept, infoVars, localInfo, IndRequests, RequestTypes
    <3>2. RequestOK(r)'
      BY <2>1, <2>2, <3>1, NullIsNoError DEF IndRequests, RequestOK, Kept
    <3>3. (\A s \in Requests \ {r} : place[s] = "idle") => AloneOK(r)'
      BY <3>1 DEF AloneOK
    <3> QED
      BY <3>1, <3>2, <3>3
  <2> QED
    BY <1>4, <2>3, <2>4 DEF LookupNode
<1> QED
  BY <1>2, <1>3, <1>4

\* The next stage of a request.
LEMMA ProceedIs ==
  ASSUME IndRequests, NEW r \in Requests, place[r] \in {"authorize", "bind"}, Proceed(r)
  PROVE  Goto(r, IF place[r] = "authorize" THEN "bind" ELSE "handle")
<1>1. op[r] \in OperationIds /\ Server(r) = op[r]
  BY ServerIsOp
<1>2. Api[op[r]].stages \in {Secured, Open}
      /\ (place[r] = "authorize" => Api[op[r]].stages = Secured)
  BY <1>1, StagesAgree DEF IndRequests, RequestOK
<1> QED
  BY <1>1, <1>2, StagesAre DEF Proceed

LEMMA AuthorizeStep ==
  ASSUME IndRequests, NEW r \in Requests, Authorize(r)
  PROVE  IndRequests'
<1>1. place[r] = "authorize" /\ op[r] \in OperationIds /\ Api[op[r]].route.secured
  BY ServerIsOp DEF Authorize, At, IndRequests, RequestOK
<1>2. PICK outcome \in {"good", "refused", "unauthenticated"} :
        /\ principal' = [principal EXCEPT ![r] = outcome = "good"]
        /\ \/ outcome = "good" /\ Proceed(r) /\ UNCHANGED answer
           \/ outcome = "refused" /\ Panic(r, "refused")
           \/ outcome = "unauthenticated" /\ Refuse(r, 401)
  BY <1>1, ZenonT(30) DEF Authorize, Authenticate
<1>3. UNCHANGED <<infoVars, load, op, producer, own, errType, errData, alone>>
  BY DEF Authorize
<1>4. PICK p \in {"bind", "answered", "panicked"} :
        /\ Goto(r, p)
        /\ p = "bind" => outcome = "good"
        /\ p = "panicked" => Panic(r, "refused")
        /\ DOMAIN answer' = Requests /\ \A s \in Requests \ {r} : answer'[s] = answer[s]
  BY <1>1, <1>2, ProceedIs, AnswerIs, ZenonT(30) DEF IndRequests, RequestTypes, Panic, Refuse
<1>5. principal' \in [Requests -> BOOLEAN] /\ principal'[r] = (outcome = "good")
      /\ \A s \in Requests \ {r} : principal'[s] = principal[s]
  BY <1>2 DEF IndRequests, RequestTypes
<1>6. /\ place'[r] = p /\ \A s \in Requests \ {r} : place'[s] = place[s]
      /\ RequestOK(r)' /\ ((\A s \in Requests \ {r} : place[s] = "idle") => AloneOK(r)')
            => IndRequests'
  <2>1. at'[r] = "out" /\ p \in RequestPlaces /\ p # "retrieve"
    BY <1>1, <1>3 DEF IndRequests, RequestPlaces, infoVars, localInfo
  <2> QED
    BY <1>1, <1>3, <1>4, <1>5, <2>1, StepTo
       DEF IndRequests, RequestTypes, infoVars, localInfo
<1>7. RequestOK(r)'
  BY <1>1, <1>3, <1>4, <1>5, <1>6 DEF IndRequests, RequestOK
<1>8. (\A s \in Requests \ {r} : place[s] = "idle") => AloneOK(r)'
  <2>1. p = "panicked" => answer'[r].body = "refused"
    BY <1>4, AnswerIs DEF IndRequests, Panic, Answer
  <2>2. own'[r] = Null
    BY <1>1, <1>3 DEF IndRequests, RequestOK
  <2> QED
    BY <1>6, <2>1, <2>2, NullIsNoError DEF AloneOK, OwnCauses
<1> QED
  BY <1>6, <1>7, <1>8

LEMMA BindStep ==
  ASSUME IndRequests, NEW r \in Requests, Bind(r)
  PROVE  IndRequests'
<1>1. place[r] = "bind" /\ op[r] \in OperationIds
  BY ServerIsOp DEF Bind, At
<1>2. PICK format :
        \/ \E code : Refuse(r, code) /\ UNCHANGED producer
        \/ /\ producer' = [producer EXCEPT ![r] = ProducerOf(op[r], format)]
           /\ Proceed(r) /\ UNCHANGED answer
  BY DEF Bind
<1>3. UNCHANGED <<infoVars, load, op, principal, own, errType, errData, alone>>
  BY DEF Bind
<1>4. PICK p \in {"handle", "answered"} :
        /\ Goto(r, p)
        /\ producer' = producer \/ producer' = [producer EXCEPT ![r] = ProducerOf(op[r], format)]
        /\ DOMAIN answer' = Requests /\ \A s \in Requests \ {r} : answer'[s] = answer[s]
  BY <1>1, <1>2, ProceedIs, AnswerIs DEF IndRequests, RequestTypes, Refuse
<1>5. /\ producer' \in [Requests -> {"CsvProducer", "JSONProducer", "ProtobufProducer"}]
      /\ producer'[r] \in {producer[r], ProducerOf(op[r], format)}
      /\ \A s \in Requests \ {r} : producer'[s] = producer[s]
  BY <1>1, <1>4, CsvIsExport DEF IndRequests, RequestTypes
<1>6. /\ place'[r] = p /\ \A s \in Requests \ {r} : place'[s] = place[s]
      /\ RequestOK(r)' /\ ((\A s \in Requests \ {r} : place[s] = "idle") => AloneOK(r)')
            => IndRequests'
  <2>1. at'[r] = "out" /\ p \in RequestPlaces /\ p # "retrieve"
    BY <1>1, <1>3 DEF IndRequests, RequestPlaces, infoVars, localInfo
  <2> QED
    BY <1>1, <1>3, <1>4, <1>5, <2>1, StepTo
       DEF IndRequests, RequestTypes, infoVars, localInfo
<1>7. RequestOK(r)'
  <2>1. producer'[r] = "CsvProducer" => op[r] = "get_table_csv"
    BY <1>1, <1>5, CsvIsExport DEF IndRequests, RequestOK
  <2> QED
    BY <1>1, <1>3, <1>6, <2>1 DEF IndRequests, RequestOK
<1>8. (\A s \in Requests \ {r} : place[s] = "idle") => AloneOK(r)'
  <2>1. own'[r] = Null
    BY <1>1, <1>3 DEF IndRequests, RequestOK
  <2> QED
    BY <1>6, <2>1, NullIsNoError DEF AloneOK
<1> QED
  BY <1>6, <1>7, <1>8

LEMMA StoreStep ==
  ASSUME IndRequests, NEW r \in Requests, StoreType(r) \/ StoreData(r)
  PROVE  IndRequests'
<1>1. CASE StoreType(r)
  <2>1. place[r] = "storeType" /\ Goto(r, "storeData") /\ "storeData" \in RequestPlaces
        /\ errType' = own[r]
        /\ UNCHANGED <<infoVars, load, op, principal, producer, own, answer, errData, alone>>
    BY <1>1 DEF StoreType, At, RequestPlaces
  <2>2. own[r] \in ErrorTypes \cup {Null} /\ at'[r] = "out"
    BY <2>1 DEF IndRequests, RequestTypes, infoVars, localInfo
  <2>3. /\ place'[r] = "storeData" /\ \A s \in Requests \ {r} : place'[s] = place[s]
        /\ RequestOK(r)' /\ ((\A s \in Requests \ {r} : place[s] = "idle") => AloneOK(r)')
              => IndRequests'
    BY <2>1, <2>2, StepTo DEF IndRequests, RequestTypes, infoVars, localInfo
  <2>4. RequestOK(r)'
    BY <2>1, <2>3 DEF IndRequests, RequestOK
  <2>5. (\A s \in Requests \ {r} : place[s] = "idle") => AloneOK(r)'
    BY <2>1, <2>3 DEF AloneOK
  <2> QED
    BY <2>3, <2>4, <2>5
<1>2. CASE StoreData(r)
  <2> DEFINE p == IF op[r] = "get_tags" THEN "test" ELSE "produced"
  <2>1. place[r] = "storeData" /\ Goto(r, p) /\ p \in RequestPlaces /\ p # "retrieve"
        /\ errData' = own[r]
        /\ UNCHANGED <<infoVars, load, op, principal, producer, own, answer, errType, alone>>
    BY <1>2, ServerIsOp DEF StoreData, At, RequestPlaces
  <2>2. own[r] \in ErrorTypes \cup {Null} /\ at'[r] = "out"
    BY <2>1 DEF IndRequests, RequestTypes, infoVars, localInfo
  <2>3. /\ place'[r] = p /\ \A s \in Requests \ {r} : place'[s] = place[s]
        /\ RequestOK(r)' /\ ((\A s \in Requests \ {r} : place[s] = "idle") => AloneOK(r)')
              => IndRequests'
    BY <2>1, <2>2, StepTo DEF IndRequests, RequestTypes, infoVars, localInfo
  <2>4. RequestOK(r)'
    BY <2>1, <2>3 DEF IndRequests, RequestOK
  <2>5. (\A s \in Requests \ {r} : place[s] = "idle") => AloneOK(r)'
    BY <2>1, <2>3 DEF IndRequests, AloneOK
  <2> QED
    BY <2>3, <2>4, <2>5
<1> QED
  BY <1>1, <1>2

\* The response is written.
LEMMA RespondStep ==
  ASSUME IndRequests, NEW r \in Requests, Respond(r) \/ ProduceCsv(r) \/ Produced(r)
  PROVE  IndRequests'
<1>1. CASE Respond(r)
  <2>1. place[r] = "respond" /\ Goto(r, "answered") /\ "answered" \in RequestPlaces
        /\ UNCHANGED Kept
    BY <1>1 DEF Respond, At, RequestPlaces, Kept
  <2>2. DOMAIN answer' = Requests /\ \A s \in Requests \ {r} : answer'[s] = answer[s]
    BY <1>1 DEF Respond, IndRequests, RequestTypes
  <2>3. at'[r] = "out"
    BY <2>1 DEF IndRequests, Kept, infoVars, localInfo
  <2>4. /\ place'[r] = "answered" /\ \A s \in Requests \ {r} : place'[s] = place[s]
        /\ RequestOK(r)' /\ ((\A s \in Requests \ {r} : place[s] = "idle") => AloneOK(r)')
              => IndRequests'
    BY <2>1, <2>2, <2>3, StepTo DEF IndRequests, RequestTypes, Kept, infoVars, localInfo
  <2>5. RequestOK(r)'
    BY <2>1, <2>4 DEF IndRequests, RequestOK, Kept
  <2>6. (\A s \in Requests \ {r} : place[s] = "idle") => AloneOK(r)'
    BY <2>1, <2>4, ZenonT(30) DEF IndRequests, RequestOK, AloneOK, Kept
  <2> QED
    BY <2>4, <2>5, <2>6
<1>2. CASE ProduceCsv(r)
  <2>1. place[r] = "respond" /\ producer[r] = "CsvProducer" /\ op[r] = "get_table_csv"
        /\ answer[r].body \in {"binary", "none"}
    BY <1>2 DEF ProduceCsv, At, IndRequests, RequestOK
  <2>2. PICK e \in {Null, "copy"} : own' = [own EXCEPT ![r] = e]
    BY <1>2, <2>1 DEF ProduceCsv
  <2>3. Goto(r, "storeType") /\ "storeType" \in RequestPlaces
        /\ UNCHANGED <<infoVars, load, op, principal, producer, answer, errType, errData, alone>>
    BY <1>2, <2>1 DEF ProduceCsv, RequestPlaces
  <2>4. own' \in [Requests -> ErrorTypes \cup {Null}] /\ own'[r] = e
        /\ \A s \in Requests \ {r} : own'[s] = own[s]
    BY <2>2 DEF IndRequests, RequestTypes, ErrorTypes
  <2>5. at'[r] = "out"
    BY <2>1, <2>3 DEF IndRequests, infoVars, localInfo
  <2>6. /\ place'[r] = "storeType" /\ \A s \in Requests \ {r} : place'[s] = place[s]
        /\ RequestOK(r)' /\ ((\A s \in Requests \ {r} : place[s] = "idle") => AloneOK(r)')
              => IndRequests'
    BY <2>1, <2>3, <2>4, <2>5, StepTo DEF IndRequests, RequestTypes, infoVars, localInfo
  <2>7. RequestOK(r)'
    BY <2>1, <2>3, <2>4, <2>6, NullIsNoError DEF IndRequests, RequestOK
  <2>8. (\A s \in Requests \ {r} : place[s] = "idle") => AloneOK(r)'
    BY <2>6 DEF AloneOK
  <2> QED
    BY <2>6, <2>7, <2>8
<1>3. CASE Produced(r)
  <2>1. place[r] = "produced" /\ op[r] # "get_tags"
    BY <1>3 DEF Produced, At, IndRequests, RequestOK
  <2>2. UNCHANGED Kept
    BY <1>3 DEF Produced, Kept
  <2>3. PICK p \in {"answered", "panicked"} :
          /\ Goto(r, p)
          /\ p = "answered" => errType = Null /\ UNCHANGED answer
          /\ p = "panicked" => errType # Null /\ Panic(r, "producer")
    BY <1>3 DEF Produced, Panic
  <2>4. DOMAIN answer' = Requests /\ \A s \in Requests \ {r} : answer'[s] = answer[s]
    BY <2>3, AnswerIs DEF IndRequests, RequestTypes, Panic
  <2>5. at'[r] = "out" /\ p \in RequestPlaces /\ p # "retrieve"
    BY <2>1, <2>2 DEF IndRequests, RequestPlaces, Kept, infoVars, localInfo
  <2>6. /\ place'[r] = p /\ \A s \in Requests \ {r} : place'[s] = place[s]
        /\ RequestOK(r)' /\ ((\A s \in Requests \ {r} : place[s] = "idle") => AloneOK(r)')
              => IndRequests'
    BY <2>1, <2>2, <2>3, <2>4, <2>5, StepTo DEF IndRequests, RequestTypes, Kept, infoVars, localInfo
  <2>7. RequestOK(r)'
    BY <2>1, <2>2, <2>6 DEF IndRequests, RequestOK, Kept
  <2>8. (\A s \in Requests \ {r} : place[s] = "idle") => AloneOK(r)'
    <3>1. CASE alone[r]
      <4>1. errType = own[r] /\ own[r] # "regexp" /\ own[r] \in ErrorTypes \cup {Null}
        BY <2>1, <3>1 DEF IndRequests, RequestOK, RequestTypes, AloneOK
      <4>2. p = "answered" => own[r] # "copy"
        BY <2>3, <4>1, NullIsNoError
      <4>3. p = "panicked" => own[r] = "copy" /\ answer'[r].body = "producer"
        BY <2>3, <4>1, AnswerIs DEF Panic, Answer, ErrorTypes, IndRequests
      <4> QED
        BY <2>2, <2>6, <4>2, <4>3 DEF AloneOK, Kept
    <3>2. CASE ~alone[r]
      BY <2>2, <3>2 DEF AloneOK, Kept
    <3> QED
      BY <3>1, <3>2
  <2> QED
    BY <2>6, <2>7, <2>8
<1> QED
  BY <1>1, <1>2, <1>3

LEMMA LeaveStep ==
  ASSUME IndRequests, NEW r \in Requests, Leave(r)
  PROVE  IndRequests'
<1>1. /\ op' \in [Requests -> OperationIds \cup {Null}] /\ op'[r] = Null
      /\ place' \in [Requests -> RequestPlaces] /\ place'[r] = "idle"
      /\ principal' \in [Requests -> BOOLEAN] /\ principal'[r] = FALSE
      /\ producer' \in [Requests -> {"CsvProducer", "JSONProducer", "ProtobufProducer"}]
      /\ own' \in [Requests -> ErrorTypes \cup {Null}] /\ own'[r] = Null
      /\ producer'[r] = "JSONProducer"
      /\ alone' \in [Requests -> BOOLEAN]
      /\ DOMAIN answer' = Requests
  BY GotoIs DEF Leave, IndRequests, RequestTypes, RequestPlaces
<1>2. \A s \in Requests \ {r} :
         /\ op'[s] = op[s] /\ place'[s] = place[s] /\ principal'[s] = principal[s]
         /\ producer'[s] = producer[s] /\ own'[s] = own[s] /\ answer'[s] = answer[s]
         /\ alone'[s] = alone[s]
  BY GotoIs DEF Leave, IndRequests, RequestTypes, RequestPlaces
<1>3. UNCHANGED <<load, errType, errData, at>>
  BY DEF Leave, infoVars, localInfo
<1>4. place[r] \notin {"idle", "retrieve"}
  BY DEF Leave
<1>5. RequestTypes'
  BY <1>1, <1>3 DEF RequestTypes, IndRequests
<1>6. RequestOK(r)' /\ AloneOK(r)' /\ (at'[r] = "out" <=> place'[r] # "retrieve")
  BY <1>1, <1>3, <1>4 DEF IndRequests, RequestOK, AloneOK
<1>7. ASSUME NEW s \in Requests \ {r}
      PROVE  RequestOK(s)' /\ AloneOK(s)' /\ (at'[s] = "out" <=> place'[s] # "retrieve")
  <2>1. RequestOK(s)'
    BY <1>2, <1>7 DEF IndRequests, RequestOK
  <2>2. ~(alone[s] /\ place[s] # "idle")
    BY <1>4 DEF IndRequests, AloneOK
  <2> QED
    BY <1>2, <1>3, <2>1, <2>2 DEF IndRequests, AloneOK
<1> QED
  BY <1>5, <1>6, <1>7 DEF IndRequests

LEMMA ArriveStep ==
  ASSUME IndRequests, NEW r \in Requests, NEW id \in load[r], Arrive(r, id)
  PROVE  IndRequests'
<1>1. id \in OperationIds
  BY RequestsAssumption DEF IndRequests, RequestTypes
<1> DEFINE p == Head(Api[id].stages)
<1>2. Goto(r, p) /\ place[r] = "idle"
      /\ UNCHANGED <<load, principal, producer, own, answer, errType, errData, at>>
  BY <1>1, HandlerIsOwn DEF Arrive, At, infoVars, localInfo
<1>3. p = IF Api[id].route.secured THEN "authorize" ELSE "bind"
  BY <1>1, StagesAgree, StagesAre
<1>4. place' \in [Requests -> RequestPlaces] /\ place'[r] = p
      /\ \A s \in Requests \ {r} : place'[s] = place[s]
  BY <1>2, <1>3, GotoIs DEF IndRequests, RequestPlaces
<1>5. /\ op' \in [Requests -> OperationIds \cup {Null}] /\ op'[r] = id
      /\ \A s \in Requests \ {r} : op'[s] = op[s]
  BY <1>1 DEF Arrive, IndRequests, RequestTypes
<1>6. /\ alone' \in [Requests -> BOOLEAN]
      /\ alone'[r] = (\A s \in Requests \ {r} : place[s] = "idle")
      /\ \A s \in Requests \ {r} : alone'[s] = (alone[s] /\ place[s] = "idle")
  BY DEF Arrive, At, IndRequests, RequestTypes
<1> HIDE DEF p
<1>7. RequestTypes'
  BY <1>2, <1>4, <1>5, <1>6 DEF IndRequests, RequestTypes
<1>8. RequestOK(r)'
  <2>1. id # Null /\ Api[id].route.secured \in BOOLEAN
    BY <1>1, RequestsAssumption, StagesAgree
  <2> QED
    BY <1>2, <1>3, <1>4, <1>5, <2>1 DEF IndRequests, RequestOK
<1>9. AloneOK(r)'
  BY <1>3, <1>4, <1>6 DEF AloneOK
<1>10. at'[r] = "out" <=> place'[r] # "retrieve"
  BY <1>2, <1>3, <1>4 DEF IndRequests
<1>11. ASSUME NEW s \in Requests \ {r}
       PROVE  RequestOK(s)' /\ AloneOK(s)' /\ (at'[s] = "out" <=> place'[s] # "retrieve")
  <2>1. RequestOK(s)'
    BY <1>2, <1>4, <1>5, <1>11 DEF IndRequests, RequestOK
  <2> QED
    BY <1>2, <1>4, <1>6, <2>1 DEF IndRequests, AloneOK
<1> QED
  BY <1>7, <1>8, <1>9, <1>10, <1>11 DEF IndRequests

\* A step that no handler takes.
LEMMA RequestsStay ==
  ASSUME IndRequests, UNCHANGED requestVars,
         \A s \in Requests : at'[s] = "out" <=> at[s] = "out"
  PROVE  IndRequests'
<1>1. RequestTypes'
  BY DEF requestVars, IndRequests, RequestTypes
<1>2. ASSUME NEW s \in Requests
      PROVE  RequestOK(s)' /\ AloneOK(s)' /\ (at'[s] = "out" <=> place'[s] # "retrieve")
  <2>1. RequestOK(s) /\ AloneOK(s) /\ (at[s] = "out" <=> place[s] # "retrieve")
    BY DEF IndRequests
  <2>2. RequestOK(s)'
    BY <2>1 DEF requestVars, RequestOK
  <2>3. AloneOK(s)'
    BY <2>1 DEF requestVars, AloneOK
  <2> QED
    BY <2>1, <2>2, <2>3 DEF requestVars
<1> QED
  BY <1>1, <1>2 DEF IndRequests

LEMMA RequestsStep ==
  ASSUME IndInfoType, IndRequests, [Next]_vars
  PROVE  IndRequests'
<1>1. CASE UNCHANGED requestVars /\ UNCHANGED at
  BY <1>1, RequestsStay
<1>2. CASE UNCHANGED vars
  BY <1>1, <1>2 DEF vars, infoVars, localInfo
<1>3. CASE Interval /\ UNCHANGED requestVars
  BY <1>1, <1>3 DEF Interval, localInfo
<1>4. CASE DataRace
  BY <1>1, <1>4 DEF DataRace, localInfo
<1>5. ASSUME NEW r \in Requests, Retrieve(r), UNCHANGED requestVars
      PROVE  IndRequests'
  <2>1. PICK from \in Places \ {"out"}, to \in Places \ {"out"} : Move(r, from, to)
    BY <1>5 DEF Retrieve, IsFresh, IsStale, Stamp, ReadStatus, NewStatus, Fetch, SetStatus,
         ResetNodes, RemakeMap, NextNode, AppendNode, RecordNode, EndOfNodes, SetTotals, Places
  <2>2. \A s \in Requests : at'[s] = "out" <=> at[s] = "out"
    BY <2>1 DEF Move, IndInfoType, InfoTypeOK
  <2> QED
    BY <1>5, <2>2, RequestsStay
<1>6. ASSUME NEW r \in Requests, RequestStep(r)
      PROVE  IndRequests'
  <2>1. CASE Handler(r)
    BY <2>1, PlainHandlers, TagsHandler, InformationHandlers DEF Handler
  <2>2. CASE Authorize(r) \/ Bind(r)
    BY <2>2, AuthorizeStep, BindStep
  <2>3. CASE StoreType(r) \/ StoreData(r)
    BY <2>3, StoreStep
  <2>4. CASE Respond(r) \/ ProduceCsv(r) \/ Produced(r)
    BY <2>4, RespondStep
  <2>5. CASE Leave(r)
    BY <2>5, LeaveStep
  <2> QED
    BY <1>6, <2>1, <2>2, <2>3, <2>4, <2>5 DEF RequestStep
<1> QED
  BY <1>2, <1>3, <1>4, <1>5, <1>6, ArriveStep DEF Next

THEOREM RequestsCorrect == Spec => []IndRequests
<1>1. IndInfoType /\ IndRequests /\ [Next]_vars => IndRequests'
  BY RequestsStep
<1> QED
  BY <1>1, RequestsInit, InfoTypeCorrect, PTL DEF Spec

\* Every variable keeps its type, and a request is inside RetrieveInformation exactly
\* while its handler has called it.
THEOREM TypeCorrect == Spec => []TypeOK
<1>1. IndInfoType /\ IndRequests => TypeOK
  BY DEF IndInfoType, IndRequests, RequestTypes, RequestOK, TypeOK
<1> QED
  BY <1>1, InfoTypeCorrect, RequestsCorrect, PTL

\* Whatever operations are requested, and in whatever order: a handler runs for a
\* request with a good token if and only if its operation is documented to need one.
THEOREM OnlyAuthorizedCorrect == Spec => []OnlyAuthorized
<1>1. IndRequests => OnlyAuthorized
  BY DEF IndRequests, RequestOK, OnlyAuthorized
<1> QED
  BY <1>1, RequestsCorrect, PTL

\* Whatever earlier requests left in the error that all requests share: one that runs
\* by itself ends as its own input has it.
THEOREM OutcomeIsOwnCorrect == Spec => []OutcomeIsOwn
<1>1. ASSUME IndRequests, NEW r \in Requests, alone[r]
      PROVE  /\ At(r, "report") => own[r] = "regexp"
             /\ At(r, "find") => own[r] = Null
             /\ At(r, "answered") => own[r] # "copy"
             /\ At(r, "panicked") =>
                   \/ answer[r].body \in OwnCauses
                   \/ answer[r].body = "producer" /\ own[r] = "copy"
  <2>1. own[r] \in {"regexp", "copy", Null}
    BY <1>1 DEF IndRequests, RequestTypes, ErrorTypes
  <2>2. place[r] = "report" => own[r] = "regexp"
    BY <1>1, <2>1 DEF IndRequests, RequestOK, AloneOK
  <2> QED
    BY <1>1, <2>2 DEF At, IndRequests, AloneOK
<1>2. IndRequests => OutcomeIsOwn
  BY <1>1 DEF OutcomeIsOwn
<1> QED
  BY <1>2, RequestsCorrect, PTL
-----------------------------------------------------------------------------
(* The answers.                                                            *)

\* A refresh is under way, or one has been completed.
Begun == memory # Null \/ \E r \in Requests : Refreshing(r)

\* When the information can be null or empty, and that nobody has it before a
\* refresh has begun.
IndFilled ==
    /\ status = "" => \E r \in Requests : at[r] \in {"fetch", "setStatus"}
    /\ \A r \in Requests : at[r] \in {"fetch", "setStatus", "resetNodes", "remakeMap"} \cup Looping =>
           status # Null
    /\ memory # Null => status # Null /\ nodes # Null
    /\ Begun \/ (~fresh /\ \A r \in Requests : at[r] # "returned")

LEMMA FilledInit == Init => IndFilled
<1> SUFFICES ASSUME InfoInit PROVE IndFilled
  BY DEF Init
<1>1. status = Null /\ memory = Null /\ fresh = FALSE /\ \A r \in Requests : at[r] = "out"
  BY DEF InfoInit
<1>2. status # ""
  BY <1>1, InformationAssumption
<1> QED
  BY <1>1, <1>2 DEF IndFilled, Looping

\* What is left to show of a step of one request inside RetrieveInformation.
LEMMA FilledMove ==
  ASSUME IndFilled, NEW r \in Requests, \A s \in Requests \ {r} : at'[s] = at[s],
         status' = status \/ status' \in {"", "stable", "unstable"},
         nodes' = nodes \/ nodes' # Null,
         memory' = memory \/ (memory' # Null /\ status' # Null /\ nodes' # Null),
         status' = "" => \/ at'[r] \in {"fetch", "setStatus"}
                         \/ status = "" /\ at[r] \notin {"fetch", "setStatus"},
         at'[r] \in {"fetch", "setStatus", "resetNodes", "remakeMap"} \cup Looping => status' # Null,
         Refreshing(r) => Refreshing(r)' \/ memory' # Null,
         fresh' \/ at'[r] = "returned" => fresh \/ Refreshing(r)
  PROVE  IndFilled' /\ (Begun => Begun')
<1>1. status # Null => status' # Null
  BY InformationAssumption
<1>2. Begun => Begun'
  <2>1. ASSUME NEW s \in Requests, Refreshing(s), s # r PROVE Refreshing(s)'
    BY <2>1 DEF Refreshing
  <2> QED
    BY <2>1 DEF Begun
<1>3. status' = "" => \E s \in Requests : at'[s] \in {"fetch", "setStatus"}
  BY DEF IndFilled
<1>4. ASSUME NEW s \in Requests,
             at'[s] \in {"fetch", "setStatus", "resetNodes", "remakeMap"} \cup Looping
      PROVE  status' # Null
  BY <1>1, <1>4 DEF IndFilled
<1>5. memory' # Null => status' # Null /\ nodes' # Null
  BY <1>1 DEF IndFilled
<1>6. Begun' \/ (~fresh' /\ \A s \in Requests : at'[s] # "returned")
  <2>1. CASE Begun
    BY <1>2, <2>1
  <2>2. CASE ~Begun
    BY <2>2 DEF IndFilled, Begun
  <2> QED
    BY <2>1, <2>2
<1> QED
  BY <1>2, <1>3, <1>4, <1>5, <1>6 DEF IndFilled

LEMMA FilledStep ==
  ASSUME IndInfoType, IndFilled, InfoNext
  PROVE  IndFilled' /\ (Begun => Begun')
<1> USE DEF Move, sharedInfo, localInfo
<1>1. CASE Interval \/ (UNCHANGED <<sharedInfo, localInfo, lone, last>> /\ crashed' \in BOOLEAN)
  <2>1. UNCHANGED <<status, nodes, memory, at>> /\ (fresh' => fresh)
    BY <1>1 DEF Interval
  <2>2. \A r \in Requests : Refreshing(r)' = Refreshing(r)
    BY <2>1 DEF Refreshing
  <2> QED
    BY <2>1, <2>2 DEF IndFilled, Begun
<1>2. ASSUME NEW r \in Requests, Call(r) \/ IsFresh(r) \/ (at[r] = "returned" /\ Forget(r))
      PROVE  IndFilled' /\ (Begun => Begun')
  <2>1. UNCHANGED <<fresh, status, nodes, memory>> /\ at[r] \in {"out", "check", "returned"}
        /\ at'[r] \in {"check", "returned", "out"} /\ (at'[r] = "returned" => fresh)
        /\ \A s \in Requests \ {r} : at'[s] = at[s]
    BY <1>2 DEF Call, IsFresh, Forget, IndInfoType, InfoTypeOK
  <2> QED
    BY <2>1, FilledMove DEF Refreshing, Looping
<1>3. ASSUME NEW r \in Requests, IsStale(r) \/ Stamp(r) \/ ReadStatus(r)
      PROVE  IndFilled' /\ (Begun => Begun')
  <2>1. UNCHANGED <<status, nodes, memory>> /\ at[r] \in {"check", "stamp", "status"}
        /\ at'[r] \in {"stamp", "status", "newStatus", "fetch"} /\ (at'[r] = "fetch" => status # Null)
        /\ (fresh' => fresh \/ at[r] = "stamp") /\ \A s \in Requests \ {r} : at'[s] = at[s]
    <3>1. CASE IsStale(r)
      BY <3>1 DEF IsStale, IndInfoType, InfoTypeOK
    <3>2. CASE Stamp(r)
      BY <3>2 DEF Stamp, IndInfoType, InfoTypeOK
    <3>3. CASE ReadStatus(r)
      BY <3>3 DEF ReadStatus, IndInfoType, InfoTypeOK
    <3> QED
      BY <1>3, <3>1, <3>2, <3>3
  <2> QED
    BY <2>1, FilledMove DEF Refreshing, Looping
<1>4. ASSUME NEW r \in Requests, NewStatus(r) \/ Fetch(r) \/ SetStatus(r)
      PROVE  IndFilled' /\ (Begun => Begun')
  <2>1. UNCHANGED <<fresh, nodes, memory>> /\ at[r] \in {"newStatus", "fetch", "setStatus"}
        /\ at'[r] \in {"fetch", "setStatus", "resetNodes"}
        /\ (at[r] = "setStatus" => status' \in {"stable", "unstable"})
        /\ (at[r] = "newStatus" => status' = "") /\ (at[r] = "fetch" => status' = status)
        /\ (at'[r] = "resetNodes" => at[r] = "setStatus")
        /\ \A s \in Requests \ {r} : at'[s] = at[s]
    BY <1>4 DEF NewStatus, Fetch, SetStatus, IndInfoType, InfoTypeOK
  <2>2. status' # Null
    <3>1. at[r] = "fetch" => status # Null
      BY DEF IndFilled
    <3> QED
      BY <2>1, <3>1, InformationAssumption
  <2>3. status' = "" => at'[r] \in {"fetch", "setStatus"}
    BY <2>1
  <2>4. status' = status \/ status' \in {"", "stable", "unstable"}
    BY <2>1
  <2> QED
    BY <2>1, <2>2, <2>3, <2>4, FilledMove DEF Refreshing, Looping
<1>5. ASSUME NEW r \in Requests,
             \/ ResetNodes(r) \/ RemakeMap(r) \/ NextNode(r) \/ AppendNode(r) \/ RecordNode(r)
             \/ EndOfNodes(r)
      PROVE  IndFilled' /\ (Begun => Begun')
  <2>1. UNCHANGED <<fresh, status, memory>>
        /\ at[r] \in {"resetNodes", "remakeMap", "next", "append", "record"}
        /\ at'[r] \in {"remakeMap", "next", "append", "record", "totals"}
        /\ \A s \in Requests \ {r} : at'[s] = at[s]
    BY <1>5 DEF ResetNodes, RemakeMap, NextNode, AppendNode, RecordNode, EndOfNodes,
         IndInfoType, InfoTypeOK
  <2>2. status # Null
    BY <2>1 DEF IndFilled, Looping
  <2>3. nodes' = nodes \/ nodes' # Null
    <3>1. IndInfoType'
      BY InfoTypeStep
    <3>2. nodes' \in Seq(Nodes)
      BY <2>1, <3>1 DEF IndInfoType
    <3> QED
      BY <3>2, InformationAssumption
  <2> QED
    BY <2>1, <2>2, <2>3, FilledMove DEF Refreshing, Looping
<1>6. ASSUME NEW r \in Requests, SetTotals(r)
      PROVE  IndFilled' /\ (Begun => Begun')
  <2>1. UNCHANGED <<fresh, status, nodes>> /\ at[r] = "totals" /\ at'[r] = "returned"
        /\ memory' = stats[r] /\ \A s \in Requests \ {r} : at'[s] = at[s]
    BY <1>6 DEF SetTotals, IndInfoType, InfoTypeOK
  <2>2. status # Null /\ nodes # Null /\ memory' # Null
    <3>1. stats[r] \in SUBSET Nodes /\ nodes \in Seq(Nodes)
      BY <2>1 DEF IndInfoType, InfoTypeOK
    <3> QED
      BY <2>1, <3>1, InformationAssumption DEF IndFilled, Looping
  <2> QED
    BY <2>1, <2>2, FilledMove DEF Refreshing, Looping
<1>7. ASSUME NEW r \in Requests, Retrieve(r) PROVE IndFilled' /\ (Begun => Begun')
  BY <1>2, <1>3, <1>4, <1>5, <1>6, <1>7 DEF Retrieve
<1> QED
  BY <1>1, <1>2, <1>7 DEF InfoNext

LEMMA FilledCorrect == Spec => []IndFilled
<1>1. IndInfoType /\ IndFilled /\ [Next]_vars => IndFilled'
  BY StepsOfInfo, FilledStep
<1> QED
  BY <1>1, FilledInit, InfoTypeCorrect, PTL DEF Spec
\* What each operation documents.
LEMMA DocumentedAre ==
  /\ Api["get_cluster"].documented = GetClusterDocumented
  /\ Api["get_node"].documented = GetNodeDocumented
  /\ Api["get_max_in_buffer_size"].documented = GetMaxInBufferSizeDocumented
  /\ Api["get_parallelism"].documented = GetParallelismDocumented
  /\ Api["get_table_csv"].documented = GetTableCsvDocumented
  /\ Api["get_tags"].documented = GetTagsDocumented
  /\ Api["login"].documented = LoginDocumented
  /\ Api["post_query"].documented = PostQueryDocumented
  /\ Api["prometheusRead"].documented = PrometheusReadDocumented
  /\ Api["prometheusWrite"].documented = PrometheusWriteDocumented
  /\ Api["status_liveness"].documented = StatusLivenessDocumented
  /\ Api["status_readiness"].documented = StatusReadinessDocumented
  BY DEF Api, Operation

\* A reader is documented for the code 200 only.
LEMMA ReadersAreOK ==
  ASSUME NEW id \in OperationIds, NEW code, Response(code, "binary") \in Api[id].documented
  PROVE  code = 200
<1>1. Api[id].documented \in
         {GetClusterDocumented, GetNodeDocumented, GetMaxInBufferSizeDocumented,
          GetParallelismDocumented, GetTableCsvDocumented, GetTagsDocumented, LoginDocumented,
          PostQueryDocumented, PrometheusReadDocumented, PrometheusWriteDocumented,
          StatusLivenessDocumented, StatusReadinessDocumented}
  BY DocumentedAre, OperationIdsAre
<1> QED
  BY <1>1 DEF Response, GetClusterDocumented, GetNodeDocumented, GetMaxInBufferSizeDocumented,
          GetParallelismDocumented, GetTableCsvDocumented, GetTagsDocumented, LoginDocumented,
          PostQueryDocumented, PrometheusReadDocumented, PrometheusWriteDocumented,
          StatusLivenessDocumented, StatusReadinessDocumented

\* The codes of requests that are refused before their handler runs.
LEMMA BindCodes ==
  ASSUME NEW id, NEW server, NEW contentType, NEW accept, NEW wellFormed
  PROVE  BindValidRequest(id, server, contentType, accept, wellFormed) \in {0, 400, 406, 415, 422}
  BY DEF BindValidRequest

\* The answer that is under way is documented and complete, and it has the information
\* about the cluster only if a refresh has begun; who is answered has what is documented.
AnswerOK(r) ==
    /\ place[r] = "respond" \/ (place[r] \in {"storeType", "storeData", "produced"} /\ op[r] # "get_tags") =>
           /\ answer[r].lacks = {}
           /\ Response(answer[r].code, answer[r].body) \in Api[op[r]].documented
    /\ place[r] = "respond" /\ answer[r].body = "Cluster" => Begun
    /\ place[r] = "answered" => DocumentedAnswer(r)

IndAnswers == \A r \in Requests : AnswerOK(r)

\* A step of one request does not disturb the answers of others.
LEMMA OthersStay ==
  ASSUME IndAnswers, Begun => Begun', NEW r, AnswerOK(r)',
         \A s \in Requests \ {r} : /\ place'[s] = place[s] /\ op'[s] = op[s]
                                   /\ answer'[s] = answer[s] /\ producer'[s] = producer[s]
  PROVE  IndAnswers'
<1>1. ASSUME NEW s \in Requests \ {r} PROVE AnswerOK(s)'
  <2>1. AnswerOK(s)
    BY DEF IndAnswers
  <2> QED
    BY <2>1 DEF AnswerOK, DocumentedAnswer
<1> QED
  BY <1>1 DEF IndAnswers

LEMMA FrameOfRequest ==
  ASSUME IndRequests, NEW r \in Requests, RequestStep(r)
  PROVE  \A s \in Requests \ {r} : /\ place'[s] = place[s] /\ op'[s] = op[s]
                                   /\ answer'[s] = answer[s] /\ producer'[s] = producer[s]
<1> USE DEF IndRequests, RequestTypes, Goto, Return, Refuse, Panic
<1>1. CASE Authorize(r) \/ Bind(r)
  BY <1>1, ZenonT(30) DEF Authorize, Bind, Proceed
<1>2. ASSUME NEW responses, Outcome(r, responses)
      PROVE  \A s \in Requests \ {r} : /\ place'[s] = place[s] /\ op'[s] = op[s]
                                       /\ answer'[s] = answer[s] /\ producer'[s] = producer[s]
  BY <1>2 DEF Outcome
<1>3. CASE \/ Login(r) \/ StatusLiveness(r) \/ StatusReadiness(r)
           \/ GetMaxInBufferSize(r) \/ GetParallelism(r) \/ PostQuery(r)
           \/ PrometheusWrite(r) \/ PrometheusRead(r) \/ GetTableCsv(r)
  BY <1>2, <1>3 DEF Login, StatusLiveness, StatusReadiness, GetMaxInBufferSize, GetParallelism,
       PostQuery, PrometheusWrite, PrometheusRead, GetTableCsv
<1>4. CASE RetrieveInformation(r) \/ GetCluster(r) \/ GetNode(r) \/ LookupNode(r) \/ FindTags(r)
  BY <1>2, <1>4 DEF RetrieveInformation, GetCluster, GetNode, LookupNode, FindTags
<1>5. CASE Compile(r) \/ NoExpression(r) \/ TestErr(r) \/ ReportErr(r)
  BY <1>5 DEF Compile, NoExpression, TestErr, ReportErr
<1>6. CASE \/ StoreType(r) \/ StoreData(r) \/ Respond(r) \/ ProduceCsv(r) \/ Produced(r)
           \/ Leave(r)
  BY <1>6 DEF StoreType, StoreData, Respond, ProduceCsv, Produced, Leave
<1> QED
  BY <1>1, <1>3, <1>4, <1>5, <1>6 DEF RequestStep, Handler

\* A request that is not being answered.
LEMMA NoAnswerYet ==
  ASSUME NEW r, place'[r] \notin {"respond", "answered", "produced"},
         place'[r] \in {"storeType", "storeData"} => op'[r] = "get_tags"
  PROVE  AnswerOK(r)'
  BY DEF AnswerOK

LEMMA ReturnAnswer ==
  ASSUME IndRequests, NEW r \in Requests, UNCHANGED op, NEW x \in Api[op[r]].documented,
         x = Response(x.code, x.body), x.body = "Cluster" => Begun', Return(r, x)
  PROVE  AnswerOK(r)'
<1>1. place'[r] = "respond"
  BY GotoIs DEF Return, IndRequests, RequestPlaces
<1>2. answer'[r] = Answer(x.code, x.body, {}, FALSE)
  BY AnswerIs DEF Return, IndRequests
<1> QED
  BY <1>1, <1>2 DEF AnswerOK, Answer

LEMMA RefuseAnswer ==
  ASSUME IndRequests, NEW r \in Requests, NEW code \in {400, 401, 406, 415, 422}, Refuse(r, code)
  PROVE  AnswerOK(r)'
<1>1. place'[r] = "answered"
  BY GotoIs DEF Refuse, IndRequests, RequestPlaces
<1>2. answer'[r] = Answer(code, "Error", {}, FALSE)
  <2>1. answer' = [answer EXCEPT ![r] = Answer(code, "Error", {}, FALSE)]
    BY DEF Refuse
  <2> QED
    BY <2>1 DEF IndRequests, RequestTypes
<1>3. Response(code, "Error") \in PipelineErrors
  BY DEF PipelineErrors
<1> QED
  BY <1>1, <1>2, <1>3 DEF AnswerOK, DocumentedAnswer, Answer

LEMMA PanicAnswer ==
  ASSUME IndRequests, NEW r \in Requests, NEW cause, Panic(r, cause)
  PROVE  AnswerOK(r)'
<1>1. place'[r] = "panicked"
  BY GotoIs DEF Panic, IndRequests, RequestPlaces
<1> QED
  BY <1>1 DEF AnswerOK

LEMMA OutcomeAnswer ==
  ASSUME IndRequests, NEW r \in Requests, NEW responses, responses \subseteq Api[op[r]].documented,
         \A x \in responses : x = Response(x.code, x.body) /\ x.body # "Cluster",
         Outcome(r, responses)
  PROVE  AnswerOK(r)'
  BY ReturnAnswer DEF Outcome
LEMMA PlainAnswers ==
  ASSUME IndRequests, NEW r \in Requests,
         \/ Login(r) \/ StatusLiveness(r) \/ StatusReadiness(r)
         \/ GetMaxInBufferSize(r) \/ GetParallelism(r) \/ PostQuery(r)
         \/ PrometheusWrite(r) \/ PrometheusRead(r) \/ GetTableCsv(r) \/ FindTags(r)
  PROVE  AnswerOK(r)'
<1> USE DEF Handles, At, Response
<1>1. CASE Login(r)
  <2>1. op[r] = "login"
    BY <1>1, ServerIsOp DEF Login
  <2>2. CASE Outcome(r, {LoginResponses.OK, LoginResponses.Unauthorized})
    BY <2>1, <2>2, OutcomeAnswer, DocumentedAre DEF LoginDocumented, LoginResponses
  <2> QED
    BY <1>1, <2>2, PanicAnswer DEF Login
<1>2. CASE StatusLiveness(r)
  <2>1. op[r] = "status_liveness"
    BY <1>2, ServerIsOp DEF StatusLiveness
  <2> QED
    BY <1>2, <2>1, OutcomeAnswer, DocumentedAre
       DEF StatusLiveness, StatusLivenessDocumented, StatusLivenessResponses
<1>3. CASE StatusReadiness(r)
  <2>1. op[r] = "status_readiness"
    BY <1>3, ServerIsOp DEF StatusReadiness
  <2> QED
    BY <1>3, <2>1, OutcomeAnswer, DocumentedAre
       DEF StatusReadiness, StatusReadinessDocumented, StatusReadinessResponses
<1>4. CASE GetMaxInBufferSize(r)
  <2>1. op[r] = "get_max_in_buffer_size"
    BY <1>4, ServerIsOp DEF GetMaxInBufferSize
  <2> QED
    BY <1>4, <2>1, OutcomeAnswer, DocumentedAre
       DEF GetMaxInBufferSize, GetMaxInBufferSizeDocumented, GetMaxInBufferSizeResponses
<1>5. CASE GetParallelism(r)
  <2>1. op[r] = "get_parallelism"
    BY <1>5, ServerIsOp DEF GetParallelism
  <2> QED
    BY <1>5, <2>1, OutcomeAnswer, DocumentedAre
       DEF GetParallelism, GetParallelismDocumented, GetParallelismResponses
<1>6. CASE PostQuery(r)
  <2>1. op[r] = "post_query"
    BY <1>6, ServerIsOp DEF PostQuery
  <2> QED
    BY <1>6, <2>1, OutcomeAnswer, DocumentedAre DEF PostQuery, PostQueryDocumented, PostQueryResponses
<1>7. CASE PrometheusWrite(r)
  <2>1. op[r] = "prometheusWrite"
    BY <1>7, ServerIsOp DEF PrometheusWrite
  <2> QED
    BY <1>7, <2>1, OutcomeAnswer, DocumentedAre
       DEF PrometheusWrite, PrometheusWriteDocumented, PrometheusWriteResponses
<1>8. CASE PrometheusRead(r)
  <2>1. op[r] = "prometheusRead"
    BY <1>8, ServerIsOp DEF PrometheusRead
  <2>2. CASE Outcome(r, {PrometheusReadResponses.OK, PrometheusReadResponses.InternalServerError})
    BY <2>1, <2>2, OutcomeAnswer, DocumentedAre
       DEF PrometheusReadDocumented, PrometheusReadResponses
  <2> QED
    BY <1>8, <2>2, PanicAnswer DEF PrometheusRead
<1>9. CASE GetTableCsv(r)
  <2>1. op[r] = "get_table_csv"
    BY <1>9, ServerIsOp DEF GetTableCsv
  <2>2. CASE Outcome(r, {GetTableCsvResponses.OK, GetTableCsvResponses.BadRequest,
                         GetTableCsvResponses.InternalServerError})
    BY <2>1, <2>2, OutcomeAnswer, DocumentedAre DEF GetTableCsvDocumented, GetTableCsvResponses
  <2> QED
    BY <1>9, <2>2, PanicAnswer DEF GetTableCsv
<1>10. CASE FindTags(r)
  <2>1. op[r] = "get_tags"
    BY <1>10 DEF FindTags, IndRequests, RequestOK
  <2> QED
    BY <1>10, <2>1, OutcomeAnswer, DocumentedAre DEF FindTags, GetTagsDocumented, GetTagsResponses
<1> QED
  BY <1>1, <1>2, <1>3, <1>4, <1>5, <1>6, <1>7, <1>8, <1>9, <1>10

LEMMA TagsAnswers ==
  ASSUME IndRequests, NEW r \in Requests,
         Compile(r) \/ NoExpression(r) \/ TestErr(r) \/ ReportErr(r)
  PROVE  AnswerOK(r)'
<1>1. CASE Compile(r)
  <2>1. op[r] = "get_tags" /\ op' = op
    BY <1>1, ServerIsOp DEF Compile, Handles, At
  <2>2. place'[r] \in {"storeType", "test"}
    BY <1>1, GotoIs DEF Compile, IndRequests, RequestPlaces
  <2> QED
    BY <2>1, <2>2, NoAnswerYet
<1>2. CASE NoExpression(r)
  <2>1. place'[r] = "find"
    BY <1>2, GotoIs DEF NoExpression, IndRequests, RequestPlaces
  <2> QED
    BY <2>1, NoAnswerYet
<1>3. CASE TestErr(r)
  <2>1. place'[r] \in {"find", "report"}
    BY <1>3, GotoIs DEF TestErr, IndRequests, RequestPlaces
  <2> QED
    BY <2>1, NoAnswerYet
<1>4. CASE ReportErr(r)
  <2>1. op[r] = "get_tags" /\ op' = op
    BY <1>4 DEF ReportErr, At, IndRequests, RequestOK
  <2>2. CASE Return(r, GetTagsResponses.InternalServerError)
    <3>1. GetTagsResponses.InternalServerError = Response(500, "QdbError")
          /\ Response(500, "QdbError") \in Api[op[r]].documented
      BY <2>1, DocumentedAre DEF GetTagsResponses, GetTagsDocumented
    <3> QED
      BY <2>1, <2>2, <3>1, ReturnAnswer DEF Response
  <2> QED
    BY <1>4, <2>2, PanicAnswer DEF ReportErr
<1> QED
  BY <1>1, <1>2, <1>3, <1>4

LEMMA InformationAnswers ==
  ASSUME IndFilled, Begun => Begun', IndRequests, NEW r \in Requests,
         RetrieveInformation(r) \/ GetCluster(r) \/ GetNode(r) \/ LookupNode(r)
  PROVE  AnswerOK(r)'
<1>1. /\ GetClusterResponses.OK = Response(200, "Cluster")
      /\ GetClusterResponses.BadRequest = Response(400, "QdbError")
      /\ GetNodeResponses.OK = Response(200, "Node")
      /\ GetNodeResponses.BadRequest = Response(400, "QdbError")
      /\ PostQueryResponses.InternalServerError = Response(500, "QdbError")
  BY DEF GetClusterResponses, GetNodeResponses, PostQueryResponses
<1>2. /\ op[r] = "get_cluster" =>
            {Response(200, "Cluster"), Response(400, "QdbError"), Response(500, "QdbError")}
               \subseteq Api[op[r]].documented
      /\ op[r] = "get_node" =>
            {Response(200, "Node"), Response(400, "QdbError"), Response(500, "QdbError")}
               \subseteq Api[op[r]].documented
  BY DocumentedAre DEF GetClusterDocumented, GetNodeDocumented
<1>3. CASE RetrieveInformation(r)
  <2>1. op[r] \in {"get_cluster", "get_node"}
    BY <1>3, ServerIsOp DEF RetrieveInformation, At
  <2>2. CASE Outcome(r, {PostQueryResponses.InternalServerError})
    BY <1>1, <1>2, <2>1, <2>2, OutcomeAnswer DEF Response
  <2>3. CASE Goto(r, "retrieve")
    <3>1. place'[r] = "retrieve"
      BY <2>3, GotoIs DEF IndRequests, RequestPlaces
    <3> QED
      BY <3>1, NoAnswerYet
  <2> QED
    BY <1>3, <2>2, <2>3 DEF RetrieveInformation
<1>4. CASE GetCluster(r)
  <2>1. at[r] = "returned" /\ op[r] = "get_cluster" /\ op' = op
    BY <1>4, ServerIsOp DEF GetCluster, IndRequests, RequestOK
  <2>2. Begun'
    BY <2>1 DEF IndFilled
  <2>3. PICK x \in {GetClusterResponses.OK, GetClusterResponses.BadRequest} : Return(r, x)
    BY <1>4 DEF GetCluster
  <2> QED
    BY <1>1, <1>2, <2>1, <2>2, <2>3, ReturnAnswer DEF Response
<1>5. CASE GetNode(r)
  <2>1. op[r] = "get_node" /\ op' = op
    BY <1>5, ServerIsOp DEF GetNode, IndRequests, RequestOK
  <2>2. CASE Return(r, GetNodeResponses.BadRequest)
    BY <1>1, <1>2, <2>1, <2>2, ReturnAnswer DEF Response
  <2>3. CASE Goto(r, "lookup")
    <3>1. place'[r] = "lookup"
      BY <2>3, GotoIs DEF IndRequests, RequestPlaces
    <3> QED
      BY <3>1, NoAnswerYet
  <2> QED
    BY <1>5, <2>2, <2>3 DEF GetNode
<1>6. CASE LookupNode(r)
  <2>1. op[r] = "get_node" /\ op' = op
    BY <1>6 DEF LookupNode, At, IndRequests, RequestOK
  <2>2. CASE Return(r, GetNodeResponses.OK)
    BY <1>1, <1>2, <2>1, <2>2, ReturnAnswer DEF Response
  <2> QED
    BY <1>6, <2>2, PanicAnswer DEF LookupNode
<1> QED
  BY <1>3, <1>4, <1>5, <1>6

LEMMA RefusedAnswers ==
  ASSUME IndRequests, NEW r \in Requests, Authorize(r) \/ Bind(r)
  PROVE  AnswerOK(r)'
<1>1. CASE Authorize(r)
  <2>1. place[r] = "authorize"
    BY <1>1 DEF Authorize, At
  <2>2. Proceed(r) \/ Panic(r, "refused") \/ Refuse(r, 401)
    BY <1>1 DEF Authorize
  <2>3. CASE Proceed(r)
    <3>1. place'[r] = "bind"
      BY <2>1, <2>3, ProceedIs, GotoIs DEF IndRequests, RequestPlaces
    <3> QED
      BY <3>1, NoAnswerYet
  <2> QED
    BY <2>2, <2>3, PanicAnswer, RefuseAnswer
<1>2. CASE Bind(r)
  <2>1. place[r] = "bind"
    BY <1>2 DEF Bind, At
  <2>2. Proceed(r) \/ \E code \in {400, 401, 406, 415, 422} : Refuse(r, code)
    <3>1. \A contentType, accept, wellFormed :
             BindValidRequest(op[r], Server(r), contentType, accept, wellFormed)
                \in {0, 400, 406, 415, 422}
      BY BindCodes
    <3> QED
      BY <1>2, <3>1 DEF Bind
  <2>3. CASE Proceed(r)
    <3>1. place'[r] = "handle"
      BY <2>1, <2>3, ProceedIs, GotoIs DEF IndRequests, RequestPlaces
    <3> QED
      BY <3>1, NoAnswerYet
  <2> QED
    BY <2>2, <2>3, RefuseAnswer
<1> QED
  BY <1>1, <1>2
LEMMA StoredAnswers ==
  ASSUME IndRequests, IndAnswers, NEW r \in Requests, StoreType(r) \/ StoreData(r)
  PROVE  AnswerOK(r)'
<1>1. /\ place[r] \in {"storeType", "storeData"}
      /\ UNCHANGED <<op, answer>>
      /\ place'[r] \in {"storeData", "test", "produced"}
      /\ op[r] = "get_tags" => place'[r] # "produced"
  BY ServerIsOp, GotoIs DEF StoreType, StoreData, At, IndRequests, RequestPlaces
<1>2. AnswerOK(r)
  BY DEF IndAnswers
<1> QED
  BY <1>1, <1>2 DEF AnswerOK

\* When no refresh is under way and one has been completed, only what nobody fills is
\* missing in the information about the cluster.
LEMMA ClusterLacks ==
  ASSUME IndInfoType, IndFilled, Begun, \A s \in Requests : ~Refreshing(s)
  PROVE  Lacking("Cluster") = {"diskTotal", "diskUsed"}
<1>1. memory # Null /\ nodes # Null /\ status # Null
  BY DEF Begun, IndFilled
<1>2. status # ""
  BY DEF IndFilled, Refreshing
<1>3. status \in {"stable", "unstable"}
  BY <1>1, <1>2 DEF IndInfoType, InfoTypeOK
<1>4. DOMAIN ClusterFields = {"status", "nodes", "memoryTotal", "memoryUsed"}
  BY <1>1 DEF ClusterFields
<1>5. ClusterFields["status"] = status
  BY <1>1 DEF ClusterFields
<1>6. ClusterErrors(ClusterFields) = {"diskTotal", "diskUsed"}
  BY <1>3, <1>4, <1>5 DEF ClusterErrors, ClusterRequired, StatusEnum
<1> QED
  BY <1>6 DEF Lacking

LEMMA NodeLacks == Lacking("Node") = {"diskTotal", "diskUsed", "cpuTotal", "cpuUsed"}
  BY DEF Lacking, NodeErrors, NodeRequired, NodeFields

\* A documented body is written as it is documented, or as one of the exceptions.
LEMMA WrittenAnswer ==
  ASSUME IndInfoType, IndFilled, IndRequests, IndAnswers, NEW r \in Requests, Respond(r)
  PROVE  AnswerOK(r)'
<1> DEFINE code == answer[r].code
           body == answer[r].body
           documented == Api[op[r]].documented
           during == \E s \in Requests \ {r} : Refreshing(s)
<1>1. place[r] = "respond" /\ place'[r] = "answered" /\ UNCHANGED <<op, producer>>
  BY GotoIs DEF Respond, At, IndRequests, RequestPlaces
<1>2. answer'[r] = Answer(code, Encoded(producer[r], body), Lacking(body), during)
  BY DEF Respond, IndRequests, RequestTypes
<1>3. Response(code, body) \in documented /\ (body = "Cluster" => Begun)
  BY <1>1 DEF IndAnswers, AnswerOK
<1>4. op[r] \in OperationIds
  BY <1>1, ServerIsOp
<1>5. \/ Encoded(producer[r], body) = body
      \/ Encoded(producer[r], body) = "none" /\ producer[r] = "ProtobufProducer"
      \/ Encoded(producer[r], body) = "garbled" /\ producer[r] = "JSONProducer" /\ body = "binary"
  BY DEF Encoded
<1>6. body = "binary" => code = 200
  BY <1>3, <1>4, ReadersAreOK
<1>7. Lacking(body) \subseteq {"diskTotal", "diskUsed", "cpuTotal", "cpuUsed"} \/ during
  <2>1. CASE body = "Cluster" /\ ~during
    <3>1. ~Refreshing(r)
      BY <1>1 DEF IndRequests, Refreshing
    <3>2. \A s \in Requests : ~Refreshing(s)
      BY <2>1, <3>1
    <3> QED
      BY <1>3, <2>1, <3>2, ClusterLacks
  <2>2. CASE body = "Node"
    BY <2>2, NodeLacks
  <2>3. CASE body \notin {"Cluster", "Node"}
    BY <2>3 DEF Lacking
  <2> QED
    BY <2>1, <2>2, <2>3
<1>8. Response(code, body).code = code
  BY DEF Response
<1> HIDE DEF code, body, documented, during
<1>9. answer'[r].code = code /\ answer'[r].body = Encoded(producer[r], body)
      /\ answer'[r].lacks = Lacking(body) /\ answer'[r].during = during
  BY <1>2 DEF Answer
<1>10. DocumentedAnswer(r)'
  <2>1. \/ Response(answer'[r].code, answer'[r].body) \in documented \cup PipelineErrors
        \/ answer'[r].body = "none" /\ producer'[r] = "ProtobufProducer"
             /\ \E d \in documented \cup PipelineErrors : d.code = answer'[r].code
        \/ answer'[r].body = "garbled" /\ answer'[r].code = 200
             /\ Response(200, "binary") \in documented \cup PipelineErrors
             /\ producer'[r] = "JSONProducer"
    <3>1. CASE Encoded(producer[r], body) = body
      BY <1>3, <1>9, <3>1
    <3>2. CASE Encoded(producer[r], body) = "none" /\ producer[r] = "ProtobufProducer"
      BY <1>1, <1>3, <1>8, <1>9, <3>2
    <3>3. CASE Encoded(producer[r], body) = "garbled" /\ producer[r] = "JSONProducer"
               /\ body = "binary"
      BY <1>1, <1>3, <1>6, <1>9, <3>3
    <3> QED
      BY <1>5, <3>1, <3>2, <3>3
  <2>2. answer'[r].lacks \subseteq {"diskTotal", "diskUsed", "cpuTotal", "cpuUsed"}
           \/ answer'[r].during
    BY <1>7, <1>9
  <2> QED
    BY <1>1, <2>1, <2>2 DEF DocumentedAnswer, documented
<1> QED
  BY <1>1, <1>10 DEF AnswerOK

LEMMA ProducedAnswers ==
  ASSUME IndRequests, IndAnswers, NEW r \in Requests,
         ProduceCsv(r) \/ Produced(r) \/ Leave(r)
  PROVE  AnswerOK(r)'
<1>1. AnswerOK(r)
  BY DEF IndAnswers
<1>2. CASE ProduceCsv(r)
  <2>1. CASE Goto(r, "storeType") /\ UNCHANGED <<op, answer>> /\ place[r] = "respond"
    <3>1. place'[r] = "storeType"
      BY <2>1, GotoIs DEF IndRequests, RequestPlaces
    <3> QED
      BY <1>1, <2>1, <3>1 DEF AnswerOK
  <2> QED
    BY <1>2, <2>1, PanicAnswer DEF ProduceCsv, At
<1>3. CASE Produced(r)
  <2>1. CASE Goto(r, "answered") /\ UNCHANGED <<op, producer, answer>>
    <3>1. place'[r] = "answered"
      BY <2>1, GotoIs DEF IndRequests, RequestPlaces
    <3>2. place[r] = "produced" /\ op[r] # "get_tags"
      BY <1>3 DEF Produced, At, IndRequests, RequestOK
    <3>3. answer[r].lacks = {} /\ Response(answer[r].code, answer[r].body) \in Api[op[r]].documented
      BY <1>1, <3>2 DEF AnswerOK
    <3>4. DocumentedAnswer(r)
      BY <3>3 DEF DocumentedAnswer
    <3>5. DocumentedAnswer(r)'
      BY <2>1, <3>4 DEF DocumentedAnswer
    <3> QED
      BY <3>1, <3>5 DEF AnswerOK
  <2> QED
    BY <1>3, <2>1, PanicAnswer DEF Produced
<1>4. CASE Leave(r)
  <2>1. place'[r] = "idle"
    BY <1>4, GotoIs DEF Leave, IndRequests, RequestPlaces
  <2> QED
    BY <2>1, NoAnswerYet
<1> QED
  BY <1>2, <1>3, <1>4

LEMMA AnswersInit == Init => IndAnswers
<1> SUFFICES ASSUME Init, NEW r \in Requests PROVE AnswerOK(r)
  BY DEF IndAnswers
<1>1. place[r] = "idle"
  BY DEF Init
<1> QED
  BY <1>1 DEF AnswerOK

LEMMA AnswersStep ==
  ASSUME IndInfoType, IndFilled, IndRequests, IndAnswers, [Next]_vars
  PROVE  IndAnswers'
<1>1. Begun => Begun'
  BY StepsOfInfo, FilledStep
<1>2. ASSUME UNCHANGED requestVars PROVE IndAnswers'
  <2>1. ASSUME NEW s \in Requests PROVE AnswerOK(s)'
    <3>1. AnswerOK(s)
      BY DEF IndAnswers
    <3> QED
      BY <1>1, <1>2, <3>1 DEF AnswerOK, DocumentedAnswer, requestVars
  <2> QED
    BY <2>1 DEF IndAnswers
<1>3. CASE UNCHANGED vars
  BY <1>2, <1>3 DEF vars
<1>4. CASE DataRace
  BY <1>2, <1>4 DEF DataRace
<1>5. ASSUME NEW r \in Requests, RequestStep(r) PROVE IndAnswers'
  <2>1. AnswerOK(r)'
    BY <1>1, <1>5, PlainAnswers, TagsAnswers, InformationAnswers, RefusedAnswers, StoredAnswers,
       WrittenAnswer, ProducedAnswers DEF RequestStep, Handler
  <2> QED
    BY <1>1, <1>5, <2>1, FrameOfRequest, OthersStay
<1>6. ASSUME NEW r \in Requests, NEW id \in load[r], Arrive(r, id) PROVE IndAnswers'
  <2>1. id \in OperationIds
    BY RequestsAssumption DEF IndRequests, RequestTypes
  <2>2. Goto(r, Head(Api[id].stages)) /\ Head(Api[id].stages) \in {"authorize", "bind"}
    BY <1>6, <2>1, HandlerIsOwn, StagesAgree, StagesAre DEF Arrive
  <2>3. place'[r] \in {"authorize", "bind"} /\ \A s \in Requests \ {r} : place'[s] = place[s]
    BY <2>2 DEF Goto, IndRequests, RequestTypes
  <2>4. AnswerOK(r)'
    BY <2>3, NoAnswerYet
  <2>5. \A s \in Requests \ {r} : /\ op'[s] = op[s]
                                  /\ answer'[s] = answer[s] /\ producer'[s] = producer[s]
    BY <1>6 DEF Arrive, IndRequests, RequestTypes
  <2> QED
    BY <1>1, <2>3, <2>4, <2>5, OthersStay
<1> QED
  BY <1>2, <1>3, <1>4, <1>5, <1>6 DEF Next

LEMMA AnswersCorrect == Spec => []IndAnswers
<1>1. IndInfoType /\ IndFilled /\ IndRequests /\ IndAnswers /\ [Next]_vars => IndAnswers'
  BY AnswersStep
<1> QED
  BY <1>1, AnswersInit, InfoTypeCorrect, FilledCorrect, RequestsCorrect, PTL DEF Spec

\* Whatever operations are requested and however refreshes of the information overlap:
\* who is answered gets what the documentation of his operation says, but for the
\* exceptions that the property names.
THEOREM AnswerIsDocumentedCorrect == Spec => []AnswerIsDocumented
<1>1. IndAnswers => AnswerIsDocumented
  BY DEF IndAnswers, AnswerOK, AnswerIsDocumented, At
<1> QED
  BY <1>1, AnswersCorrect, PTL

-----------------------------------------------------------------------------
(* The contract with the client.                                           *)

\* While it is kept, there is a reply only for who has been replied to.
Honouring ==
    /\ DOMAIN op = Requests /\ DOMAIN principal = Requests
    /\ DOMAIN phases = Requests /\ DOMAIN replies = Requests
    /\ \A r \in Requests : replies[r] # Null => phases[r] = "replied"
    /\ Contract!Honoured

LEMMA HonouringStep ==
  ASSUME Honouring, [Contract!Next]_(Contract!contractVars)
  PROVE  Honouring'
<1> USE DEF Honouring, Contract!Honoured, Contract!MayBeServed, Contract!Move
<1>1. CASE UNCHANGED Contract!contractVars
  BY <1>1 DEF Contract!contractVars
<1>2. ASSUME NEW r \in Requests, Contract!Ask(r) PROVE Honouring'
  BY <1>2 DEF Contract!Ask
<1>3. ASSUME NEW r \in Requests, Contract!Admit(r) PROVE Honouring'
  BY <1>3 DEF Contract!Admit
<1>4. ASSUME NEW r \in Requests, Contract!Serve(r) PROVE Honouring'
  BY <1>4 DEF Contract!Serve
<1>5. ASSUME NEW r \in Requests, Contract!Deny(r) PROVE Honouring'
  BY <1>5 DEF Contract!Deny, Contract!Refusals
<1>6. ASSUME NEW r \in Requests, Contract!Reply(r) PROVE Honouring'
  BY <1>6 DEF Contract!Reply
<1>7. ASSUME NEW r \in Requests, Contract!Abort(r) PROVE Honouring'
  BY <1>7 DEF Contract!Abort
<1>8. ASSUME NEW r \in Requests, Contract!Leave(r) PROVE Honouring'
  BY <1>8 DEF Contract!Leave
<1> QED
  BY <1>1, <1>2, <1>3, <1>4, <1>5, <1>6, <1>7, <1>8 DEF Contract!Next

\* The contract is worth having.
LEMMA ContractHonours == Contract!Spec => []Contract!Honoured
<1>1. Contract!Init => Honouring
  BY DEF Contract!Init, Honouring, Contract!Honoured
<1>2. Honouring => Contract!Honoured
  BY DEF Honouring
<1> QED
  BY <1>1, <1>2, HonouringStep, PTL DEF Contract!Spec

\* Two facts that the contract needs of a request: who is being authorized has not been
\* before, and the empty answers are those of operations that answer with protobuf.
ContractOK(r) ==
    /\ place[r] = "authorize" => ~principal[r]
    /\ place[r] # "idle" /\ producer[r] = "ProtobufProducer" =>
           Protobuf \in TypesIn(Produces(op[r]))

IndContract == \A r \in Requests : ContractOK(r)

LEMMA DummyIsProtobuf ==
  ASSUME NEW id, NEW format, ProducerOf(id, format) = "ProtobufProducer"
  PROVE  Protobuf \in TypesIn(Produces(id))
<1>1. JSON # CSV /\ JSON # Protobuf /\ CSV # Protobuf
  BY DEF JSON, CSV, Protobuf
<1>2. ProducersFor({DefaultProduces})[DefaultProduces] = "JSONProducer"
  BY <1>1 DEF ProducersFor, DefaultProduces
<1>3. \A types : \A mt \in DOMAIN ProducersFor(types) :
         ProducersFor(types)[mt] = "ProtobufProducer" => Protobuf \in types
  BY <1>1 DEF ProducersFor
<1> QED
  BY <1>2, <1>3 DEF ProducerOf

\* Where the handler of a request runs, or has run.
ServedPlaces == RequestPlaces \ {"idle", "authorize", "bind", "answered", "panicked"}

\* The handlers and what follows them: they change neither who the request is from nor
\* what it asks for, and end with an answer that has been written, or with a panic.
LEMMA ServedGoes ==
  ASSUME IndRequests, NEW r \in Requests,
         Handler(r) \/ StoreType(r) \/ StoreData(r) \/ Respond(r) \/ ProduceCsv(r) \/ Produced(r)
  PROVE  /\ UNCHANGED <<op, principal, producer>>
         /\ place[r] \in ServedPlaces
         /\ place'[r] \in ServedPlaces \cup {"answered", "panicked"}
         /\ place'[r] = "answered" => Respond(r) \/ Produced(r)
<1> USE DEF ServedPlaces, RequestPlaces, At, Handles
<1>1. ASSUME NEW p \in RequestPlaces, Goto(r, p) PROVE place'[r] = p
  BY <1>1, GotoIs DEF IndRequests
<1>2. ASSUME NEW x, Return(r, x) PROVE place'[r] = "respond"
  BY <1>1, <1>2 DEF Return
<1>3. ASSUME NEW cause, Panic(r, cause) PROVE place'[r] = "panicked"
  BY <1>1, <1>3 DEF Panic
<1>4. ASSUME NEW responses, Outcome(r, responses)
      PROVE  place'[r] = "respond" /\ UNCHANGED <<op, principal, producer>>
  BY <1>2, <1>4 DEF Outcome
<1>5. at[r] = "returned" => place[r] = "retrieve"
  BY DEF IndRequests
<1>6. CASE \/ Login(r) \/ StatusLiveness(r) \/ StatusReadiness(r)
           \/ GetMaxInBufferSize(r) \/ GetParallelism(r) \/ PostQuery(r)
           \/ PrometheusWrite(r) \/ PrometheusRead(r) \/ GetTableCsv(r)
  BY <1>3, <1>4, <1>6 DEF Login, StatusLiveness, StatusReadiness, GetMaxInBufferSize,
       GetParallelism, PostQuery, PrometheusWrite, PrometheusRead, GetTableCsv
<1>7. CASE RetrieveInformation(r)
  BY <1>1, <1>4, <1>7 DEF RetrieveInformation
<1>8. CASE GetCluster(r) \/ GetNode(r)
  BY <1>1, <1>2, <1>5, <1>8 DEF GetCluster, GetNode
<1>9. CASE LookupNode(r)
  BY <1>2, <1>3, <1>9 DEF LookupNode
<1>10. CASE Compile(r) \/ NoExpression(r) \/ TestErr(r)
  BY <1>1, <1>10 DEF Compile, NoExpression, TestErr
<1>11. CASE ReportErr(r)
  BY <1>2, <1>3, <1>11 DEF ReportErr
<1>12. CASE FindTags(r)
  BY <1>4, <1>12 DEF FindTags
<1>13. CASE StoreType(r) \/ StoreData(r)
  BY <1>1, <1>13 DEF StoreType, StoreData
<1>14. CASE Respond(r)
  BY <1>1, <1>14 DEF Respond
<1>15. CASE ProduceCsv(r)
  BY <1>1, <1>3, <1>15 DEF ProduceCsv
<1>16. CASE Produced(r)
  BY <1>1, <1>3, <1>16 DEF Produced
<1> QED
  BY <1>6, <1>7, <1>8, <1>9, <1>10, <1>11, <1>12, <1>13, <1>14, <1>15, <1>16 DEF Handler

\* What a step of a request leaves alone: the other requests.
LEMMA OthersOfStep ==
  ASSUME IndRequests, NEW r \in Requests, RequestStep(r) \/ \E id \in load[r] : Arrive(r, id)
  PROVE  \A s \in Requests \ {r} :
            /\ place'[s] = place[s] /\ op'[s] = op[s] /\ principal'[s] = principal[s]
            /\ answer'[s] = answer[s] /\ producer'[s] = producer[s]
<1> USE DEF IndRequests, RequestTypes
<1>1. CASE RequestStep(r)
  <2>1. principal' = principal \/ \E b \in BOOLEAN : principal' = [principal EXCEPT ![r] = b]
    <3>1. CASE Authorize(r)
      BY <3>1 DEF Authorize
    <3>2. CASE Bind(r) \/ Leave(r)
      BY <3>2 DEF Bind, Leave
    <3> QED
      BY <1>1, <3>1, <3>2, ServedGoes DEF RequestStep
  <2> QED
    BY <1>1, <2>1, FrameOfRequest
<1>2. ASSUME NEW id \in load[r], Arrive(r, id)
      PROVE  \A s \in Requests \ {r} :
                /\ place'[s] = place[s] /\ op'[s] = op[s] /\ principal'[s] = principal[s]
                /\ answer'[s] = answer[s] /\ producer'[s] = producer[s]
  BY <1>2 DEF Arrive, Goto
<1> QED
  BY <1>1, <1>2

\* Arriving, and being authorized.
LEMMA ArriveIs ==
  ASSUME IndRequests, NEW r \in Requests, NEW id \in load[r], Arrive(r, id)
  PROVE  /\ id \in OperationIds
         /\ place[r] = "idle" /\ place'[r] \in {"authorize", "bind"}
         /\ op' = [op EXCEPT ![r] = id] /\ op'[r] = id
         /\ UNCHANGED <<principal, producer, answer>>
         /\ ~principal[r] /\ producer[r] = "JSONProducer"
<1>1. id \in OperationIds
  BY RequestsAssumption DEF IndRequests, RequestTypes
<1>2. Goto(r, Head(Api[id].stages)) /\ Head(Api[id].stages) \in {"authorize", "bind"}
  BY <1>1, HandlerIsOwn, StagesAgree, StagesAre DEF Arrive
<1>3. place'[r] \in {"authorize", "bind"} /\ op' = [op EXCEPT ![r] = id] /\ op'[r] = id
  BY <1>2 DEF Arrive, Goto, IndRequests, RequestTypes
<1>4. place[r] = "idle" /\ UNCHANGED <<principal, producer, answer>>
  BY DEF Arrive, At
<1> QED
  BY <1>1, <1>3, <1>4 DEF IndRequests, RequestOK

LEMMA AuthorizeIs ==
  ASSUME IndRequests, NEW r \in Requests, Authorize(r)
  PROVE  /\ place[r] = "authorize" /\ op[r] \in ProtectedIds /\ UNCHANGED <<op, producer>>
         /\ \/ place'[r] = "bind" /\ principal' = [principal EXCEPT ![r] = TRUE] /\ UNCHANGED answer
            \/ place'[r] = "panicked" /\ principal' = [principal EXCEPT ![r] = FALSE]
            \/ place'[r] = "answered" /\ principal' = [principal EXCEPT ![r] = FALSE]
               /\ answer'[r] = Answer(401, "Error", {}, FALSE)
<1>1. place[r] = "authorize" /\ op[r] \in OperationIds /\ Api[op[r]].route.secured
      /\ UNCHANGED <<op, producer>>
  <2>1. place[r] = "authorize" /\ UNCHANGED <<op, producer>>
    BY DEF Authorize, At
  <2>2. RequestOK(r)
    BY DEF IndRequests
  <2>3. op[r] \in OperationIds
    BY <2>1, ServerIsOp
  <2> QED
    BY <2>1, <2>2, <2>3 DEF RequestOK
<1>2. PICK outcome \in {"good", "refused", "unauthenticated"} :
        /\ principal' = [principal EXCEPT ![r] = outcome = "good"]
        /\ \/ outcome = "good" /\ Proceed(r) /\ UNCHANGED answer
           \/ outcome = "refused" /\ Panic(r, "refused")
           \/ outcome = "unauthenticated" /\ Refuse(r, 401)
  BY <1>1, ZenonT(30) DEF Authorize, Authenticate
<1>3. op[r] \in ProtectedIds
  BY <1>1 DEF ProtectedIds
<1>4. CASE outcome = "good"
  <2>1. Goto(r, "bind") /\ UNCHANGED answer
    BY <1>1, <1>2, <1>4, ProceedIs
  <2>2. place'[r] = "bind"
    BY <2>1, GoesTo DEF RequestPlaces
  <2>3. principal' = [principal EXCEPT ![r] = TRUE]
    BY <1>2, <1>4
  <2> QED
    BY <1>1, <1>3, <2>1, <2>2, <2>3
<1>5. CASE outcome = "refused"
  <2>1. place'[r] = "panicked"
    <3>1. Goto(r, "panicked")
      BY <1>2, <1>5 DEF Panic
    <3> QED
      BY <3>1, GoesTo DEF RequestPlaces
  <2>2. principal' = [principal EXCEPT ![r] = FALSE]
    BY <1>2, <1>5
  <2> QED
    BY <1>1, <1>3, <2>1, <2>2
<1>6. CASE outcome = "unauthenticated"
  <2>1. Goto(r, "answered") /\ answer' = [answer EXCEPT ![r] = Answer(401, "Error", {}, FALSE)]
    BY <1>2, <1>6 DEF Refuse
  <2>2. place'[r] = "answered"
    BY <2>1, GoesTo DEF RequestPlaces
  <2>3. answer'[r] = Answer(401, "Error", {}, FALSE)
    BY <2>1, AnswersWith, ZenonT(30)
  <2>4. principal' = [principal EXCEPT ![r] = FALSE]
    BY <1>2, <1>6
  <2> QED
    BY <1>1, <1>3, <2>2, <2>3, <2>4
<1> QED
  BY <1>2, <1>4, <1>5, <1>6

\* Being bound: the operation is served, or the request refused.
LEMMA BindIs ==
  ASSUME IndRequests, NEW r \in Requests, Bind(r)
  PROVE  /\ place[r] = "bind" /\ UNCHANGED <<op, principal>>
         /\ \/ place'[r] = "handle" /\ UNCHANGED answer
               /\ \E format : producer' = [producer EXCEPT ![r] = ProducerOf(op[r], format)]
            \/ place'[r] = "answered" /\ UNCHANGED producer
               /\ \E code \in {400, 406, 415, 422} : answer'[r] = Answer(code, "Error", {}, FALSE)
<1>1. place[r] = "bind" /\ UNCHANGED <<op, principal>>
  BY DEF Bind, At
<1>2. PICK code \in {0, 400, 406, 415, 422} :
        \/ code # 0 /\ Refuse(r, code) /\ UNCHANGED producer
        \/ \E format : /\ producer' = [producer EXCEPT ![r] = ProducerOf(op[r], format)]
                       /\ Proceed(r) /\ UNCHANGED answer
  <2>1. PICK contentType, accept, wellFormed :
          LET code == BindValidRequest(op[r], Server(r), contentType, accept, wellFormed)
          IN IF code # 0
               THEN Refuse(r, code) /\ UNCHANGED producer
               ELSE /\ producer' = [producer EXCEPT ![r] = ProducerOf(op[r],
                           NegotiateContentType(accept, Produces(op[r]), NoFormat))]
                    /\ Proceed(r)
                    /\ UNCHANGED answer
    BY DEF Bind
  <2>2. BindValidRequest(op[r], Server(r), contentType, accept, wellFormed) \in {0, 400, 406, 415, 422}
    BY BindCodes
  <2> QED
    BY <2>1, <2>2
<1>3. CASE code # 0 /\ Refuse(r, code) /\ UNCHANGED producer
  <2>1. Goto(r, "answered") /\ answer' = [answer EXCEPT ![r] = Answer(code, "Error", {}, FALSE)]
    BY <1>3 DEF Refuse
  <2>2. place'[r] = "answered"
    BY <2>1, GoesTo DEF RequestPlaces
  <2>3. answer'[r] = Answer(code, "Error", {}, FALSE)
    BY <2>1, TypesAre DEF RequestTypes
  <2>4. code \in {400, 406, 415, 422}
    BY <1>2, <1>3
  <2> QED
    BY <1>1, <1>3, <2>2, <2>3, <2>4, ZenonT(30)
<1>4. CASE \E format : /\ producer' = [producer EXCEPT ![r] = ProducerOf(op[r], format)]
                       /\ Proceed(r) /\ UNCHANGED answer
  <2>1. Goto(r, "handle")
    BY <1>1, <1>4, ProceedIs
  <2>2. place'[r] = "handle"
    BY <2>1, GoesTo DEF RequestPlaces
  <2>3. UNCHANGED answer
    BY <1>4
  <2>4. \E format : producer' = [producer EXCEPT ![r] = ProducerOf(op[r], format)]
    BY <1>4
  <2> QED
    BY <1>1, <2>2, <2>3, <2>4
<1> QED
  BY <1>2, <1>3, <1>4

LEMMA LeaveIs ==
  ASSUME IndRequests, NEW r \in Requests, Leave(r)
  PROVE  /\ place[r] \in {"answered", "panicked"} /\ place'[r] = "idle"
         /\ op' = [op EXCEPT ![r] = Null] /\ principal' = [principal EXCEPT ![r] = FALSE]
<1>1. /\ place[r] \in {"answered", "panicked"} /\ Goto(r, "idle")
      /\ op' = [op EXCEPT ![r] = Null] /\ principal' = [principal EXCEPT ![r] = FALSE]
  BY DEF Leave
<1>2. place'[r] = "idle"
  BY <1>1, GoesTo DEF RequestPlaces
<1> QED
  BY <1>1, <1>2

LEMMA ContractOKStep ==
  ASSUME IndRequests, IndContract, [Next]_vars
  PROVE  IndContract'
<1>1. CASE UNCHANGED requestVars
  BY <1>1 DEF requestVars, IndContract, ContractOK
<1>2. ASSUME NEW r \in Requests, ContractOK(r)',
             RequestStep(r) \/ \E id \in load[r] : Arrive(r, id)
      PROVE  IndContract'
  <2>1. ASSUME NEW s \in Requests \ {r} PROVE ContractOK(s)'
    BY <1>2, OthersOfStep DEF IndContract, ContractOK
  <2> QED
    BY <1>2, <2>1 DEF IndContract
<1>3. ASSUME NEW r \in Requests, NEW id \in load[r], Arrive(r, id) PROVE IndContract'
  <2>1. ContractOK(r)'
    BY <1>3, ArriveIs DEF ContractOK
  <2> QED
    BY <1>2, <1>3, <2>1
<1>4. ASSUME NEW r \in Requests, RequestStep(r) PROVE IndContract'
  <2>1. ContractOK(r)
    BY DEF IndContract
  <2>2. ContractOK(r)'
    <3>1. CASE Authorize(r)
      <4>1. /\ UNCHANGED <<op, producer>> /\ place[r] = "authorize"
            /\ place'[r] \in {"bind", "panicked", "answered"}
        BY <3>1, AuthorizeIs
      <4> QED
        BY <2>1, <4>1 DEF ContractOK
    <3>2. CASE Bind(r) /\ UNCHANGED producer
      <4>1. /\ UNCHANGED <<op, producer>> /\ place[r] = "bind"
            /\ place'[r] \in {"handle", "answered"}
        BY <3>2, BindIs, ZenonT(30)
      <4> QED
        BY <2>1, <4>1 DEF ContractOK
    <3>3. CASE Bind(r) /\ ~UNCHANGED producer
      <4>1. /\ UNCHANGED op /\ place'[r] \in {"handle", "answered"}
            /\ \E format : producer' = [producer EXCEPT ![r] = ProducerOf(op[r], format)]
        BY <3>3, BindIs, ZenonT(30)
      <4>2. PICK format : producer' = [producer EXCEPT ![r] = ProducerOf(op[r], format)]
        BY <4>1
      <4>3. RequestTypes
        BY TypesAre
      <4>4. producer'[r] = ProducerOf(op[r], format)
        BY <4>2, <4>3 DEF RequestTypes
      <4> QED
        BY <4>1, <4>4, DummyIsProtobuf DEF ContractOK
    <3>4. CASE Leave(r)
      <4>1. place'[r] = "idle"
        BY <3>4, LeaveIs
      <4> QED
        BY <4>1 DEF ContractOK
    <3>5. CASE ~(Authorize(r) \/ Bind(r) \/ Leave(r))
      <4>1. /\ UNCHANGED <<op, principal, producer>> /\ place[r] \in ServedPlaces
            /\ place'[r] \in ServedPlaces \cup {"answered", "panicked"}
        BY <1>4, <3>5, ServedGoes DEF RequestStep
      <4> QED
        BY <2>1, <4>1 DEF ContractOK, ServedPlaces
    <3> QED
      BY <3>1, <3>2, <3>3, <3>4, <3>5
  <2> QED
    BY <1>2, <1>4, <2>2
<1> QED
  BY <1>1, <1>3, <1>4 DEF Next, DataRace, vars

LEMMA IndContractCorrect == Spec => []IndContract
<1>1. Init => IndContract
  BY DEF Init, IndContract, ContractOK
<1>2. IndRequests /\ IndContract /\ [Next]_vars => IndContract'
  BY ContractOKStep
<1> QED
  BY <1>1, <1>2, RequestsCorrect, PTL DEF Spec

\* A step of one request, as the contract sees it.
LEMMA SeenStep ==
  ASSUME IndRequests, IndRequests', NEW r \in Requests,
         RequestStep(r) \/ \E id \in load[r] : Arrive(r, id)
  PROVE  /\ phases' = [phases EXCEPT ![r] = Phase(r)'] /\ phases[r] = Phase(r)
         /\ replies' = [replies EXCEPT ![r] = IF place'[r] = "answered"
                                              THEN Response(answer'[r].code, answer'[r].body)
                                              ELSE Null]
         /\ replies[r] = IF place[r] = "answered" THEN Response(answer[r].code, answer[r].body)
                         ELSE Null
         /\ op' = [op EXCEPT ![r] = op'[r]]
         /\ principal' = [principal EXCEPT ![r] = principal'[r]]
<1>1. \A s \in Requests \ {r} :
        /\ place'[s] = place[s] /\ op'[s] = op[s] /\ principal'[s] = principal[s]
        /\ answer'[s] = answer[s]
  BY OthersOfStep
<1>2. \A s \in Requests \ {r} : Phase(s)' = Phase(s)
  BY <1>1 DEF Phase
<1>3. phases' = [phases EXCEPT ![r] = Phase(r)']
  BY <1>2 DEF phases
<1>4. replies' = [replies EXCEPT ![r] = IF place'[r] = "answered"
                                        THEN Response(answer'[r].code, answer'[r].body)
                                        ELSE Null]
  BY <1>1 DEF replies, At
<1>5. /\ op \in [Requests -> OperationIds \cup {Null}] /\ op' \in [Requests -> OperationIds \cup {Null}]
      /\ principal \in [Requests -> BOOLEAN] /\ principal' \in [Requests -> BOOLEAN]
  BY DEF IndRequests, RequestTypes
<1>6. op' = [op EXCEPT ![r] = op'[r]]
  BY <1>1, <1>5
<1>7. principal' = [principal EXCEPT ![r] = principal'[r]]
  BY <1>1, <1>5
<1> QED
  BY <1>3, <1>4, <1>6, <1>7 DEF phases, replies, At

\* What the producers write of a documented answer is among the replies of its operation.
LEMMA WrittenReply ==
  ASSUME IndRequests, IndAnswers, IndContract, NEW r \in Requests, Respond(r) \/ Produced(r),
         place'[r] = "answered"
  PROVE  Response(answer'[r].code, answer'[r].body) \in Replies[op[r]]
<1> DEFINE documented == Api[op[r]].documented
<1>1. place[r] \in {"respond", "produced"} /\ op[r] \in OperationIds
  BY ServerIsOp DEF Respond, Produced, At
<1>2. Response(answer[r].code, answer[r].body) \in documented
  <2>1. place[r] = "produced" => op[r] # "get_tags"
    BY DEF IndRequests, RequestOK
  <2> QED
    BY <1>1, <2>1 DEF IndAnswers, AnswerOK
<1>3. Replies[op[r]] =
        documented
        \cup {Response(d.code, "none") :
                 d \in {e \in documented : Protobuf \in TypesIn(Produces(op[r]))}}
        \cup {Response(200, "garbled") : d \in documented \cap {Response(200, "binary")}}
  BY <1>1 DEF Replies
<1>4. CASE Produced(r)
  <2>1. UNCHANGED answer
    <3>1. ASSUME NEW cause, Panic(r, cause) PROVE FALSE
      BY <3>1, GotoIs DEF Panic, IndRequests, RequestPlaces
    <3> QED
      BY <1>4, <3>1 DEF Produced
  <2> QED
    BY <1>2, <1>3, <2>1
<1>5. CASE Respond(r)
  <2>1. /\ answer'[r].code = answer[r].code
        /\ answer'[r].body = Encoded(producer[r], answer[r].body)
    <3>1. answer' = [answer EXCEPT ![r] = Answer(@.code, Encoded(producer[r], @.body),
                        Lacking(@.body), \E s \in Requests \ {r} : Refreshing(s))]
      BY <1>5 DEF Respond
    <3>2. answer'[r] = Answer(answer[r].code, Encoded(producer[r], answer[r].body),
                        Lacking(answer[r].body), \E s \in Requests \ {r} : Refreshing(s))
      BY <3>1 DEF IndRequests, RequestTypes
    <3> QED
      BY <3>2 DEF Answer
  <2>2. \/ Encoded(producer[r], answer[r].body) = answer[r].body
        \/ Encoded(producer[r], answer[r].body) = "none" /\ producer[r] = "ProtobufProducer"
        \/ Encoded(producer[r], answer[r].body) = "garbled" /\ answer[r].body = "binary"
    BY DEF Encoded
  <2>3. CASE Encoded(producer[r], answer[r].body) = answer[r].body
    BY <1>2, <1>3, <2>1, <2>3
  <2>4. CASE Encoded(producer[r], answer[r].body) = "none" /\ producer[r] = "ProtobufProducer"
    <3>1. Protobuf \in TypesIn(Produces(op[r]))
      BY <1>1, <2>4 DEF IndContract, ContractOK
    <3>2. Response(answer[r].code, answer[r].body).code = answer[r].code
      BY DEF Response
    <3> HIDE DEF documented
    <3>3. Response(answer[r].code, "none") \in
            {Response(d.code, "none") : d \in {e \in documented : Protobuf \in TypesIn(Produces(op[r]))}}
      BY <1>2, <3>1, <3>2
    <3> QED
      BY <1>3, <2>1, <2>4, <3>3
  <2>5. CASE Encoded(producer[r], answer[r].body) = "garbled" /\ answer[r].body = "binary"
    <3>1. answer[r].code = 200
      BY <1>1, <1>2, <2>5, ReadersAreOK
    <3>2. Response(200, "binary") \in documented
      BY <1>2, <2>5, <3>1
    <3> QED
      BY <1>3, <2>1, <2>5, <3>1, <3>2
  <2> QED
    BY <2>2, <2>3, <2>4, <2>5
<1> QED
  BY <1>4, <1>5

\* Who may be served has been admitted, if he has to be.
LEMMA MayBe ==
  ASSUME IndRequests, NEW r \in Requests, op[r] \in OperationIds
  PROVE  Contract!MayBeServed(r) <=> (Api[op[r]].route.secured => principal[r])
  BY DEF Contract!MayBeServed, ProtectedIds

\* Every step of a request is one of the contract.
LEMMA ContractStep ==
  ASSUME IndRequests, IndAnswers, IndContract, IndRequests', NEW r \in Requests,
         RequestStep(r) \/ \E id \in load[r] : Arrive(r, id)
  PROVE  [Contract!Next]_(Contract!contractVars)
<1> DEFINE ReplyTo == IF place'[r] = "answered" THEN Response(answer'[r].code, answer'[r].body)
                      ELSE Null
<1>1. /\ phases' = [phases EXCEPT ![r] = Phase(r)'] /\ phases[r] = Phase(r)
      /\ replies' = [replies EXCEPT ![r] = ReplyTo]
      /\ op' = [op EXCEPT ![r] = op'[r]] /\ principal' = [principal EXCEPT ![r] = principal'[r]]
  BY SeenStep
<1>2. place[r] # "answered" => replies[r] = Null
  BY SeenStep
<1>3. phases = [phases EXCEPT ![r] = phases[r]] /\ replies = [replies EXCEPT ![r] = replies[r]]
  BY DEF replies, phases
<1>4. place[r] # "answered" /\ place'[r] # "answered" => UNCHANGED replies
  BY <1>1, <1>2, <1>3 DEF ReplyTo
<1> HIDE DEF ReplyTo
<1>5. ASSUME NEW id \in load[r], Arrive(r, id) PROVE Contract!Ask(r)
  <2>1. Phase(r) = "idle" /\ Phase(r)' = "received"
    BY <1>5, ArriveIs DEF Phase
  <2>2. UNCHANGED <<principal, replies>> /\ id \in OperationIds /\ op' = [op EXCEPT ![r] = id]
    BY <1>4, <1>5, ArriveIs
  <2> QED
    BY <1>1, <2>1, <2>2 DEF Contract!Ask, Contract!Move
<1>6. CASE Authorize(r)
  <2>1. place[r] = "authorize" /\ ~Contract!MayBeServed(r) /\ Phase(r) = "received"
    <3>1. place[r] = "authorize" /\ op[r] \in ProtectedIds
      BY <1>6, AuthorizeIs
    <3>2. ~principal[r]
      BY <3>1 DEF IndContract, ContractOK
    <3> QED
      BY <3>1, <3>2 DEF Contract!MayBeServed, Phase
  <2>2. CASE place'[r] = "bind" /\ principal' = [principal EXCEPT ![r] = TRUE]
    <3>1. Phase(r)' = Phase(r) /\ UNCHANGED <<replies, op>>
      BY <1>4, <1>6, <2>1, <2>2, AuthorizeIs DEF Phase
    <3>2. UNCHANGED phases
      BY <1>1, <1>3, <3>1
    <3>3. Contract!Admit(r)
      BY <1>1, <2>1, <2>2, <3>1, <3>2 DEF Contract!Admit
    <3> QED
      BY <3>3 DEF Contract!Next
  <2>3. CASE place'[r] # "bind"
    <3>1. UNCHANGED <<op, principal>>
      <4>1. ~principal[r]
        BY <2>1 DEF IndContract, ContractOK
      <4>2. principal' = [principal EXCEPT ![r] = FALSE] /\ op' = op
        BY <1>6, <2>3, AuthorizeIs
      <4> QED
        BY <4>1, <4>2 DEF IndRequests, RequestTypes
    <3>2. CASE place'[r] = "panicked"
      <4>1. Phase(r)' = "aborted" /\ UNCHANGED replies
        BY <1>4, <2>1, <3>2 DEF Phase
      <4>2. Contract!Abort(r)
        BY <1>1, <2>1, <3>1, <4>1 DEF Contract!Abort
      <4> QED
        BY <4>2 DEF Contract!Next
    <3>3. CASE place'[r] = "answered" /\ answer'[r] = Answer(401, "Error", {}, FALSE)
      <4>1. Phase(r)' = "replied" /\ ReplyTo = [code |-> 401, body |-> "Error"]
        BY <3>3 DEF Phase, ReplyTo, Response, Answer
      <4>2. Contract!Move(r, "received", "replied")
        BY <1>1, <2>1, <4>1 DEF Contract!Move
      <4>3. replies' = [replies EXCEPT ![r] = [code |-> 401, body |-> "Error"]]
        BY <1>1, <4>1
      <4>4. Contract!Deny(r)
        BY <2>1, <3>1, <4>2, <4>3 DEF Contract!Deny
      <4> QED
        BY <4>4 DEF Contract!Next
    <3>4. \/ place'[r] = "panicked"
          \/ place'[r] = "answered" /\ answer'[r] = Answer(401, "Error", {}, FALSE)
      BY <1>6, <2>3, AuthorizeIs
    <3> QED
      BY <3>2, <3>3, <3>4
  <2>4. place'[r] = "bind" => principal' = [principal EXCEPT ![r] = TRUE]
    BY <1>6, AuthorizeIs
  <2> QED
    BY <2>2, <2>3, <2>4
<1>7. CASE Bind(r)
  <2>1. place[r] = "bind" /\ UNCHANGED <<op, principal>> /\ Phase(r) = "received"
    BY <1>7, BindIs, ZenonT(30) DEF Phase
  <2>2. Contract!MayBeServed(r)
    <3>1. op[r] \in OperationIds
      BY <2>1, ServerIsOp
    <3>2. RequestOK(r)
      BY DEF IndRequests
    <3>3. Api[op[r]].route.secured => principal[r]
      BY <2>1, <3>2 DEF RequestOK
    <3> QED
      BY <3>1, <3>3, MayBe
  <2>3. CASE place'[r] = "handle"
    <3>1. Phase(r)' = "served"
      BY <2>3 DEF Phase
    <3>2. UNCHANGED replies
      BY <1>4, <2>1, <2>3
    <3>3. Contract!Move(r, "received", "served")
      BY <1>1, <2>1, <3>1 DEF Contract!Move
    <3>4. Contract!Serve(r)
      BY <2>1, <2>2, <3>2, <3>3 DEF Contract!Serve
    <3> QED
      BY <3>4 DEF Contract!Next
  <2>4. CASE place'[r] = "answered"
    <3>1. PICK code \in {400, 406, 415, 422} : answer'[r] = Answer(code, "Error", {}, FALSE)
      BY <1>7, <2>4, BindIs, ZenonT(30)
    <3>2. Phase(r)' = "replied" /\ ReplyTo = [code |-> code, body |-> "Error"]
      BY <2>4, <3>1 DEF Phase, ReplyTo, Response, Answer
    <3>3. Contract!Move(r, "received", "replied") /\ UNCHANGED <<op, principal>>
      BY <1>1, <2>1, <3>2 DEF Contract!Move
    <3>4. replies' = [replies EXCEPT ![r] = [code |-> code, body |-> "Error"]]
      BY <1>1, <3>2
    <3>5. code \in Contract!Refusals
      BY DEF Contract!Refusals
    <3>6. Contract!Deny(r)
      BY <2>2, <3>3, <3>4, <3>5 DEF Contract!Deny
    <3> QED
      BY <3>6 DEF Contract!Next
  <2>5. place'[r] \in {"handle", "answered"}
    BY <1>7, BindIs, ZenonT(30)
  <2> QED
    BY <2>3, <2>4, <2>5
<1>8. CASE Leave(r)
  <2>1. Phase(r) \in {"replied", "aborted"} /\ Phase(r)' = "idle"
    BY <1>8, LeaveIs DEF Phase
  <2>2. ReplyTo = Null
    BY <1>8, LeaveIs DEF ReplyTo
  <2>3. Contract!Leave(r)
    BY <1>1, <1>8, <2>1, <2>2, LeaveIs DEF Contract!Leave
  <2> QED
    BY <2>3 DEF Contract!Next
<1>9. CASE Handler(r) \/ StoreType(r) \/ StoreData(r) \/ Respond(r) \/ ProduceCsv(r) \/ Produced(r)
  <2>1. UNCHANGED <<op, principal>> /\ Phase(r) = "served"
    BY <1>9, ServedGoes DEF Phase, ServedPlaces
  <2>2. place[r] # "answered"
    BY <1>9, ServedGoes DEF ServedPlaces
  <2>3. CASE place'[r] \in ServedPlaces
    <3>1. Phase(r)' = "served"
      BY <2>3 DEF Phase, ServedPlaces
    <3>2. UNCHANGED replies
      BY <1>4, <2>2, <2>3 DEF ServedPlaces
    <3>3. UNCHANGED phases
      BY <1>1, <1>3, <2>1, <3>1
    <3> QED
      BY <2>1, <3>2, <3>3 DEF Contract!contractVars
  <2>4. CASE place'[r] = "panicked"
    <3>1. Phase(r)' = "aborted" /\ UNCHANGED replies
      BY <1>4, <2>2, <2>4 DEF Phase
    <3>2. Contract!Abort(r)
      BY <1>1, <2>1, <3>1 DEF Contract!Abort
    <3> QED
      BY <3>2 DEF Contract!Next
  <2>5. CASE place'[r] = "answered"
    <3>1. Respond(r) \/ Produced(r)
      BY <1>9, <2>5, ServedGoes
    <3>2. ReplyTo \in Replies[op[r]]
      BY <2>5, <3>1, WrittenReply DEF ReplyTo
    <3>3. Phase(r)' = "replied"
      BY <2>5 DEF Phase
    <3>4. Contract!Move(r, "served", "replied")
      BY <1>1, <2>1, <3>3 DEF Contract!Move
    <3>5. Contract!Reply(r)
      BY <1>1, <2>1, <3>2, <3>4 DEF Contract!Reply
    <3> QED
      BY <3>5 DEF Contract!Next
  <2> QED
    BY <1>9, <2>3, <2>4, <2>5, ServedGoes
<1> QED
  BY <1>5, <1>6, <1>7, <1>8, <1>9 DEF RequestStep, Contract!Next

\* The server, with its router, its handlers, the error they share and the information
\* that they refresh while others read it, implements the contract: for any loads,
\* however requests interleave.
THEOREM ImplementsContractCorrect == Spec => ImplementsContract
<1>1. Init => Contract!Init
  <2> SUFFICES ASSUME Init PROVE Contract!Init
    OBVIOUS
  <2>1. \A r \in Requests : place[r] = "idle"
    BY DEF Init
  <2>2. \A r \in Requests : Phase(r) = "idle"
    BY <2>1 DEF Phase
  <2>3. phases = [r \in Requests |-> "idle"] /\ replies = [r \in Requests |-> Null]
    BY <2>1, <2>2 DEF phases, replies, At
  <2> QED
    BY <2>3 DEF Init, Contract!Init
<1>2. IndRequests /\ IndRequests' /\ IndAnswers /\ IndContract /\ [Next]_vars =>
        [Contract!Next]_(Contract!contractVars)
  <2> SUFFICES ASSUME IndRequests, IndRequests', IndAnswers, IndContract, [Next]_vars
               PROVE  [Contract!Next]_(Contract!contractVars)
    OBVIOUS
  <2>1. CASE UNCHANGED requestVars
    <3>1. UNCHANGED <<op, principal, phases, replies>>
      BY <2>1 DEF requestVars, phases, Phase, replies, At
    <3> QED
      BY <3>1 DEF Contract!contractVars
  <2> QED
    BY <2>1, ContractStep DEF Next, DataRace, vars
<1> QED
  BY <1>1, <1>2, RequestsCorrect, AnswersCorrect, IndContractCorrect, PTL
     DEF Spec, ImplementsContract, Contract!Spec

\* What a client of the server can rely on: nobody is served, or told of success, but who
\* has presented a good token where one is demanded, and every reply is one that the
\* operation has, or a refusal of a request whose handler has not run.
THEOREM ServerHonoursContract == Spec => []Contract!Honoured
<1>1. ImplementsContract <=> Contract!Spec
  BY DEF ImplementsContract
<1> QED
  BY <1>1, ImplementsContractCorrect, ContractHonours, PTL
=============================================================================
