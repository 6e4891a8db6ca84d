------------------------- MODULE ClusterInformation -------------------------
(***************************************************************************)
(* RetrieveInformation of qdbinterface/cluster_information.go: get-cluster *)
(* and get-node refresh package variables that every request shares, at    *)
(* most once in five seconds, and nothing synchronises them.               *)
(*                                                                         *)
(* Each read and each write of a shared variable is an action, so that two *)
(* refreshes, or a refresh and a reader, interleave as goroutines do.  The *)
(* statistics of a node are the node itself, a total of memory the set of  *)
(* the nodes it was summed over; total and used are one.  Two conflicting  *)
(* accesses that are both about to happen are a data race: besides         *)
(* happening in some order they may end the process (a Go map detects      *)
(* concurrent writes, and a slice or a string is not written at once).     *)
(***************************************************************************)
EXTENDS Naturals, Sequences, FiniteSets

CONSTANTS
    Requests,   \* the slots in which requests run, one after another
    Nodes,      \* the nodes the cluster may have
    Null,       \* a nil pointer, and the absence of a value
    MaxLength   \* bound: the length of the list of nodes

ASSUME InformationAssumption ==
    /\ IsFiniteSet(Nodes)
    /\ Null \notin Nodes /\ Null \notin {"", "stable", "unstable"}
    /\ Null \notin Seq(Nodes) /\ \A S \in SUBSET Nodes : S # Null
    /\ MaxLength \in Nat

VARIABLES
    fresh,      \* less than updateInterval has passed since lastUpdate
    status,     \* ClusterInformation.Status and what it points to
    nodes,      \* ClusterInformation.Nodes
    memory,     \* ClusterInformation.MemoryTotal and MemoryUsed
    known,      \* the keys of NodesInformation
    crashed,    \* a data race has ended the process
    at,         \* where a request is inside RetrieveInformation
    stats,      \* the statistics it received
    rest,       \* those its loop has still to visit
    node,       \* the node its loop is at
    read,       \* the slice of nodes it has read to append to
    err,        \* the error it will return
    lone,       \* history: the last refresh to begin ran by itself
    last        \* history: what it received, if it did

sharedInfo == <<fresh, status, nodes, memory, known>>
localInfo == <<at, stats, rest, node, read, err>>
infoVars == <<sharedInfo, crashed, localInfo, lone, last>>

Places == {"out", "check", "stamp", "status", "newStatus", "fetch", "setStatus",
           "resetNodes", "remakeMap", "next", "append", "record", "totals", "returned"}

\* What Statistics and RetrieveInformation return: which error it is, a caller
\* finds out.
Errors == {"none", "some"}

Nothing == [stats |-> {}, err |-> "none"]

InfoTypeOK ==
    /\ fresh \in BOOLEAN /\ crashed \in BOOLEAN /\ lone \in BOOLEAN
    /\ status \in {Null, "", "stable", "unstable"}
    /\ nodes = Null \/ nodes \in Seq(Nodes)
    /\ memory = Null \/ memory \subseteq Nodes
    /\ known \subseteq Nodes
    /\ at \in [Requests -> Places]
    /\ stats \in [Requests -> SUBSET Nodes]
    /\ rest \in [Requests -> SUBSET Nodes]
    /\ node \in [Requests -> Nodes \cup {Null}]
    /\ read \in [Requests -> Seq(Nodes)]
    /\ err \in [Requests -> Errors]
    /\ last \in [stats : SUBSET Nodes, err : Errors]

\* The program has just started.
InfoInit ==
    /\ fresh = FALSE /\ status = Null /\ nodes = Null /\ memory = Null /\ known = {}
    /\ crashed = FALSE
    /\ at = [r \in Requests |-> "out"]
    /\ stats = [r \in Requests |-> {}]
    /\ rest = [r \in Requests |-> {}]
    /\ node = [r \in Requests |-> Null]
    /\ read = [r \in Requests |-> <<>>]
    /\ err = [r \in Requests |-> "none"]
    /\ lone = TRUE /\ last = Nothing

Move(r, from, to) == at[r] = from /\ at' = [at EXCEPT ![r] = to]

\* A request is refreshing the information, from its stamp to its last write.
Refreshing(r) == at[r] \notin {"out", "check", "returned"}

-----------------------------------------------------------------------------
(* Mutated steps.                                                          *)

\* The slice is not emptied before the loop appends to it.
ResetNodes_Kept(r) ==
    /\ Move(r, "resetNodes", "remakeMap")
    /\ nodes' = IF nodes = Null THEN <<>> ELSE nodes
    /\ UNCHANGED <<fresh, status, memory, known, crashed, stats, rest, node, read, err, lone, last>>

\* The loop goes one entry past the end of the statistics.
NextNode_PastEnd(r) ==
    /\ Move(r, "next", "append")
    /\ Len(nodes) < MaxLength
    /\ \E n \in IF rest[r] = {} THEN {Null} ELSE rest[r] :
         /\ node' = [node EXCEPT ![r] = n]
         /\ rest' = [rest EXCEPT ![r] = @ \ {n}]
    /\ read' = [read EXCEPT ![r] = nodes]
    /\ UNCHANGED <<sharedInfo, crashed, stats, err, lone, last>>

-----------------------------------------------------------------------------
(* shouldUpdate.                                                           *)

\* More than updateInterval has passed since the last update.
Interval ==
    /\ fresh
    /\ fresh' = FALSE
    /\ UNCHANGED <<status, nodes, memory, known, crashed, localInfo, lone, last>>

\* RetrieveInformation is called.
Call(r) ==
    /\ Move(r, "out", "check")
    /\ UNCHANGED <<sharedInfo, crashed, stats, rest, node, read, err, lone, last>>

\* The information is recent, and lastError is nil as it always is.
IsFresh(r) ==
    /\ fresh
    /\ Move(r, "check", "returned")
    /\ UNCHANGED <<sharedInfo, crashed, stats, rest, node, read, err, lone, last>>

IsStale(r) ==
    /\ ~fresh
    /\ Move(r, "check", "stamp")
    /\ lone' = \A s \in Requests \ {r} : ~Refreshing(s)
    /\ last' = Nothing
    /\ UNCHANGED <<sharedInfo, crashed, stats, rest, node, read, err>>

\* lastUpdate becomes now, before there is any information.
Stamp(r) ==
    /\ Move(r, "stamp", "status")
    /\ fresh' = TRUE
    /\ UNCHANGED <<status, nodes, memory, known, crashed, stats, rest, node, read, err, lone, last>>

-----------------------------------------------------------------------------
(* The refresh.                                                            *)

\* Is ClusterInformation.Status nil?
ReadStatus(r) ==
    /\ Move(r, "status", IF status = Null THEN "newStatus" ELSE "fetch")
    /\ UNCHANGED <<sharedInfo, crashed, stats, rest, node, read, err, lone, last>>

NewStatus(r) ==
    /\ Move(r, "newStatus", "fetch")
    /\ status' = ""
    /\ UNCHANGED <<fresh, nodes, memory, known, crashed, stats, rest, node, read, err, lone, last>>

\* Statistics asks one endpoint after another, in no order that matters: with
\* an error it returns what it has so far.
Fetch(r) ==
    /\ Move(r, "fetch", "setStatus")
    /\ \E S \in SUBSET Nodes, e \in Errors :
         /\ S = {} => e # "none"
         /\ stats' = [stats EXCEPT ![r] = S]
         /\ err' = [err EXCEPT ![r] = e]
         /\ last' = IF lone THEN [stats |-> S, err |-> e] ELSE Nothing
    /\ UNCHANGED <<sharedInfo, crashed, rest, node, read, lone>>

SetStatus(r) ==
    /\ Move(r, "setStatus", "resetNodes")
    /\ status' = IF err[r] = "none" THEN "stable" ELSE "unstable"
    /\ UNCHANGED <<fresh, nodes, memory, known, crashed, stats, rest, node, read, err, lone, last>>

ResetNodes(r) ==
    /\ Move(r, "resetNodes", "remakeMap")
    /\ nodes' = <<>>
    /\ UNCHANGED <<fresh, status, memory, known, crashed, stats, rest, node, read, err, lone, last>>

RemakeMap(r) ==
    /\ Move(r, "remakeMap", "next")
    /\ known' = {}
    /\ rest' = [rest EXCEPT ![r] = stats[r]]
    /\ UNCHANGED <<fresh, status, nodes, memory, crashed, stats, node, read, err, lone, last>>

\* The loop visits a node: append reads the slice, whose new value is stored by
\* a later step.  Refreshes that overlap can bring back what others have emptied,
\* so that the list grows without end: MaxLength.
NextNode(r) ==
    /\ Move(r, "next", "append")
    /\ Len(nodes) < MaxLength
    /\ \E n \in rest[r] :
         /\ node' = [node EXCEPT ![r] = n]
         /\ rest' = [rest EXCEPT ![r] = @ \ {n}]
    /\ read' = [read EXCEPT ![r] = nodes]
    /\ UNCHANGED <<sharedInfo, crashed, stats, err, lone, last>>

AppendNode(r) ==
    /\ Move(r, "append", "record")
    /\ nodes' = Append(read[r], node[r])
    /\ read' = [read EXCEPT ![r] = <<>>]
    /\ UNCHANGED <<fresh, status, memory, known, crashed, stats, rest, node, err, lone, last>>

\* The node is entered into the map.
RecordNode(r) ==
    /\ Move(r, "record", "next")
    /\ known' = known \cup {node[r]}
    /\ node' = [node EXCEPT ![r] = Null]
    /\ UNCHANGED <<fresh, status, nodes, memory, crashed, stats, rest, read, err, lone, last>>

EndOfNodes(r) ==
    /\ rest[r] = {}
    /\ Move(r, "next", "totals")
    /\ UNCHANGED <<sharedInfo, crashed, stats, rest, node, read, err, lone, last>>

SetTotals(r) ==
    /\ Move(r, "totals", "returned")
    /\ memory' = stats[r]
    /\ stats' = [stats EXCEPT ![r] = {}]
    /\ UNCHANGED <<fresh, status, nodes, known, crashed, rest, node, read, err, lone, last>>

Retrieve(r) ==
    \/ IsFresh(r) \/ IsStale(r) \/ Stamp(r) \/ ReadStatus(r) \/ NewStatus(r)
    \/ Fetch(r) \/ SetStatus(r) \/ ResetNodes(r) \/ RemakeMap(r)
    \/ NextNode(r) \/ AppendNode(r) \/ RecordNode(r) \/ EndOfNodes(r) \/ SetTotals(r)

\* The caller has the error and forgets the rest.
Forget(r) ==
    /\ at' = [at EXCEPT ![r] = "out"]
    /\ err' = [err EXCEPT ![r] = "none"]
    /\ UNCHANGED <<sharedInfo, crashed, stats, rest, node, read, lone, last>>

-----------------------------------------------------------------------------
\* The shared objects that the next step of a request reads and writes, among
\* those that are not written at once.
Reads(r) == IF at[r] = "next" /\ rest[r] # {} THEN {"nodes"} ELSE {}

Writes(r) == CASE at[r] = "setStatus" -> {"status"}
               [] at[r] \in {"resetNodes", "append"} -> {"nodes"}
               [] at[r] = "record" -> {"map"}
               [] OTHER -> {}

-----------------------------------------------------------------------------
\* Between refreshes the information is that of one answer of the cluster: the
\* list of nodes has each node once, the map has the same nodes, the totals are
\* sums over them and the status is that of the same answer, provided that no
\* two refreshes overlapped.
InformationIsOneFetch ==
    lone /\ ~crashed /\ status # Null /\ (\A r \in Requests : ~Refreshing(r)) =>
        /\ known = last.stats /\ memory = last.stats
        /\ {nodes[i] : i \in DOMAIN nodes} = last.stats
        /\ Len(nodes) = Cardinality(last.stats)
        /\ status = IF last.err = "none" THEN "stable" ELSE "unstable"
=============================================================================
