--------------------------- MODULE ConnectionPool ---------------------------
(***************************************************************************)
(* The connection pool that CreatePool instantiates for every user:        *)
(* vendor/github.com/silenceper/pool/channel.go, configured as             *)
(* restapi/configure_qdb_api_rest.go does (InitialCap = MaxIdle = PoolSize,*)
(* MaxCap = 2 * PoolSize, no Ping, an idle timeout of one minute).         *)
(*                                                                         *)
(* The granularity is that of the code's synchronisation: every critical   *)
(* section of the pool's mutex and every channel operation outside it is   *)
(* one action.  The buffered channel of idle connections is the set        *)
(* conns[p]: its order only decides which connection goes stale first, and *)
(* staleness is nondeterministic here.                                     *)
(***************************************************************************)
EXTENDS Naturals, Integers, Sequences, FiniteSets

CONSTANTS
    Clients,    \* the goroutines that use the pools
    Pools,      \* pool objects; each is created at most once
    Handles,    \* the connections the cluster can serve at a time
    PoolSize,   \* the server's --pool-size
    Faults,     \* what may go wrong: a subset of FaultKinds
    None        \* the absence of a handle or of a pool

FaultKinds == {"connect",   \* the cluster refuses a connection it could serve
               "stale",     \* more than a minute passes over an idle connection
               "error",     \* an operation fails: its handle is closed, not put
               "release"}   \* the pool is released while it is in use

ASSUME PoolAssumption ==
    /\ IsFiniteSet(Handles)
    /\ PoolSize \in Nat
    /\ None \notin Handles \cup Pools

VARIABLES
    state,        \* life of a pool object; "closed" is after close(conns)
    conns,        \* the buffered channel of idle connections
    openingConns, \* the pool's own count of its connections
    connReqs,     \* the queue of clients parked in Get
    open,         \* the connections the pool's factory opened, still open
    pc,           \* where a client is inside a call of the pool
    pl,           \* the pool of that call
    hand          \* the handle the client holds

poolVars == <<state, conns, openingConns, connReqs, open, pc, pl, hand>>

States == {"none", "live", "released", "closed"}
Places == {"out",                       \* in no call, and holding nothing
           "get", "select", "miss", "wait", "handed", "expired", "failed",
           "got",                       \* Get has returned a handle
           "put", "close"}

\* The places at which the code has a connection in a variable.
Holding == {"handed", "expired", "got", "put", "close"}

maxActive == 2 * PoolSize

Connected == UNION {open[p] : p \in Pools}

\* The variables have their types, and a client holds a handle exactly at the
\* places at which the code has one: Get returns no nil connection.
TypeOK == /\ state \in [Pools -> States]
          /\ conns \in [Pools -> SUBSET Handles]
          /\ openingConns \in [Pools -> Int]
          /\ connReqs \in [Pools -> Seq(Clients)]
          /\ open \in [Pools -> SUBSET Handles]
          /\ pc \in [Clients -> Places]
          /\ pl \in [Clients -> Pools \cup {None}]
          /\ hand \in [Clients -> Handles \cup {None}]
          /\ \A c \in Clients : pc[c] # "out" => pl[c] \in Pools
          /\ \A c \in Clients : (hand[c] # None) <=> (pc[c] \in Holding)

Init == /\ state = [p \in Pools |-> "none"]
        /\ conns = [p \in Pools |-> {}]
        /\ openingConns = [p \in Pools |-> 0]
        /\ connReqs = [p \in Pools |-> <<>>]
        /\ open = [p \in Pools |-> {}]
        /\ pc = [c \in Clients |-> "out"]
        /\ pl = [c \in Clients |-> None]
        /\ hand = [c \in Clients |-> None]

Goto(c, place) == pc' = [pc EXCEPT ![c] = place]

-----------------------------------------------------------------------------
(* Mutated steps: plausible slips in channel.go.  No action uses them; each *)
(* shows that a property tells the code from the slip.                      *)

\* The nil received from a closed channel is returned as a connection.
ReceiveClosed_NoNilCheck(c) ==
    /\ pc[c] = "select" /\ state[pl[c]] = "closed" /\ conns[pl[c]] = {}
    /\ Goto(c, "got")
    /\ UNCHANGED <<state, conns, openingConns, connReqs, open, pl, hand>>

\* A missing else: the connection handed to the waiter is also left idle.
PutHandOver_AlsoIdle(c) ==
    /\ pc[c] = "put" /\ state[pl[c]] = "live" /\ connReqs[pl[c]] # <<>>
    /\ LET w == Head(connReqs[pl[c]])
       IN /\ hand' = [hand EXCEPT ![c] = None, ![w] = hand[c]]
          /\ pc' = [pc EXCEPT ![c] = "out", ![w] = "handed"]
    /\ connReqs' = [connReqs EXCEPT ![pl[c]] = Tail(@)]
    /\ conns' = [conns EXCEPT ![pl[c]] = @ \cup {hand[c]}]
    /\ UNCHANGED <<state, openingConns, open, pl>>

\* The queue is not shortened after a hand-over.
PutHandOver_KeepsHead(c) ==
    /\ pc[c] = "put" /\ state[pl[c]] = "live" /\ connReqs[pl[c]] # <<>>
    /\ LET w == Head(connReqs[pl[c]])
       IN /\ hand' = [hand EXCEPT ![c] = None, ![w] = hand[c]]
          /\ pc' = [pc EXCEPT ![c] = "out", ![w] = "handed"]
    /\ UNCHANGED <<state, conns, openingConns, connReqs, open, pl>>

\* A missing continue: the stale connection is closed and returned all the same.
Close_ReturnsStale(c) ==
    /\ pc[c] \in {"close", "expired"} /\ state[pl[c]] = "live"
    /\ openingConns' = [openingConns EXCEPT ![pl[c]] = @ - 1]
    /\ open' = [q \in Pools |-> open[q] \ {hand[c]}]
    /\ hand' = [hand EXCEPT ![c] = IF pc[c] = "expired" THEN @ ELSE None]
    /\ Goto(c, IF pc[c] = "expired" THEN "got" ELSE "out")
    /\ UNCHANGED <<state, conns, connReqs, pl>>

\* Close does not decrement openingConns.
Close_NotCounted(c) ==
    /\ pc[c] \in {"close", "expired"} /\ state[pl[c]] = "live"
    /\ open' = [q \in Pools |-> open[q] \ {hand[c]}]
    /\ hand' = [hand EXCEPT ![c] = None]
    /\ Goto(c, IF pc[c] = "expired" THEN "select" ELSE "out")
    /\ UNCHANGED <<state, conns, openingConns, connReqs, pl>>

\* The limit is off by one.
Open_OneTooMany(c) ==
    /\ pc[c] = "miss" /\ openingConns[pl[c]] <= maxActive /\ state[pl[c]] = "live"
    /\ \E h \in Handles \ Connected :
         /\ open' = [open EXCEPT ![pl[c]] = @ \cup {h}]
         /\ hand' = [hand EXCEPT ![c] = h]
    /\ openingConns' = [openingConns EXCEPT ![pl[c]] = @ + 1]
    /\ Goto(c, "got")
    /\ UNCHANGED <<state, conns, connReqs, pl>>

\* A surplus connection is dropped instead of closed.
PutFull_NoClose(c) ==
    /\ pc[c] = "put" /\ state[pl[c]] = "live" /\ connReqs[pl[c]] = <<>>
    /\ Cardinality(conns[pl[c]]) >= PoolSize
    /\ hand' = [hand EXCEPT ![c] = None]
    /\ Goto(c, "out")
    /\ UNCHANGED <<state, conns, openingConns, connReqs, open, pl>>

\* Put does not look at the queue before it leaves the connection idle.
PutIdle_IgnoresQueue(c) ==
    /\ pc[c] = "put" /\ state[pl[c]] = "live"
    /\ Cardinality(conns[pl[c]]) < PoolSize
    /\ conns' = [conns EXCEPT ![pl[c]] = @ \cup {hand[c]}]
    /\ hand' = [hand EXCEPT ![c] = None]
    /\ Goto(c, "out")
    /\ UNCHANGED <<state, openingConns, connReqs, open, pl>>

\* Release closes every connection of the pool, those in use included.
Drain_InUse(p) ==
    /\ state[p] = "closed"
    /\ \E h \in open[p] :
         /\ conns' = [conns EXCEPT ![p] = @ \ {h}]
         /\ open' = [q \in Pools |-> open[q] \ {h}]
    /\ UNCHANGED <<state, openingConns, connReqs, pc, pl, hand>>

\* Release waits for the clients in the queue, whom nobody serves any more.
CloseConns_AwaitsQueue(p) ==
    /\ state[p] = "released" /\ connReqs[p] = <<>>
    /\ state' = [state EXCEPT ![p] = "closed"]
    /\ UNCHANGED <<conns, openingConns, connReqs, open, pc, pl, hand>>

-----------------------------------------------------------------------------
(* The life of a pool object.                                              *)

\* NewChannelPool fills a pool nobody else can see yet: its PoolSize calls of
\* the factory are one step.  (When one fails, the connections already opened
\* are released and no pool exists: nothing changes.)
NewChannelPool(p) ==
    /\ state[p] = "none"
    /\ \E S \in SUBSET (Handles \ Connected) :
         /\ Cardinality(S) = PoolSize
         /\ conns' = [conns EXCEPT ![p] = S]
         /\ open' = [open EXCEPT ![p] = S]
    /\ openingConns' = [openingConns EXCEPT ![p] = PoolSize]
    /\ state' = [state EXCEPT ![p] = "live"]
    /\ UNCHANGED <<connReqs, pc, pl, hand>>

\* Release, the critical section: conns, factory and close become nil.  The
\* waiters in connReqs are left as they are.
Release(p) ==
    /\ state[p] = "live"
    /\ state' = [state EXCEPT ![p] = "released"]
    /\ UNCHANGED <<conns, openingConns, connReqs, open, pc, pl, hand>>

\* Release, close(conns): a receive from the empty channel no longer misses.
CloseConns(p) ==
    /\ state[p] = "released"
    /\ state' = [state EXCEPT ![p] = "closed"]
    /\ UNCHANGED <<conns, openingConns, connReqs, open, pc, pl, hand>>

\* Release, one round of the draining loop.  It competes with the clients that
\* read c.conns before it became nil.
Drain(p) ==
    /\ state[p] = "closed"
    /\ \E h \in conns[p] :
         /\ conns' = [conns EXCEPT ![p] = @ \ {h}]
         /\ open' = [q \in Pools |-> open[q] \ {h}]
    /\ UNCHANGED <<state, openingConns, connReqs, pc, pl, hand>>

-----------------------------------------------------------------------------
(* Get.                                                                    *)

\* getConns: the channel is read under the lock, once per call.
GetConns(c) ==
    /\ pc[c] = "get"
    /\ Goto(c, IF state[pl[c]] = "live" THEN "select" ELSE "failed")
    /\ UNCHANGED <<state, conns, openingConns, connReqs, open, pl, hand>>

\* A connection is received from the channel and found fresh or stale.
Receive(c) ==
    /\ pc[c] = "select"
    /\ \E h \in conns[pl[c]] :
         /\ conns' = [conns EXCEPT ![pl[c]] = @ \ {h}]
         /\ hand' = [hand EXCEPT ![c] = h]
    /\ \/ Goto(c, "got")
       \/ "stale" \in Faults /\ Goto(c, "expired")
    /\ UNCHANGED <<state, openingConns, connReqs, open, pl>>

\* The channel is closed and drained: ErrClosed.
ReceiveClosed(c) ==
    /\ pc[c] = "select"
    /\ state[pl[c]] = "closed"
    /\ conns[pl[c]] = {}
    /\ Goto(c, "failed")
    /\ UNCHANGED <<state, conns, openingConns, connReqs, open, pl, hand>>

\* The channel is empty: the default branch.  The lock is not taken yet.
Miss(c) ==
    /\ pc[c] = "select"
    /\ state[pl[c]] # "closed"
    /\ conns[pl[c]] = {}
    /\ Goto(c, "miss")
    /\ UNCHANGED <<state, conns, openingConns, connReqs, open, pl, hand>>

\* Under the lock, the pool counts maxActive connections: the client queues
\* and parks on a channel of its own.
Enqueue(c) ==
    /\ pc[c] = "miss"
    /\ openingConns[pl[c]] >= maxActive
    /\ connReqs' = [connReqs EXCEPT ![pl[c]] = Append(@, c)]
    /\ Goto(c, "wait")
    /\ UNCHANGED <<state, conns, openingConns, open, pl, hand>>

\* Under the lock, room for one more: the factory connects.
Open(c) ==
    /\ pc[c] = "miss"
    /\ openingConns[pl[c]] < maxActive
    /\ state[pl[c]] = "live"
    /\ \E h \in Handles \ Connected :
         /\ open' = [open EXCEPT ![pl[c]] = @ \cup {h}]
         /\ hand' = [hand EXCEPT ![c] = h]
    /\ openingConns' = [openingConns EXCEPT ![pl[c]] = @ + 1]
    /\ Goto(c, "got")
    /\ UNCHANGED <<state, conns, connReqs, pl>>

\* Under the lock, room for one more, but the factory is nil or it fails: the
\* cluster is out of connections or refuses this one.
OpenFails(c) ==
    /\ pc[c] = "miss"
    /\ openingConns[pl[c]] < maxActive
    /\ \/ state[pl[c]] # "live"
       \/ Handles \subseteq Connected
       \/ "connect" \in Faults
    /\ Goto(c, "failed")
    /\ UNCHANGED <<state, conns, openingConns, connReqs, open, pl, hand>>

\* A waiter wakes with the connection it was handed, if that is still fresh.
WakeUp(c) ==
    /\ pc[c] = "handed"
    /\ \/ Goto(c, "got")
       \/ "stale" \in Faults /\ Goto(c, "expired")
    /\ UNCHANGED <<state, conns, openingConns, connReqs, open, pl, hand>>

-----------------------------------------------------------------------------
(* Put and Close.                                                          *)

\* Put on a released pool leaves the lock and calls Close.
PutReleased(c) ==
    /\ pc[c] = "put"
    /\ state[pl[c]] # "live"
    /\ Goto(c, "close")
    /\ UNCHANGED <<state, conns, openingConns, connReqs, open, pl, hand>>

\* Put hands the connection to the first client in the queue.
PutHandOver(c) ==
    /\ pc[c] = "put"
    /\ state[pl[c]] = "live"
    /\ connReqs[pl[c]] # <<>>
    /\ LET w == Head(connReqs[pl[c]])
       IN /\ hand' = [hand EXCEPT ![c] = None, ![w] = hand[c]]
          /\ pc' = [pc EXCEPT ![c] = "out", ![w] = "handed"]
    /\ connReqs' = [connReqs EXCEPT ![pl[c]] = Tail(@)]
    /\ UNCHANGED <<state, conns, openingConns, open, pl>>

\* Put leaves the connection idle if the channel has room.
PutIdle(c) ==
    /\ pc[c] = "put"
    /\ state[pl[c]] = "live"
    /\ connReqs[pl[c]] = <<>>
    /\ Cardinality(conns[pl[c]]) < PoolSize
    /\ conns' = [conns EXCEPT ![pl[c]] = @ \cup {hand[c]}]
    /\ hand' = [hand EXCEPT ![c] = None]
    /\ Goto(c, "out")
    /\ UNCHANGED <<state, openingConns, connReqs, open, pl>>

\* Put finds the channel full, leaves the lock and calls Close.
PutFull(c) ==
    /\ pc[c] = "put"
    /\ state[pl[c]] = "live"
    /\ connReqs[pl[c]] = <<>>
    /\ Cardinality(conns[pl[c]]) >= PoolSize
    /\ Goto(c, "close")
    /\ UNCHANGED <<state, conns, openingConns, connReqs, open, pl, hand>>

\* Close.  A released pool has no close function any more: the connection
\* stays open and nobody refers to it.  Get resumes its loop after closing a
\* stale connection; from Put and from the handlers the call returns.
Close(c) ==
    /\ pc[c] \in {"close", "expired"}
    /\ IF state[pl[c]] = "live"
         THEN /\ openingConns' = [openingConns EXCEPT ![pl[c]] = @ - 1]
              /\ open' = [q \in Pools |-> open[q] \ {hand[c]}]
         ELSE UNCHANGED <<openingConns, open>>
    /\ hand' = [hand EXCEPT ![c] = None]
    /\ Goto(c, IF pc[c] = "expired" THEN "select" ELSE "out")
    /\ UNCHANGED <<state, conns, connReqs, pl>>

\* The steps a client takes inside a call.
PoolStep(c) ==
    \/ GetConns(c) \/ Receive(c) \/ ReceiveClosed(c) \/ Miss(c)
    \/ Enqueue(c) \/ Open(c) \/ OpenFails(c) \/ WakeUp(c)
    \/ PutReleased(c) \/ PutHandOver(c) \/ PutIdle(c) \/ PutFull(c)
    \/ Close(c)

-----------------------------------------------------------------------------
(* The handlers as the pool sees them, each with one pool for its life:    *)
(* HandleCache replaces these four actions by the code of the handlers.    *)

\* A client calls Get on a pool.
CallGet(c, p) ==
    /\ pc[c] = "out"
    /\ state[p] # "none"
    /\ Goto(c, "get")
    /\ pl' = [pl EXCEPT ![c] = p]
    /\ UNCHANGED <<state, conns, openingConns, connReqs, open, hand>>

\* Get returned an error: there is nothing to give back.
GiveUp(c) ==
    /\ pc[c] = "failed"
    /\ Goto(c, "out")
    /\ UNCHANGED <<state, conns, openingConns, connReqs, open, pl, hand>>

\* The operation succeeded: Put.
CallPut(c) ==
    /\ pc[c] = "got"
    /\ Goto(c, "put")
    /\ UNCHANGED <<state, conns, openingConns, connReqs, open, pl, hand>>

\* The operation failed: Close.
CallClose(c) ==
    /\ pc[c] = "got"
    /\ "error" \in Faults
    /\ Goto(c, "close")
    /\ UNCHANGED <<state, conns, openingConns, connReqs, open, pl, hand>>

ClientStep(c) == GiveUp(c) \/ CallPut(c) \/ CallClose(c)

ReleaseStep(p) == CloseConns(p) \/ Drain(p)

Next == \/ \E p \in Pools : \/ NewChannelPool(p)
                            \/ "release" \in Faults /\ Release(p)
                            \/ ReleaseStep(p)
        \/ \E c \in Clients : PoolStep(c) \/ ClientStep(c)
        \/ \E c \in Clients, p \in Pools : CallGet(c, p)

Spec == Init /\ [][Next]_poolVars

-----------------------------------------------------------------------------
(* Fairness.  A goroutine that is not parked keeps running, the cluster    *)
(* answers every call, and a handler gives its handle back.                *)
Fairness == /\ \A c \in Clients : WF_poolVars(PoolStep(c) \/ ClientStep(c))
            /\ \A p \in Pools : WF_poolVars(ReleaseStep(p))

FairSpec == Spec /\ Fairness

\* In addition, requests keep coming: every client keeps calling Get.
Traffic == \A c \in Clients : WF_poolVars(\E p \in Pools : CallGet(c, p))

BusySpec == FairSpec /\ Traffic

-----------------------------------------------------------------------------
(* Safety.                                                                 *)

\* A connection has one owner: two clients never hold the same handle, and no
\* handle that a client holds is idle in a pool at the same time, whatever the
\* interleaving of Get, Put, hand-over, eviction and Release.
Exclusive ==
    /\ \A c, d \in Clients : hand[c] = hand[d] /\ hand[c] # None => c = d
    /\ \A p, q \in Pools : p # q => conns[p] \cap conns[q] = {}
    /\ \A c \in Clients, p \in Pools : hand[c] \notin conns[p]

\* Whatever is idle in a pool or held by a client is still connected: nobody is
\* given a handle that an eviction, a Close or a Release has closed.
Usable ==
    /\ \A p \in Pools : conns[p] \subseteq Connected
    /\ \A c \in Clients : hand[c] # None => hand[c] \in Connected

\* openingConns, which Get compares with maxActive, counts the connections of a
\* pool in use: it is neither decremented twice nor forgotten when a stale or
\* surplus connection is closed after the lock has been left.
CountIsExact ==
    \A p \in Pools : state[p] = "live" => openingConns[p] = Cardinality(open[p])

\* A pool never has more than maxActive connections, released or not.
WithinMaxActive == \A p \in Pools : Cardinality(open[p]) <= maxActive

\* While a pool is in use, every connection it opened is idle in it or held by
\* a client that will return it to it: none is lost.
NothingLost ==
    \A p \in Pools : state[p] = "live" =>
        \A h \in open[p] : \/ h \in conns[p]
                           \/ \E c \in Clients : hand[c] = h /\ pl[c] = p

\* The queue of a pool holds exactly the clients parked on it, each once: no
\* client parks without being queued, and no hand-over reaches a client that is
\* not parked.
QueueIsExact ==
    \A p \in Pools :
        /\ \A i, j \in DOMAIN connReqs[p] : connReqs[p][i] = connReqs[p][j] => i = j
        /\ \A c \in Clients :
             (pc[c] = "wait" /\ pl[c] = p) <=> \E i \in DOMAIN connReqs[p] : connReqs[p][i] = c

\* The clients never all wait for one another: whoever parks last on a pool in
\* use finds a client that has one of its connections, or a place of one.  It says
\* nothing of a single client, which may still wait for ever beside a client that
\* closes its connection, nor of pools of size 0.
NeverAllParked ==
    \A p \in Pools : state[p] = "live" => \E c \in Clients : pc[c] # "wait" \/ pl[c] # p

\* A pool that has been released only shrinks and is never used again: no
\* connection is put back into its channel or opened for it, whatever the calls
\* do that were under way when Release ran.
ReleasedOnlyShrinks ==
    [][ \A p \in Pools : state[p] \in {"released", "closed"} =>
          /\ state'[p] = "closed" \/ state'[p] = state[p]
          /\ conns'[p] \subseteq conns[p]
          /\ open'[p] \subseteq open[p] ]_poolVars

\* A client that is parked on a pool when that is released stays parked there for
\* good: Release does not wake it, and no Put hands it a connection any more.
StrandedForGood ==
    [][ \A c \in Clients : pc[c] = "wait" /\ state[pl[c]] \in {"released", "closed"} =>
          /\ pc'[c] = "wait"
          /\ pl'[c] = pl[c]
          /\ state'[pl[c]] \in {"released", "closed"} ]_poolVars

\* The pools implement the handle leases of HandleLeases.
Leases == INSTANCE HandleLeases WITH connected <- Connected, held <- hand
ImplementsLeases == Leases!Spec

(* Liveness.                                                               *)

\* A client parked in Get is eventually served, unless its pool is released.  Close
\* wakes nobody, so clients that get a connection, fail and close it can go on for
\* ever beside the parked one: with such failures TLC finds this claim violated.
WaitersAlwaysServed == \A c \in Clients :
    pc[c] = "wait" ~> pc[c] # "wait" \/ state[pl[c]] # "live"

\* Operations stop failing, and so do attempts to connect for a pool in use.
FailuresEnd == <>[][~ \E c \in Clients : \/ CallClose(c)
                                         \/ OpenFails(c) /\ state[pl[c]] = "live"]_poolVars

\* Once failures end, it is: under Traffic, the next client to take an idle
\* connection, or the place of one that has been closed, hands it over when it is
\* done.  Under FairSpec, without Traffic, TLC finds the client parked beside an
\* idle connection for ever.
WaitersServed == FailuresEnd => WaitersAlwaysServed

\* A released pool is emptied: no idle connection survives Release, whatever
\* the clients that still hold its channel do.
ReleaseDrains == \A p \in Pools : state[p] = "released" ~> (state[p] = "closed" /\ conns[p] = {})
=============================================================================
