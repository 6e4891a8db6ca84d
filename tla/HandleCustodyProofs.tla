------------------------- MODULE HandleCustodyProofs -------------------------
(***************************************************************************)
(* What becomes of the connections when the handlers use the pools: TLAPS  *)
(* proves of HandleCache, for any number of users, request slots, pools    *)
(* and connections, that its types are kept, that a connection has one     *)
(* owner and stays connected while it has one, that it never reaches       *)
(* another user, and that the handlers with their pools implement          *)
(* HandleLeases.                                                           *)
(*                                                                         *)
(* Unlike a client of ConnectionPool, a handler may put a connection into  *)
(* another pool than it came from: the Ownership of ConnectionPoolProofs   *)
(* fails here and Custody takes its place.                                 *)
(***************************************************************************)
EXTENDS HandleCacheProofs, ConnectionPoolProofs

\* Where a request is when it is outside every pool, and that the deferred
\* CloseHandle of GetNode finds the connection the handler got.
Placed ==
    \A c \in Clients :
        /\ stage[c] \notin {"pool", "close", "return"} => pc[c] = "out" /\ pl[c] = None
        /\ stage[c] = "close" => pc[c] = "got"

\* The types that neither EntryTypes nor TypeOK states.
HandlerTypes ==
    /\ kind \in [Clients -> RequestKinds \cup {None}]
    /\ panicked \in SUBSET Clients
    /\ stream \in [Clients -> Handles \cup {None}]

\* A request calls pools of the user whose name its own has before the first
\* colon only.
OwnPools ==
    \A c \in Clients : pl[c] \in Pools => /\ state[pl[c]] # "none"
                                          /\ owner[pl[c]] = Before[user[c]]

Located == IndInv /\ TypeOK /\ QueueIsExact /\ Placed

-----------------------------------------------------------------------------
(* The steps of the handlers, as the pools see them.                       *)

\* A handler that is not inside a call of a pool turns to a pool, turns away
\* from it, or loses its connection.
HandlerMove(c) ==
    \E place \in Places \ {"wait"}, p \in Pools \cup {None}, h \in {hand[c], None} :
        /\ pc[c] \in {"out", "failed", "got"}
        /\ pc' = [pc EXCEPT ![c] = place]
        /\ pl' = [pl EXCEPT ![c] = p]
        /\ hand' = [hand EXCEPT ![c] = h]
        /\ place # "out" => p \in Pools
        /\ (h # None) <=> (place \in Holding)
        /\ UNCHANGED <<state, conns, openingConns, connReqs, open>>

LEMMA GiveHandleMoves ==
  ASSUME Located, NEW c \in Clients, pc[c] = "got", NEW place \in {"put", "close"},
         stage[c] # "none", GiveHandleTo(c, place)
  PROVE  HandlerMove(c)
<1> USE PoolAssumption, CacheAssumption
<1>1. /\ pl[c] \in Pools /\ hand[c] # None
      /\ pl = [pl EXCEPT ![c] = pl[c]] /\ hand = [hand EXCEPT ![c] = hand[c]]
  BY DEF Located, TypeOK, Holding
<1>2. /\ place \in Places \ {"wait"} /\ place \in Holding /\ "out" \in Places \ {"wait"}
      /\ "out" \notin Holding
  BY DEF Places, Holding
<1>3. CASE Found(c) \in Pools
  <2>1. /\ pc' = [pc EXCEPT ![c] = place] /\ pl' = [pl EXCEPT ![c] = Found(c)]
        /\ hand' = [hand EXCEPT ![c] = hand[c]]
        /\ UNCHANGED <<state, conns, openingConns, connReqs, open>>
    BY <1>1, <1>3 DEF GiveHandleTo, Goto
  <2> QED
    BY <1>1, <1>2, <1>3, <2>1 DEF HandlerMove
<1>4. CASE Found(c) \notin Pools
  <2>1. /\ pc' = [pc EXCEPT ![c] = "out"] /\ pl' = [pl EXCEPT ![c] = pl[c]]
        /\ hand' = [hand EXCEPT ![c] = None]
        /\ UNCHANGED <<state, conns, openingConns, connReqs, open>>
    BY <1>1, <1>4 DEF GiveHandleTo, Goto
  <2> QED
    BY <1>1, <1>2, <2>1 DEF HandlerMove
<1> QED
  BY <1>3, <1>4

LEMMA LeavesPool ==
  ASSUME Located, NEW c \in Clients, pc[c] \in {"out", "failed"},
         pc' = [pc EXCEPT ![c] = "out"], pl' = [pl EXCEPT ![c] = None],
         UNCHANGED <<state, conns, openingConns, connReqs, open, hand>>
  PROVE  HandlerMove(c)
<1>1. hand[c] = None /\ hand = [hand EXCEPT ![c] = hand[c]]
  BY DEF Located, TypeOK, Holding
<1> QED
  BY <1>1 DEF HandlerMove, Places, Holding

\* Every step of HandleCache leaves the pools alone, is a step of theirs, or is
\* one of these.
LEMMA CacheStepOnPools ==
  ASSUME Located, [CacheNext]_vars
  PROVE  [AnyNext]_poolVars \/ \E c \in Clients : HandlerMove(c)
<1> USE PoolAssumption, CacheAssumption
<1>1. CASE UNCHANGED poolVars
  BY <1>1
<1>2. ASSUME NEW c \in Clients, NEW k \in Kinds, NEW u \in Users, Arrive(c, k, u)
      PROVE  UNCHANGED poolVars
  BY <1>2 DEF Arrive
<1>3. ASSUME NEW c \in Clients, AuthRejects(c) \/ AuthExpires(c) \/ AuthLooksUp(c)
      PROVE  UNCHANGED poolVars
  BY <1>3 DEF AuthRejects, AuthExpires, AuthLooksUp
<1>4. ASSUME NEW c \in Clients, AuthCreates(c) \/ LoginReplaces(c)
      PROVE  AnyNext \/ UNCHANGED poolVars
  BY <1>4 DEF AuthCreates, LoginReplaces, Create, CreateFails, AnyNext, Next
<1>5. ASSUME NEW c \in Clients, LoginRemembers(c) \/ LoginEnds(c) PROVE UNCHANGED poolVars
  BY <1>5 DEF LoginRemembers, LoginEnds
<1>6. ASSUME NEW c \in Clients, LoginReleases(c) \/ LoginDrains(c)
      PROVE  AnyNext \/ UNCHANGED poolVars
  <2>1. old[c] \in Pools
    BY <1>6 DEF LoginReleases, LoginDrains, At, Located, IndInv, EntryInv
  <2> QED
    BY <1>6, <2>1 DEF LoginReleases, LoginDrains, AnyNext, Next, ReleaseStep
<1>7. ASSUME NEW c \in Clients, GetHandle(c) PROVE AnyNext
  <2>1. stage[c] = "lookup" /\ Found(c) \in Pools
    BY <1>7 DEF GetHandle, At
  <2>2. Before[user[c]] \in Users /\ state[Found(c)] = "live" /\ pc[c] = "out"
    BY <2>1 DEF Located, IndInv, EntryTypes, EntryInv, CachedPoolIsLive, Found, Placed
  <2>3. CallGet(c, Found(c))
    BY <1>7, <2>2 DEF GetHandle, CallGet
  <2> QED
    BY <2>1, <2>3 DEF AnyNext, Next
<1>8. ASSUME NEW c \in Clients, GetHandleFails(c) PROVE HandlerMove(c)
  <2>1. pc[c] \in {"out", "failed"}
    BY <1>8 DEF GetHandleFails, At, Located, Placed
  <2> QED
    BY <1>8, <2>1, LeavesPool DEF GetHandleFails, Goto
<1>9. ASSUME NEW c \in Clients, Respond(c) PROVE HandlerMove(c)
  <2>1. pc' = [pc EXCEPT ![c] = "out"]
    BY <1>9 DEF Respond, Located, TypeOK
  <2> QED
    BY <1>9, <2>1, LeavesPool DEF Respond
<1>10. ASSUME NEW c \in Clients,
              OperationSucceeds(c) \/ OperationFails(c) \/ NodeCloses(c) \/ NodeMissing(c)
       PROVE  HandlerMove(c)
  <2>1. pc[c] = "got" /\ stage[c] # "none"
    BY <1>10 DEF OperationSucceeds, OperationFails, NodeCloses, NodeMissing, HasHandle, At,
                 Located, Placed
  <2> QED
    BY <1>10, <2>1, GiveHandleMoves
       DEF OperationSucceeds, OperationFails, NodeCloses, NodeMissing, PutHandle, CloseHandle
<1>11. ASSUME NEW c \in Clients, NodeFails(c) \/ StreamEnds(c) PROVE UNCHANGED poolVars
  BY <1>11 DEF NodeFails, StreamEnds
<1>12. ASSUME NEW c \in Clients, InPool(c) PROVE AnyNext
  BY <1>12 DEF InPool, AnyNext, Next
<1> QED
  BY <1>1, <1>2, <1>3, <1>4, <1>5, <1>6, <1>7, <1>8, <1>9, <1>10, <1>11, <1>12
     DEF CacheNext, LoginStep, RequestStep, vars

-----------------------------------------------------------------------------
(* Types, and where the requests are.                                      *)

LEMMA HandlerMoveKeepsTypes ==
  ASSUME TypeOK, QueueIsExact, NEW c \in Clients, HandlerMove(c)
  PROVE  TypeOK' /\ QueueIsExact'
<1> USE PoolAssumption
<1>1. PICK place \in Places \ {"wait"}, p \in Pools \cup {None}, h \in {hand[c], None} :
        /\ pc[c] \in {"out", "failed", "got"}
        /\ pc' = [pc EXCEPT ![c] = place]
        /\ pl' = [pl EXCEPT ![c] = p]
        /\ hand' = [hand EXCEPT ![c] = h]
        /\ place # "out" => p \in Pools
        /\ (h # None) <=> (place \in Holding)
        /\ UNCHANGED <<state, conns, openingConns, connReqs, open>>
  BY DEF HandlerMove
<1>2. TypeOK'
  BY <1>1 DEF TypeOK
<1>3. \A d \in Clients : /\ (pc'[d] = "wait") <=> (pc[d] = "wait")
                         /\ pc[d] = "wait" => pl'[d] = pl[d]
  BY <1>1 DEF TypeOK
<1> QED
  BY <1>1, <1>2, <1>3, QueueKept

\* The steps inside a pool start neither outside it nor where the handler has
\* its connection, and they do not change the pool.
LEMMA PoolStepStaysInside ==
  ASSUME Located, NEW c \in Clients, PoolStep(c)
  PROVE  /\ pl' = pl
         /\ \A d \in Clients : pc[d] \in {"out", "got"} => pc'[d] = pc[d]
<1>1. CASE PutHandOver(c)
  <2> DEFINE w == Head(connReqs[pl[c]])
  <2>1. w \in Clients /\ pc[w] = "wait"
    <3>1. pl[c] \in Pools /\ connReqs[pl[c]] \in Seq(Clients) /\ connReqs[pl[c]] # <<>>
      BY <1>1 DEF PutHandOver, Located, TypeOK
    <3>2. w = connReqs[pl[c]][1] /\ w \in Clients /\ 1 \in DOMAIN connReqs[pl[c]]
      BY <3>1, HeadTailProperties
    <3> QED
      BY <3>1, <3>2 DEF Located, QueueIsExact
  <2>2. /\ pc' = [pc EXCEPT ![c] = "out", ![w] = "handed"] /\ pl' = pl /\ pc[c] = "put"
    BY <1>1 DEF PutHandOver
  <2> HIDE DEF w
  <2> QED
    BY <2>1, <2>2 DEF Located, TypeOK
<1>2. CASE ~PutHandOver(c)
  BY <1>2 DEF PoolStep, GetConns, Receive, ReceiveClosed, Miss, Enqueue, Open, OpenFails,
     WakeUp, PutReleased, PutIdle, PutFull, Close, Goto, Located, TypeOK
<1> QED
  BY <1>1, <1>2

LEMMA PlacedNext ==
  ASSUME Located, [CacheNext]_vars
  PROVE  Placed'
<1> USE PoolAssumption, CacheAssumption DEF Located
<1>1. CASE UNCHANGED vars
  BY <1>1 DEF Placed, vars, poolVars, handlerVars
<1>2. ASSUME NEW c \in Clients, NEW k \in Kinds, NEW u \in Users, Arrive(c, k, u)
      PROVE  Placed'
  BY <1>2 DEF Arrive, At, Proceed, Placed, poolVars, IndInv, EntryTypes
<1>3. ASSUME NEW c \in Clients, AuthRejects(c) \/ AuthExpires(c) \/ AuthLooksUp(c)
      PROVE  Placed'
  BY <1>3 DEF AuthRejects, AuthExpires, AuthLooksUp, Finish, At, Proceed, Placed, poolVars,
              IndInv, EntryTypes
<1>4. ASSUME NEW c \in Clients, AuthCreates(c) \/ LoginReplaces(c) PROVE Placed'
  BY <1>4 DEF AuthCreates, LoginReplaces, Create, CreateFails, NewChannelPool, Finish, At,
              Proceed, Placed, poolVars, IndInv, EntryTypes
<1>5. ASSUME NEW c \in Clients, LoginRemembers(c) \/ LoginEnds(c) PROVE Placed'
  BY <1>5 DEF LoginRemembers, LoginEnds, Finish, At, Proceed, Placed, poolVars,
              IndInv, EntryTypes
<1>6. ASSUME NEW c \in Clients, LoginReleases(c) \/ LoginDrains(c) PROVE Placed'
  BY <1>6 DEF LoginReleases, LoginDrains, Release, CloseConns, Drain, Finish, At, Proceed,
              Placed, poolVars, handlerVars, IndInv, EntryTypes
<1>7. ASSUME NEW c \in Clients, GetHandle(c) PROVE Placed'
  BY <1>7 DEF GetHandle, Goto, At, Proceed, Placed, IndInv, EntryTypes, TypeOK
<1>8. ASSUME NEW c \in Clients, GetHandleFails(c) PROVE Placed'
  BY <1>8 DEF GetHandleFails, Goto, Finish, At, Proceed, Placed, IndInv, EntryTypes, TypeOK
<1>9. ASSUME NEW c \in Clients, Respond(c) PROVE Placed'
  BY <1>9 DEF Respond, Finish, At, Proceed, Placed, IndInv, EntryTypes, TypeOK
<1>10. ASSUME NEW c \in Clients,
              OperationSucceeds(c) \/ OperationFails(c) \/ NodeCloses(c) \/ NodeMissing(c)
       PROVE  Placed'
  <2>1. /\ stage' = [stage EXCEPT ![c] = "return"]
        /\ \A d \in Clients \ {c} : pc'[d] = pc[d] /\ pl'[d] = pl[d]
    BY <1>10 DEF OperationSucceeds, OperationFails, NodeCloses, NodeMissing, PutHandle,
                 CloseHandle, GiveHandleTo, Goto, Proceed, TypeOK
  <2> QED
    BY <2>1 DEF Placed, IndInv, EntryTypes
<1>11. ASSUME NEW c \in Clients, NodeFails(c) PROVE Placed'
  BY <1>11 DEF NodeFails, HasHandle, At, Proceed, Placed, poolVars, IndInv, EntryTypes
<1>12. ASSUME NEW c \in Clients, StreamEnds(c) PROVE Placed'
  BY <1>12 DEF StreamEnds, Placed, poolVars
<1>13. ASSUME NEW c \in Clients, InPool(c) PROVE Placed'
  BY <1>13, PoolStepStaysInside DEF InPool, handlerVars, Placed
<1> QED
  BY <1>1, <1>2, <1>3, <1>4, <1>5, <1>6, <1>7, <1>8, <1>9, <1>10, <1>11, <1>12, <1>13
     DEF CacheNext, LoginStep, RequestStep

LEMMA LocatedNext == Located /\ [CacheNext]_vars => Located'
<1> SUFFICES ASSUME Located, [CacheNext]_vars PROVE Located'
  OBVIOUS
<1>1. CASE [AnyNext]_poolVars
  BY <1>1, TypeNext, QueueNext, IndInvNext, PlacedNext DEF Located
<1>2. ASSUME NEW c \in Clients, HandlerMove(c) PROVE Located'
  BY <1>2, HandlerMoveKeepsTypes, IndInvNext, PlacedNext DEF Located
<1> QED
  BY <1>1, <1>2, CacheStepOnPools

LEMMA LocatedCorrect == CacheSpec => []Located
<1>1. CacheInit => IndInv
  BY CacheAssumption DEF CacheInit, Init, IndInv, EntryTypes, EntryInv, CachedPoolIsLive,
                         States, Stages
<1>2. CacheInit => TypeOK /\ QueueIsExact /\ Placed
  BY PoolAssumption DEF CacheInit, Init, TypeOK, QueueIsExact, Placed, States, Places, Holding
<1> QED
  BY <1>1, <1>2, LocatedNext, PTL DEF CacheSpec, Located

LEMMA HandlerTypesNext == Located /\ HandlerTypes /\ [CacheNext]_vars => HandlerTypes'
<1> SUFFICES ASSUME Located, HandlerTypes, [CacheNext]_vars PROVE HandlerTypes'
  OBVIOUS
<1> USE CacheAssumption DEF HandlerTypes
<1>1. ASSUME UNCHANGED <<kind, panicked, stream>> PROVE HandlerTypes'
  BY <1>1
<1>2. CASE UNCHANGED vars
  BY <1>1, <1>2 DEF vars, handlerVars
<1>3. ASSUME NEW c \in Clients, NEW k \in Kinds, NEW u \in Users, Arrive(c, k, u)
      PROVE  HandlerTypes'
  BY <1>3 DEF Arrive
<1>4. ASSUME NEW c \in Clients, AuthRejects(c) \/ AuthExpires(c) \/ AuthLooksUp(c)
      PROVE  HandlerTypes'
  BY <1>4 DEF AuthRejects, AuthExpires, AuthLooksUp, Finish
<1>5. ASSUME NEW c \in Clients, AuthCreates(c) \/ LoginReplaces(c) PROVE HandlerTypes'
  BY <1>5 DEF AuthCreates, LoginReplaces, Create, CreateFails, Finish
<1>6. ASSUME NEW c \in Clients,
             LoginRemembers(c) \/ LoginReleases(c) \/ LoginDrains(c) \/ LoginEnds(c)
      PROVE  HandlerTypes'
  BY <1>6 DEF LoginRemembers, LoginReleases, LoginDrains, LoginEnds, handlerVars, Finish
<1>7. ASSUME NEW c \in Clients, GetHandle(c) \/ GetHandleFails(c) \/ Respond(c)
      PROVE  HandlerTypes'
  BY <1>7 DEF GetHandle, GetHandleFails, Respond, Finish
<1>8. ASSUME NEW c \in Clients, OperationSucceeds(c) PROVE HandlerTypes'
  <2>1. hand[c] \in Handles \cup {None}
    BY DEF Located, TypeOK
  <2> QED
    BY <1>8, <2>1 DEF OperationSucceeds, PutHandle, GiveHandleTo
<1>9. ASSUME NEW c \in Clients, OperationFails(c) \/ NodeCloses(c) \/ NodeMissing(c)
      PROVE  HandlerTypes'
  BY <1>9 DEF OperationFails, NodeCloses, NodeMissing, CloseHandle, GiveHandleTo
<1>10. ASSUME NEW c \in Clients, NodeFails(c) \/ StreamEnds(c) PROVE HandlerTypes'
  BY <1>10 DEF NodeFails, StreamEnds
<1>11. ASSUME NEW c \in Clients, InPool(c) PROVE HandlerTypes'
  BY <1>1, <1>11 DEF InPool, handlerVars
<1> QED
  BY <1>2, <1>3, <1>4, <1>5, <1>6, <1>7, <1>8, <1>9, <1>10, <1>11
     DEF CacheNext, LoginStep, RequestStep

\* Types, and that no request is inside a call of a pool while its handler is
\* elsewhere: what a login, an expiry or a failure does to the cache never
\* leaves a request with a connection it has no place for.
THEOREM CacheTypeCorrect == CacheSpec => []CacheTypeOK
<1>1. CacheInit => HandlerTypes
  BY CacheAssumption DEF CacheInit, HandlerTypes
<1>2. Located /\ HandlerTypes => CacheTypeOK
  BY DEF Located, IndInv, EntryTypes, Placed, HandlerTypes, CacheTypeOK
<1> QED
  BY <1>1, <1>2, LocatedCorrect, HandlerTypesNext, PTL DEF CacheSpec

-----------------------------------------------------------------------------
(* Custody of the connections.                                             *)

\* Most steps move no connection, or only lose one.
LEMMA CustodyKept ==
  ASSUME TypeOK, Custody, UNCHANGED <<conns, open>>,
         \A c \in Clients : hand'[c] = hand[c] \/ hand'[c] = None,
         \A p \in Pools : state'[p] = "none" => state[p] = "none"
  PROVE  Custody'
<1>1. Connected' = Connected /\ \A p \in Pools : None \notin conns[p]
  BY HolderInPool DEF Connected
<1> QED
  BY <1>1 DEF Custody, Exclusive, Usable

\* A pool hands a connection to the client at the head of its queue.
LEMMA HandOverReceiver ==
  ASSUME TypeOK, QueueIsExact, NEW c \in Clients, PutHandOver(c)
  PROVE  \E w \in Clients \ {c} : /\ pc[w] = "wait" /\ pl[w] = pl[c] /\ hand[w] = None
                                  /\ hand[c] # None /\ hand'[c] = None /\ hand'[w] = hand[c]
                                  /\ \A d \in Clients \ {c, w} : hand'[d] = hand[d]
<1> DEFINE w == Head(connReqs[pl[c]])
<1>1. pl[c] \in Pools /\ connReqs[pl[c]] \in Seq(Clients) /\ connReqs[pl[c]] # <<>>
  BY DEF PutHandOver, TypeOK
<1>2. w = connReqs[pl[c]][1] /\ w \in Clients /\ 1 \in DOMAIN connReqs[pl[c]]
  BY <1>1, HeadTailProperties
<1>3. pc[w] = "wait" /\ pl[w] = pl[c]
  BY <1>1, <1>2 DEF QueueIsExact
<1>4. hand[w] = None /\ hand[c] # None /\ w # c
  BY <1>2, <1>3 DEF PutHandOver, TypeOK, Holding
<1>5. hand' = [hand EXCEPT ![c] = None, ![w] = hand[c]]
  BY DEF PutHandOver
<1> HIDE DEF w
<1>6. /\ hand'[c] = None /\ hand'[w] = hand[c]
      /\ \A d \in Clients \ {c, w} : hand'[d] = hand[d]
  BY <1>2, <1>4, <1>5 DEF TypeOK
<1> QED
  BY <1>2, <1>3, <1>4, <1>6

LEMMA CustodyNext ==
  TypeOK /\ QueueIsExact /\ Custody /\ [AnyNext]_poolVars => Custody'
<1> SUFFICES ASSUME TypeOK, QueueIsExact, Custody, [AnyNext]_poolVars PROVE Custody'
  OBVIOUS
<1> USE PoolAssumption
<1>1. CASE UNCHANGED poolVars
  BY <1>1, CustodyKept DEF poolVars
<1>2. ASSUME NEW p \in Pools, Release(p) \/ CloseConns(p) PROVE Custody'
  BY <1>2, CustodyKept DEF TypeOK, Release, CloseConns
<1>3. ASSUME NEW c \in Clients, NEW p \in Pools, CallGet(c, p) PROVE Custody'
  BY <1>3, CustodyKept DEF CallGet
<1>4. ASSUME NEW c \in Clients, ClientStep(c) PROVE Custody'
  BY <1>4, CustodyKept DEF ClientStep, GiveUp, CallPut, CallClose
<1>5. ASSUME NEW c \in Clients, GetConns(c) \/ ReceiveClosed(c) \/ Miss(c) \/ Enqueue(c)
      PROVE  Custody'
  BY <1>5, CustodyKept DEF GetConns, ReceiveClosed, Miss, Enqueue
<1>6. ASSUME NEW c \in Clients, OpenFails(c) \/ WakeUp(c) \/ PutReleased(c) \/ PutFull(c)
      PROVE  Custody'
  BY <1>6, CustodyKept DEF OpenFails, WakeUp, PutReleased, PutFull
<1>7. ASSUME NEW p \in Pools, NewChannelPool(p) PROVE Custody'
  <2>1. PICK S \in SUBSET (Handles \ Connected) :
              /\ conns' = [conns EXCEPT ![p] = S]
              /\ open' = [open EXCEPT ![p] = S]
    BY <1>7 DEF NewChannelPool
  <2>2. /\ conns'[p] = S /\ open'[p] = S /\ hand' = hand
        /\ \A q \in Pools \ {p} : conns'[q] = conns[q] /\ open'[q] = open[q]
        /\ state'[p] = "live" /\ \A q \in Pools \ {p} : state'[q] = state[q]
    BY <2>1, <1>7 DEF TypeOK, NewChannelPool
  <2>3. open[p] = {}
    BY <1>7 DEF Custody, NewChannelPool
  <2>4. Connected' = Connected \cup S
    BY <2>2, <2>3, ConnectedByPool
  <2>5. /\ \A q \in Pools : S \cap open[q] = {} /\ S \cap conns[q] = {}
        /\ \A c \in Clients : hand[c] \notin S
    BY DEF Custody, Usable, Connected
  <2>6. Exclusive'
    BY <2>2, <2>5 DEF Custody, Exclusive
  <2>7. Usable'
    BY <2>2, <2>4 DEF Custody, Usable
  <2> QED
    BY <2>2, <2>5, <2>6, <2>7 DEF Custody
<1>8. ASSUME NEW p \in Pools, Drain(p) PROVE Custody'
  <2>1. PICK h \in conns[p] :
              /\ conns' = [conns EXCEPT ![p] = @ \ {h}]
              /\ open' = [q \in Pools |-> open[q] \ {h}]
    BY <1>8 DEF Drain
  <2>2. /\ UNCHANGED <<state, hand>> /\ Connected' = Connected \ {h}
        /\ conns'[p] = conns[p] \ {h} /\ \A q \in Pools \ {p} : conns'[q] = conns[q]
        /\ \A q \in Pools : open'[q] = open[q] \ {h}
    BY <2>1, <1>8, ConnectedByPool DEF Drain, TypeOK
  <2>3. (\A c \in Clients : hand[c] # h) /\ \A q \in Pools \ {p} : h \notin conns[q]
    BY DEF Custody, Exclusive
  <2>4. Exclusive'
    BY <2>2 DEF Custody, Exclusive
  <2>5. Usable'
    BY <2>2, <2>3 DEF Custody, Usable
  <2> QED
    BY <2>2, <2>4, <2>5 DEF Custody
<1>9. ASSUME NEW c \in Clients, Receive(c) PROVE Custody'
  <2>1. PICK h \in conns[pl[c]] :
              /\ conns' = [conns EXCEPT ![pl[c]] = @ \ {h}]
              /\ hand' = [hand EXCEPT ![c] = h]
    BY <1>9 DEF Receive
  <2>2. pl[c] \in Pools /\ UNCHANGED <<state, open>> /\ Connected' = Connected
    BY <1>9 DEF TypeOK, Receive, Connected
  <2>3. /\ conns'[pl[c]] = conns[pl[c]] \ {h}
        /\ \A q \in Pools \ {pl[c]} : conns'[q] = conns[q]
        /\ hand'[c] = h /\ \A d \in Clients \ {c} : hand'[d] = hand[d]
    BY <2>1, <2>2 DEF TypeOK
  <2>4. /\ \A d \in Clients : hand[d] # h
        /\ \A q \in Pools \ {pl[c]} : h \notin conns[q]
        /\ h \in Connected
    BY <2>2 DEF Custody, Exclusive, Usable
  <2>5. Exclusive'
    BY <2>2, <2>3, <2>4 DEF Custody, Exclusive
  <2>6. Usable'
    BY <2>2, <2>3, <2>4 DEF Custody, Usable
  <2> QED
    BY <2>2, <2>5, <2>6 DEF Custody
<1>10. ASSUME NEW c \in Clients, Open(c) PROVE Custody'
  <2>1. PICK h \in Handles \ Connected :
              /\ open' = [open EXCEPT ![pl[c]] = @ \cup {h}]
              /\ hand' = [hand EXCEPT ![c] = h]
    BY <1>10 DEF Open
  <2>2. pl[c] \in Pools /\ state[pl[c]] = "live" /\ UNCHANGED <<state, conns>>
    BY <1>10 DEF TypeOK, Open
  <2>3. /\ open'[pl[c]] = open[pl[c]] \cup {h}
        /\ \A q \in Pools \ {pl[c]} : open'[q] = open[q]
        /\ hand'[c] = h /\ \A d \in Clients \ {c} : hand'[d] = hand[d]
    BY <2>1, <2>2 DEF TypeOK
  <2>4. Connected' = Connected \cup {h}
    BY <2>2, <2>3, ConnectedByPool
  <2>5. /\ \A q \in Pools : h \notin open[q] /\ h \notin conns[q]
        /\ (\A d \in Clients : hand[d] # h) /\ h # None
    BY DEF Custody, Usable, Connected
  <2>6. Exclusive'
    BY <2>2, <2>3, <2>5 DEF Custody, Exclusive
  <2>7. Usable'
    BY <2>2, <2>3, <2>4 DEF Custody, Usable
  <2> QED
    BY <2>2, <2>3, <2>5, <2>6, <2>7 DEF Custody
<1>11. ASSUME NEW c \in Clients, PutHandOver(c) PROVE Custody'
  <2>1. PICK w \in Clients \ {c} :
              /\ hand[w] = None /\ hand[c] # None
              /\ hand'[c] = None /\ hand'[w] = hand[c]
              /\ \A d \in Clients \ {c, w} : hand'[d] = hand[d]
    BY <1>11, HandOverReceiver
  <2>2. UNCHANGED <<state, conns, open>> /\ Connected' = Connected
        /\ \A q \in Pools : None \notin conns[q]
    BY <1>11, HolderInPool DEF PutHandOver, Connected
  <2>3. Exclusive'
    BY <2>1, <2>2 DEF Custody, Exclusive
  <2>4. Usable'
    BY <2>1, <2>2 DEF Custody, Usable
  <2> QED
    BY <2>2, <2>3, <2>4 DEF Custody
<1>12. ASSUME NEW c \in Clients, PutIdle(c) PROVE Custody'
  <2>1. pl[c] \in Pools /\ hand[c] # None /\ UNCHANGED <<state, open>> /\ Connected' = Connected
    BY <1>12 DEF PutIdle, TypeOK, Holding, Connected
  <2>2. /\ conns'[pl[c]] = conns[pl[c]] \cup {hand[c]}
        /\ \A q \in Pools \ {pl[c]} : conns'[q] = conns[q]
        /\ hand'[c] = None /\ \A d \in Clients \ {c} : hand'[d] = hand[d]
        /\ \A q \in Pools : None \notin conns[q]
    BY <1>12, <2>1, HolderInPool DEF PutIdle, TypeOK
  <2>3. Exclusive'
    BY <2>1, <2>2 DEF Custody, Exclusive
  <2>4. Usable'
    BY <2>1, <2>2 DEF Custody, Usable
  <2> QED
    BY <2>1, <2>3, <2>4 DEF Custody
<1>13. ASSUME NEW c \in Clients, Close(c) PROVE Custody'
  <2>1. /\ hand[c] # None /\ UNCHANGED <<state, conns>>
        /\ hand'[c] = None /\ \A d \in Clients \ {c} : hand'[d] = hand[d]
    BY <1>13 DEF Close, TypeOK, Holding
  <2>2. CASE UNCHANGED open
    BY <2>1, <2>2, CustodyKept
  <2>3. CASE open' = [q \in Pools |-> open[q] \ {hand[c]}]
    <3>1. Connected' = Connected \ {hand[c]} /\ \A q \in Pools : open'[q] = open[q] \ {hand[c]}
      BY <2>3, ConnectedByPool
    <3>2. /\ \A d \in Clients \ {c} : hand[d] # hand[c]
          /\ \A q \in Pools : hand[c] \notin conns[q] /\ None \notin conns[q]
      BY <2>1, HolderInPool DEF Custody, Exclusive
    <3>3. Exclusive' /\ Usable'
      BY <2>1, <3>1, <3>2 DEF Custody, Exclusive, Usable
    <3> QED
      BY <2>1, <3>1, <3>3 DEF Custody
  <2> QED
    BY <2>2, <2>3, <1>13 DEF Close
<1> QED
  BY <1>1, <1>2, <1>3, <1>4, <1>5, <1>6, <1>7, <1>8, <1>9, <1>10, <1>11, <1>12, <1>13
     DEF AnyNext, Next, PoolStep, ClientStep, ReleaseStep

LEMMA HandlerMoveKeepsCustody ==
  ASSUME TypeOK, Custody, NEW c \in Clients, HandlerMove(c)
  PROVE  Custody'
<1>1. /\ UNCHANGED <<state, conns, open>>
      /\ \A d \in Clients : hand'[d] = hand[d] \/ hand'[d] = None
  BY DEF HandlerMove, TypeOK
<1> QED
  BY <1>1, CustodyKept

LEMMA CustodyCorrect == CacheSpec => []Custody
<1>1. CacheInit => Custody
  BY PoolAssumption DEF CacheInit, Init, Custody, Exclusive, Usable
<1>2. Located /\ Custody /\ [CacheNext]_vars => Custody'
  BY CacheStepOnPools, CustodyNext, HandlerMoveKeepsCustody DEF Located
<1> QED
  BY <1>1, <1>2, LocatedCorrect, PTL DEF CacheSpec

\* With the handlers around the pools, too, a connection has one owner.
THEOREM CacheExclusiveCorrect == CacheSpec => []Exclusive
<1>1. Custody => Exclusive
  BY DEF Custody
<1> QED
  BY <1>1, CustodyCorrect, PTL

\* And nobody holds or is given a connection that has been closed.
THEOREM CacheUsableCorrect == CacheSpec => []Usable
<1>1. Custody => Usable
  BY DEF Custody
<1> QED
  BY <1>1, CustodyCorrect, PTL

\* The handlers and their pools implement HandleLeases: a connection that is put
\* into another pool, or lost because the user's entry is gone, has merely been
\* given back.
THEOREM CacheImplementsLeases == CacheSpec => ImplementsLeases
<1>1. CacheInit => Leases!Init
  BY DEF CacheInit, Init, Leases!Init, Connected
<1>2. ASSUME Located, Custody, NEW c \in Clients, HandlerMove(c)
      PROVE  [Leases!Next]_(Leases!leaseVars)
  <2>1. hand = [hand EXCEPT ![c] = hand[c]]
    BY <1>2 DEF Located, TypeOK
  <2>2. PICK h \in {hand[c], None} : hand' = [hand EXCEPT ![c] = h] /\ UNCHANGED open
    BY <1>2 DEF HandlerMove
  <2>3. CASE h = hand[c]
    BY <2>1, <2>2, <2>3, LeaseStutters
  <2>4. CASE h # hand[c]
    <3>1. hand[c] # None /\ hand' = [hand EXCEPT ![c] = None] /\ UNCHANGED open
      BY <2>2, <2>4
    <3>2. Leases!GiveBack(c)
      BY <3>1 DEF Leases!GiveBack, Connected
    <3> QED
      BY <3>2 DEF Leases!Next
  <2> QED
    BY <2>3, <2>4
<1>3. Located /\ Custody /\ [CacheNext]_vars => [Leases!Next]_(Leases!leaseVars)
  BY <1>2, CacheStepOnPools, LeaseStep DEF Located
<1> QED
  BY <1>1, <1>3, LocatedCorrect, CustodyCorrect, PTL DEF CacheSpec, ImplementsLeases, Leases!Spec

-----------------------------------------------------------------------------
(* Users are kept apart.                                                   *)

\* UserIsolation is inductive once it is known that a request calls pools of
\* its own user only: what it puts there, and what it is given there, is its
\* user's.
Separated == UserIsolation /\ OwnPools

\* A client that holds nothing has no connection of any pool.
LEMMA EmptyHanded ==
  ASSUME TypeOK
  PROVE  \A c \in Clients : pc[c] \notin Holding => \A p \in Pools : hand[c] \notin open[p]
BY HolderInPool DEF TypeOK

\* Steps of the handlers outside the pools.
LEMMA SeparatedKept ==
  ASSUME Located, Separated, UNCHANGED <<conns, open, owner, pl, hand>>,
         \A p \in Pools : state'[p] = "none" => state[p] = "none",
         \A c \in Clients : user'[c] = user[c] \/ (pc[c] = "out" /\ pl[c] = None)
  PROVE  Separated'
<1>1. UserIsolation'
  <2>1. \A c \in Clients, p \in Pools : hand[c] \in open[p] => user'[c] = user[c]
    BY EmptyHanded DEF Located, Holding
  <2> QED
    BY <2>1 DEF Separated, UserIsolation
<1>2. OwnPools'
  BY PoolAssumption DEF Separated, OwnPools
<1> QED
  BY <1>1, <1>2 DEF Separated

LEMMA SeparatedCreates ==
  ASSUME Located, Custody, Separated, NEW c \in Clients, NEW p \in Pools, Create(c, p),
         \A d \in Clients : user'[d] = user[d] \/ (pc[d] = "out" /\ pl[d] = None)
  PROVE  Separated'
<1>1. PICK S \in SUBSET (Handles \ Connected) :
            /\ conns' = [conns EXCEPT ![p] = S]
            /\ open' = [open EXCEPT ![p] = S]
  BY DEF Create, NewChannelPool
<1>2. /\ state[p] = "none" /\ UNCHANGED <<pl, hand>>
      /\ state'[p] = "live" /\ \A q \in Pools \ {p} : state'[q] = state[q]
      /\ conns'[p] = S /\ open'[p] = S
      /\ \A q \in Pools \ {p} : /\ conns'[q] = conns[q] /\ open'[q] = open[q]
                                /\ owner'[q] = owner[q]
  BY <1>1 DEF Create, NewChannelPool, Located, TypeOK, IndInv, EntryTypes
<1>3. /\ \A q \in Pools : S \cap open[q] = {} /\ S \cap conns[q] = {}
      /\ \A d \in Clients : hand[d] \notin S
  BY PoolAssumption DEF Custody, Usable, Connected
<1>4. \A d \in Clients, q \in Pools : hand[d] \in open[q] => user'[d] = user[d]
  BY EmptyHanded DEF Located, Holding
<1>5. UserIsolation'
  BY <1>2, <1>3, <1>4 DEF Separated, UserIsolation
<1>6. OwnPools'
  BY <1>2, PoolAssumption DEF Separated, OwnPools
<1> QED
  BY <1>5, <1>6 DEF Separated

\* A handler that turns to the pool it looks for, or to none.
LEMMA SeparatedMoves ==
  ASSUME Located, Separated, NEW c \in Clients,
         UNCHANGED <<state, conns, open, owner>>,
         \A d \in Clients : hand'[d] = hand[d] \/ hand'[d] = None,
         \A d \in Clients \ {c} : user'[d] = user[d] /\ pl'[d] = pl[d],
         user'[c] = user[c] \/ hand'[c] = None,
         pl'[c] \in Pools => state[pl'[c]] # "none" /\ owner[pl'[c]] = Before[user'[c]]
  PROVE  Separated'
<1>1. \A p \in Pools : None \notin open[p]
  BY HolderInPool DEF Located
<1>2. UserIsolation'
  <2>1. \A d \in Clients, p \in Pools : hand'[d] \in open[p] => hand'[d] = hand[d] /\ user'[d] = user[d]
    BY <1>1
  <2> QED
    BY <2>1 DEF Separated, UserIsolation
<1>3. OwnPools'
  BY DEF Separated, OwnPools
<1> QED
  BY <1>2, <1>3 DEF Separated

\* What a handler finds in the cache is a pool of the user it looks for.
LEMMA EntryIsOwn ==
  ASSUME Located, NEW c \in Clients, stage[c] # "none", Found(c) \in Pools
  PROVE  state[Found(c)] # "none" /\ owner[Found(c)] = Before[user[c]]
BY CacheAssumption DEF Located, IndInv, EntryTypes, EntryInv, CachedPoolIsLive, Found

LEMMA SeparatedInPool ==
  ASSUME Located, Custody, Separated, NEW c \in Clients, PoolStep(c), UNCHANGED handlerVars
  PROVE  Separated'
<1> USE PoolAssumption
<1>1. OwnPools'
  BY PoolStepKeepsState, PoolStepStaysInside DEF Separated, OwnPools, handlerVars
<1> SUFFICES UserIsolation'
  BY <1>1 DEF Separated
<1>2. UNCHANGED <<owner, user>>
  BY DEF handlerVars
<1>3. ASSUME UNCHANGED <<conns, open, hand>> PROVE UserIsolation'
  BY <1>2, <1>3 DEF Separated, UserIsolation
<1>4. CASE GetConns(c) \/ ReceiveClosed(c) \/ Miss(c) \/ Enqueue(c)
  BY <1>3, <1>4 DEF GetConns, ReceiveClosed, Miss, Enqueue
<1>5. CASE OpenFails(c) \/ WakeUp(c) \/ PutReleased(c) \/ PutFull(c)
  BY <1>3, <1>5 DEF OpenFails, WakeUp, PutReleased, PutFull
<1>6. CASE Receive(c)
  <2>1. PICK h \in conns[pl[c]] : /\ conns' = [conns EXCEPT ![pl[c]] = @ \ {h}]
                                  /\ hand' = [hand EXCEPT ![c] = h]
    BY <1>6 DEF Receive
  <2>2. pl[c] \in Pools /\ UNCHANGED open
    BY <1>6 DEF Receive, Located, TypeOK
  <2>3. /\ \A q \in Pools : conns'[q] \subseteq conns[q]
        /\ hand'[c] = h /\ \A d \in Clients \ {c} : hand'[d] = hand[d]
    BY <2>1, <2>2 DEF Located, TypeOK
  <2>4. \A p \in Pools : h \in open[p] => owner[p] = Before[user[c]]
    BY <2>2 DEF Separated, UserIsolation, OwnPools
  <2> QED
    BY <1>2, <2>2, <2>3, <2>4 DEF Separated, UserIsolation
<1>7. CASE Open(c)
  <2>1. PICK h \in Handles \ Connected : /\ open' = [open EXCEPT ![pl[c]] = @ \cup {h}]
                                         /\ hand' = [hand EXCEPT ![c] = h]
    BY <1>7 DEF Open
  <2>2. pl[c] \in Pools /\ UNCHANGED conns /\ owner[pl[c]] = Before[user[c]]
    BY <1>7 DEF Open, Located, TypeOK, Separated, OwnPools
  <2>3. /\ open'[pl[c]] = open[pl[c]] \cup {h}
        /\ \A q \in Pools \ {pl[c]} : open'[q] = open[q]
        /\ hand'[c] = h /\ \A d \in Clients \ {c} : hand'[d] = hand[d]
    BY <2>1, <2>2 DEF Located, TypeOK
  <2>4. /\ \A q \in Pools : h \notin open[q] /\ h \notin conns[q]
        /\ \A d \in Clients : hand[d] # h
    BY DEF Custody, Usable, Connected
  <2> QED
    BY <1>2, <2>2, <2>3, <2>4 DEF Separated, UserIsolation
<1>8. CASE PutHandOver(c)
  <2>1. PICK w \in Clients \ {c} :
              /\ pc[w] = "wait" /\ pl[w] = pl[c] /\ hand[w] = None
              /\ hand[c] # None /\ hand'[c] = None /\ hand'[w] = hand[c]
              /\ \A d \in Clients \ {c, w} : hand'[d] = hand[d]
    BY <1>8, HandOverReceiver DEF Located
  <2>2. Before[user[w]] = Before[user[c]]
    <3>1. pl[c] \in Pools
      BY <1>8 DEF PutHandOver, Located, TypeOK
    <3> QED
      BY <2>1, <3>1 DEF Separated, OwnPools
  <2>3. UNCHANGED <<conns, open>> /\ \A p \in Pools : None \notin open[p]
    BY <1>8, HolderInPool DEF PutHandOver, Located
  <2> QED
    BY <1>2, <2>1, <2>2, <2>3 DEF Separated, UserIsolation
<1>9. CASE PutIdle(c)
  <2>1. pl[c] \in Pools /\ UNCHANGED open /\ owner[pl[c]] = Before[user[c]]
    BY <1>9 DEF PutIdle, Located, TypeOK, Separated, OwnPools
  <2>2. /\ conns'[pl[c]] = conns[pl[c]] \cup {hand[c]}
        /\ \A q \in Pools \ {pl[c]} : conns'[q] = conns[q]
        /\ hand'[c] = None /\ \A d \in Clients \ {c} : hand'[d] = hand[d]
        /\ \A p \in Pools : None \notin open[p]
    BY <1>9, <2>1, HolderInPool DEF PutIdle, Located, TypeOK
  <2>3. \A p \in Pools : hand[c] \in open[p] => owner[p] = owner[pl[c]]
    BY <2>1 DEF Separated, UserIsolation
  <2> QED
    BY <1>2, <2>1, <2>2, <2>3 DEF Separated, UserIsolation
<1>10. CASE Close(c)
  <2>1. UNCHANGED conns /\ \A q \in Pools : open'[q] \subseteq open[q]
    BY <1>10 DEF Close
  <2>2. /\ hand'[c] = None /\ \A d \in Clients \ {c} : hand'[d] = hand[d]
        /\ \A p \in Pools : None \notin open[p]
    BY <1>10, HolderInPool DEF Close, Located, TypeOK
  <2> QED
    BY <1>2, <2>1, <2>2 DEF Separated, UserIsolation
<1> QED
  BY <1>4, <1>5, <1>6, <1>7, <1>8, <1>9, <1>10 DEF PoolStep

LEMMA SeparatedNext == Located /\ Custody /\ Separated /\ [CacheNext]_vars => Separated'
<1> SUFFICES ASSUME Located, Custody, Separated, [CacheNext]_vars PROVE Separated'
  OBVIOUS
<1> USE PoolAssumption, CacheAssumption
<1>1. ASSUME NEW c \in Clients, stage[c] \notin {"pool", "close", "return"},
             \A d \in Clients \ {c} : user'[d] = user[d]
      PROVE  \A d \in Clients : user'[d] = user[d] \/ (pc[d] = "out" /\ pl[d] = None)
  BY <1>1 DEF Located, Placed
<1>2. CASE UNCHANGED vars
  BY <1>2, SeparatedKept DEF vars, poolVars, handlerVars
<1>3. ASSUME NEW c \in Clients, NEW k \in Kinds, NEW u \in Users, Arrive(c, k, u)
      PROVE  Separated'
  <2>1. /\ stage[c] \notin {"pool", "close", "return"}
        /\ \A d \in Clients \ {c} : user'[d] = user[d]
    BY <1>3 DEF Arrive, At, Located, IndInv, EntryTypes
  <2> QED
    BY <1>3, <1>1, <2>1, SeparatedKept DEF Arrive, poolVars
<1>4. ASSUME NEW c \in Clients, AuthRejects(c) \/ AuthExpires(c) \/ AuthLooksUp(c)
      PROVE  Separated'
  <2>1. /\ stage[c] \notin {"pool", "close", "return"}
        /\ \A d \in Clients \ {c} : user'[d] = user[d]
    BY <1>4 DEF AuthRejects, AuthExpires, AuthLooksUp, Finish, At, Located, IndInv, EntryTypes
  <2> QED
    BY <1>4, <1>1, <2>1, SeparatedKept DEF AuthRejects, AuthExpires, AuthLooksUp, poolVars
<1>5. ASSUME NEW c \in Clients, AuthCreates(c) \/ LoginReplaces(c) PROVE Separated'
  <2>1. /\ stage[c] \notin {"pool", "close", "return"}
        /\ \A d \in Clients \ {c} : user'[d] = user[d]
    BY <1>5 DEF AuthCreates, LoginReplaces, CreateFails, Finish, At, Located, IndInv, EntryTypes
  <2>2. CASE \E p \in Pools : Create(c, p)
    BY <1>1, <2>1, <2>2, SeparatedCreates
  <2>3. CASE CreateFails(c)
    BY <2>3, SeparatedKept DEF CreateFails, poolVars
  <2> QED
    BY <1>5, <2>2, <2>3 DEF AuthCreates, LoginReplaces
<1>6. ASSUME NEW c \in Clients, LoginRemembers(c) \/ LoginEnds(c) PROVE Separated'
  <2>1. /\ stage[c] \notin {"pool", "close", "return"}
        /\ \A d \in Clients \ {c} : user'[d] = user[d]
    BY <1>6 DEF LoginRemembers, LoginEnds, Finish, At, Located, IndInv, EntryTypes
  <2> QED
    BY <1>6, <1>1, <2>1, SeparatedKept DEF LoginRemembers, LoginEnds, poolVars
<1>7. ASSUME NEW c \in Clients, LoginReleases(c) PROVE Separated'
  <2>1. /\ stage[c] \notin {"pool", "close", "return"}
        /\ \A d \in Clients \ {c} : user'[d] = user[d]
    BY <1>7 DEF LoginReleases, Finish, At, Located, IndInv, EntryTypes
  <2>2. /\ UNCHANGED <<conns, open, owner, pl, hand>>
        /\ \A p \in Pools : state'[p] = "none" => state[p] = "none"
    BY <1>7 DEF LoginReleases, Release, poolVars, Located, TypeOK
  <2> QED
    BY <1>1, <2>1, <2>2, SeparatedKept
<1>8. ASSUME NEW c \in Clients, LoginDrains(c) PROVE Separated'
  <2>1. UNCHANGED <<owner, user, pl, hand>>
    BY <1>8 DEF LoginDrains, CloseConns, Drain, handlerVars
  <2>2. \A p \in Pools : conns'[p] \subseteq conns[p] /\ open'[p] \subseteq open[p]
    <3>1. CASE CloseConns(old[c])
      BY <3>1 DEF CloseConns
    <3>2. CASE Drain(old[c])
      <4>1. PICK h \in conns[old[c]] : /\ conns' = [conns EXCEPT ![old[c]] = @ \ {h}]
                                       /\ open' = [q \in Pools |-> open[q] \ {h}]
        BY <3>2 DEF Drain
      <4> QED
        BY <4>1 DEF Located, TypeOK
    <3> QED
      BY <1>8, <3>1, <3>2 DEF LoginDrains
  <2>3. \A p \in Pools : state'[p] = "none" => state[p] = "none"
    BY <1>8 DEF LoginDrains, CloseConns, Drain, Located, TypeOK
  <2> QED
    BY <2>1, <2>2, <2>3 DEF Separated, UserIsolation, OwnPools
<1>9. ASSUME NEW c \in Clients, GetHandle(c) PROVE Separated'
  <2>1. stage[c] # "none" /\ Found(c) \in Pools /\ pl' = [pl EXCEPT ![c] = Found(c)]
        /\ UNCHANGED <<state, conns, open, owner, user, hand>>
    BY <1>9 DEF GetHandle, At
  <2>2. /\ pl'[c] = Found(c) /\ \A d \in Clients \ {c} : pl'[d] = pl[d]
    BY <2>1 DEF Located, TypeOK
  <2> QED
    BY <2>1, <2>2, EntryIsOwn, SeparatedMoves
<1>10. ASSUME NEW c \in Clients, GetHandleFails(c) \/ Respond(c) PROVE Separated'
  <2>1. /\ pl' = [pl EXCEPT ![c] = None] /\ user' = [user EXCEPT ![c] = None]
        /\ UNCHANGED <<state, conns, open, owner, hand>>
    BY <1>10 DEF GetHandleFails, Respond, Finish
  <2>2. hand[c] = None
    BY <1>10 DEF GetHandleFails, Respond, At, Located, Placed, TypeOK, Holding
  <2>3. /\ pl'[c] = None
        /\ \A d \in Clients \ {c} : pl'[d] = pl[d] /\ user'[d] = user[d]
    BY <2>1 DEF Located, TypeOK, IndInv, EntryTypes
  <2> QED
    BY <2>1, <2>2, <2>3, SeparatedMoves
<1>11. ASSUME NEW c \in Clients,
              OperationSucceeds(c) \/ OperationFails(c) \/ NodeCloses(c) \/ NodeMissing(c)
       PROVE  Separated'
  <2>1. stage[c] # "none" /\ \E place \in {"put", "close"} : GiveHandleTo(c, place)
    BY <1>11 DEF OperationSucceeds, OperationFails, NodeCloses, NodeMissing, HasHandle, At,
                 PutHandle, CloseHandle
  <2>2. UNCHANGED <<state, conns, open, owner, user>>
    BY <2>1 DEF GiveHandleTo
  <2>3. /\ \A d \in Clients : hand'[d] = hand[d] \/ hand'[d] = None
        /\ \A d \in Clients \ {c} : pl'[d] = pl[d]
        /\ pl'[c] = pl[c] \/ (Found(c) \in Pools /\ pl'[c] = Found(c))
    BY <2>1 DEF GiveHandleTo, Located, TypeOK
  <2>4. pl'[c] \in Pools => state[pl'[c]] # "none" /\ owner[pl'[c]] = Before[user[c]]
    BY <2>1, <2>3, EntryIsOwn DEF Separated, OwnPools
  <2> QED
    BY <2>2, <2>3, <2>4, SeparatedMoves
<1>12. ASSUME NEW c \in Clients, NodeFails(c) \/ StreamEnds(c) PROVE Separated'
  BY <1>12, SeparatedKept DEF NodeFails, StreamEnds, poolVars
<1>13. ASSUME NEW c \in Clients, InPool(c) PROVE Separated'
  BY <1>13, SeparatedInPool DEF InPool
<1> QED
  BY <1>2, <1>3, <1>4, <1>5, <1>6, <1>7, <1>8, <1>9, <1>10, <1>11, <1>12, <1>13
     DEF CacheNext, LoginStep, RequestStep

LEMMA SeparatedCorrect == CacheSpec => []Separated
<1>1. CacheInit => Separated
  BY PoolAssumption DEF CacheInit, Init, Separated, UserIsolation, OwnPools
<1> QED
  BY <1>1, LocatedCorrect, CustodyCorrect, SeparatedNext, PTL DEF CacheSpec

\* No request ever works with a connection that was opened with the credentials
\* of a user other than the one whose name its own has before the first colon,
\* although connections move between the pools that logins and
\* expiries create for a user.
THEOREM UserIsolationCorrect == CacheSpec => []UserIsolation
<1>1. Separated => UserIsolation
  BY DEF Separated
<1> QED
  BY <1>1, SeparatedCorrect, PTL

-----------------------------------------------------------------------------
(* Accounts: the handlers and their pools implement AccountLeases.         *)

\* What the steps of AccountLeases keep besides KeptApart.
LeaseTypes ==
    /\ hand \in [Clients -> Handles \cup {None}]
    /\ Connected \subseteq Handles
    /\ user \in [Clients -> Users \cup {None}]

LEMMA AccountsKeptApartNext ==
  ASSUME LeaseTypes, Accounts!KeptApart, [Accounts!AccountNext]_(Accounts!accountVars)
  PROVE  LeaseTypes' /\ Accounts!KeptApart'
<1> DEFINE acc == [h \in Handles |-> Account(h)]
<1> USE PoolAssumption, CacheAssumption DEF LeaseTypes, Accounts!KeptApart
<1>0. \A S \in SUBSET Handles : \A u : Accounts!Assign(S, u) =>
         \A h \in Handles : acc'[h] = IF h \in S THEN u ELSE acc[h]
  BY DEF Accounts!Assign
<1>1. CASE UNCHANGED Accounts!accountVars
  BY <1>1 DEF Accounts!accountVars, Accounts!leaseVars
<1>2. ASSUME NEW c \in Clients, NEW u \in Users \cup {None}, Accounts!Serve(c, u)
      PROVE  LeaseTypes' /\ Accounts!KeptApart'
  BY <1>2 DEF Accounts!Serve, Accounts!leaseVars
<1>3. ASSUME NEW c \in Clients, NEW S \in SUBSET Handles, Accounts!ConnectAhead(c, S)
      PROVE  LeaseTypes' /\ Accounts!KeptApart'
  <2>1. /\ S \cap Connected = {} /\ Connected' = Connected \cup S /\ hand' = hand
        /\ user' = user \/ (hand[c] = None /\ user' = [user EXCEPT ![c] = None])
    BY <1>3 DEF Accounts!ConnectAhead, Accounts!Connect
  <2>2. \A h \in Handles \ S : acc'[h] = acc[h]
    BY <1>0, <1>3 DEF Accounts!ConnectAhead
  <2> HIDE DEF acc
  <2> QED
    BY <2>1, <2>2, ZenonT(60) DEF acc
<1>4. ASSUME NEW c \in Clients, NEW h \in Handles, Accounts!ConnectOwn(c, h)
      PROVE  LeaseTypes' /\ Accounts!KeptApart'
  <2>1. /\ hand[c] = None /\ h \notin Connected /\ Connected' = Connected \cup {h}
        /\ hand' = [hand EXCEPT ![c] = h] /\ user' = user
    BY <1>4 DEF Accounts!ConnectOwn, Accounts!ConnectFor
  <2>2. acc'[h] = Before[user[c]] /\ \A k \in Handles \ {h} : acc'[k] = acc[k]
    BY <1>0, <1>4 DEF Accounts!ConnectOwn
  <2>3. hand'[c] = h /\ \A d \in Clients \ {c} : hand'[d] = hand[d]
    BY <2>1
  <2>4. \A d \in Clients : hand[d] # None => hand[d] \in Handles \ {h}
    BY <2>1
  <2>5. LeaseTypes'
    BY <2>1
  <2> HIDE DEF acc
  <2>6. ASSUME NEW d \in Clients, hand'[d] # None
        PROVE  /\ hand'[d] \in Connected'
               /\ acc'[hand'[d]] = Before[user'[d]]
               /\ \A e \in Clients \ {d} : hand'[e] # hand'[d]
    <3>1. CASE d = c
      BY <3>1, <2>1, <2>2, <2>3, <2>4 DEF acc
    <3>2. CASE d # c
      BY <2>6, <3>2, <2>1, <2>2, <2>3, <2>4, ZenonT(60) DEF acc
    <3> QED
      BY <3>1, <3>2
  <2> QED
    BY <2>5, <2>6 DEF acc
<1>5. ASSUME NEW c \in Clients, NEW h \in Handles, Accounts!GrantOwn(c, h)
      PROVE  LeaseTypes' /\ Accounts!KeptApart'
  <2>1. /\ hand[c] = None /\ h \in Connected /\ \A d \in Clients : hand[d] # h
        /\ Connected' = Connected /\ hand' = [hand EXCEPT ![c] = h] /\ user' = user
        /\ acc' = acc /\ acc[h] = Before[user[c]]
    BY <1>5 DEF Accounts!GrantOwn, Accounts!Grant, Accounts!Free
  <2> HIDE DEF acc
  <2> QED
    BY <2>1 DEF acc
<1>6. ASSUME NEW c \in Clients, Accounts!GiveBackOwn(c)
      PROVE  LeaseTypes' /\ Accounts!KeptApart'
  BY <1>6 DEF Accounts!GiveBackOwn, Accounts!GiveBack
<1>7. ASSUME NEW c \in Clients, Accounts!DisconnectOwn(c)
      PROVE  LeaseTypes' /\ Accounts!KeptApart'
  <2>1. /\ hand[c] # None /\ Connected' = Connected \ {hand[c]}
        /\ hand' = [hand EXCEPT ![c] = None] /\ user' = user
    BY <1>7 DEF Accounts!DisconnectOwn, Accounts!Disconnect
  <2>2. hand[c] \in Handles /\ \A k \in Handles \ {hand[c]} : acc'[k] = acc[k]
    BY <1>0, <1>7, <2>1 DEF Accounts!DisconnectOwn
  <2> HIDE DEF acc
  <2> QED
    BY <2>1, <2>2, ZenonT(60) DEF acc
<1>8. ASSUME NEW c \in Clients, NEW d \in Clients, Accounts!HandOverOwn(c, d)
      PROVE  LeaseTypes' /\ Accounts!KeptApart'
  <2>1. /\ hand[c] # None /\ hand[d] = None /\ Connected' = Connected /\ user' = user
        /\ hand' = [hand EXCEPT ![c] = None, ![d] = hand[c]]
        /\ acc' = acc /\ acc[hand[c]] = Before[user[d]]
    BY <1>8 DEF Accounts!HandOverOwn, Accounts!HandOver
  <2> HIDE DEF acc
  <2> QED
    BY <2>1 DEF acc
<1>9. ASSUME NEW h \in Handles, Accounts!DisconnectIdle(h)
      PROVE  LeaseTypes' /\ Accounts!KeptApart'
  <2>1. /\ \A d \in Clients : hand[d] # h
        /\ Connected' = Connected \ {h} /\ hand' = hand /\ user' = user
    BY <1>9 DEF Accounts!DisconnectIdle, Accounts!DisconnectFree, Accounts!Free
  <2>2. \A k \in Handles \ {h} : acc'[k] = acc[k]
    BY <1>0, <1>9 DEF Accounts!DisconnectIdle
  <2> HIDE DEF acc
  <2> QED
    BY <2>1, <2>2 DEF acc
<1> QED
  BY <1>1, <1>2, <1>3, <1>4, <1>5, <1>6, <1>7, <1>8, <1>9 DEF Accounts!AccountNext

\* What AccountLeases promises of any system that implements it.
LEMMA AccountsPromise == ImplementsAccounts => []Accounts!KeptApart
<1>1. Accounts!AccountInit => LeaseTypes /\ Accounts!KeptApart
  BY DEF Accounts!AccountInit, Accounts!Init, Accounts!KeptApart, LeaseTypes
<1> QED
  BY <1>1, AccountsKeptApartNext, PTL DEF ImplementsAccounts, Accounts!AccountSpec

\* A connection that is open belongs to the user of the pool that opened it,
\* whatever pool it is in.
AccountsAreOwners ==
    /\ \A p \in Pools : \A h \in open[p] : Account(h) = owner[p]
    /\ \A h \in Handles : h \notin Connected => Account(h) = None

LEMMA OwnersAreAccounts == Custody => AccountsAreOwners
<1> SUFFICES ASSUME Custody PROVE AccountsAreOwners
  OBVIOUS
<1>1. ASSUME NEW p \in Pools, NEW h \in open[p] PROVE Account(h) = owner[p]
  <2> DEFINE q == CHOOSE q \in Pools : h \in open[q]
  <2>1. q \in Pools /\ h \in open[q]
    OBVIOUS
  <2>2. q = p
    BY <2>1 DEF Custody
  <2>3. Account(h) = owner[q]
    BY ConnectedByPool DEF Account
  <2> QED
    BY <2>2, <2>3
<1>2. \A h \in Handles : h \notin Connected => Account(h) = None
  BY DEF Account
<1> QED
  BY <1>1, <1>2 DEF AccountsAreOwners

LEMMA OwnersStayAccounts == Custody' => AccountsAreOwners'
BY OwnersAreAccounts, PTL

\* A step that opens or closes the connections S gives them to u, and leaves the
\* accounts of the others as they are.
LEMMA Assigned ==
  ASSUME Custody, Custody', NEW S \in SUBSET Handles, NEW u,
         \A h \in Handles \ S : \A p \in Pools : h \in open'[p] <=> h \in open[p],
         \A p \in Pools : open[p] # {} => owner'[p] = owner[p],
         \A h \in S : \/ \E p \in Pools : h \in open'[p] /\ owner'[p] = u
                      \/ h \notin Connected' /\ u = None
  PROVE  Accounts!Assign(S, u)
<1>1. AccountsAreOwners /\ AccountsAreOwners'
  BY OwnersAreAccounts, OwnersStayAccounts
<1>2. \A h \in S : Account(h)' = u
  BY <1>1 DEF AccountsAreOwners
<1>3. ASSUME NEW h \in Handles \ S PROVE Account(h)' = Account(h)
  <2>1. CASE \E p \in Pools : h \in open[p]
    BY <1>1, <2>1 DEF AccountsAreOwners
  <2>2. CASE ~ \E p \in Pools : h \in open[p]
    <3>1. h \notin Connected /\ h \notin Connected'
      BY <2>2, ConnectedByPool
    <3> QED
      BY <1>1, <3>1 DEF AccountsAreOwners
  <2> QED
    BY <2>1, <2>2
<1> QED
  BY <1>2, <1>3 DEF Accounts!Assign

\* Most steps open and close no connection.
LEMMA AccountsKept ==
  ASSUME Custody, Custody', UNCHANGED <<open, owner>>
  PROVE  UNCHANGED <<Connected, [h \in Handles |-> Account(h)]>>
<1>1. Accounts!Assign({}, None)
  BY Assigned
<1> QED
  BY <1>1 DEF Accounts!Assign, Connected

LEMMA AccountStutters ==
  ASSUME Custody, Custody', UNCHANGED <<open, owner, hand, user>>
  PROVE  UNCHANGED Accounts!accountVars
BY AccountsKept DEF Accounts!accountVars, Accounts!leaseVars

LEMMA AccountServes ==
  ASSUME Custody, Custody', UNCHANGED <<open, owner, hand>>, NEW c \in Clients, hand[c] = None,
         NEW u \in Users \cup {None}, user' = [user EXCEPT ![c] = u]
  PROVE  Accounts!AccountNext
<1>1. Accounts!Serve(c, u)
  BY AccountsKept DEF Accounts!Serve, Accounts!leaseVars
<1> QED
  BY <1>1 DEF Accounts!AccountNext

LEMMA AccountGivesBack ==
  ASSUME Custody, Custody', UNCHANGED <<open, owner, user>>, NEW c \in Clients, hand[c] # None,
         hand' = [hand EXCEPT ![c] = None]
  PROVE  Accounts!AccountNext
<1>1. Accounts!GiveBackOwn(c)
  BY AccountsKept DEF Accounts!GiveBackOwn, Accounts!GiveBack
<1> QED
  BY <1>1 DEF Accounts!AccountNext

\* A request that creates a pool connects PoolSize handles ahead for its user.
LEMMA AccountCreates ==
  ASSUME Located, Custody, Custody', NEW c \in Clients, NEW p \in Pools, Create(c, p),
         hand[c] = None, user[c] \in Users,
         UNCHANGED user \/ user' = [user EXCEPT ![c] = None]
  PROVE  Accounts!AccountNext
<1>1. PICK S \in SUBSET (Handles \ Connected) : open' = [open EXCEPT ![p] = S]
  BY DEF Create, NewChannelPool
<1>2. state[p] = "none" /\ open[p] = {} /\ UNCHANGED hand /\ owner' = [owner EXCEPT ![p] = user[c]]
  BY DEF Create, NewChannelPool, Custody
<1>3. /\ open'[p] = S /\ owner'[p] = user[c]
      /\ \A q \in Pools \ {p} : open'[q] = open[q] /\ owner'[q] = owner[q]
  BY <1>1, <1>2 DEF Located, TypeOK, IndInv, EntryTypes
<1>4. Connected' = Connected \cup S
  BY <1>2, <1>3, ConnectedByPool
<1>5. \A h \in S : \A d \in Clients : hand[d] # h
  BY PoolAssumption DEF Custody, Usable
<1>6. Accounts!Connect(S)
  BY <1>2, <1>4, <1>5 DEF Accounts!Connect, Accounts!Free
<1>7. Accounts!Assign(S, user[c])
  BY <1>2, <1>3, Assigned
<1>8. Accounts!ConnectAhead(c, S)
  BY <1>6, <1>7 DEF Accounts!ConnectAhead
<1> QED
  BY <1>8 DEF Accounts!AccountNext

\* The steps inside a pool: what a request is given there belongs to the user it
\* looks for.
LEMMA AccountInPool ==
  ASSUME Located, Custody, Custody', Separated, NEW c \in Clients, PoolStep(c),
         UNCHANGED handlerVars
  PROVE  [Accounts!AccountNext]_(Accounts!accountVars)
<1> USE PoolAssumption
<1>0. /\ UNCHANGED <<owner, user>>
      /\ pl[c] \in Pools => owner[pl[c]] = Before[user[c]]
  BY DEF handlerVars, Separated, OwnPools, Located, IndInv, EntryTypes
<1>1. ASSUME UNCHANGED <<open, hand>> PROVE UNCHANGED Accounts!accountVars
  BY <1>0, <1>1, AccountStutters
<1>2. CASE GetConns(c) \/ ReceiveClosed(c) \/ Miss(c) \/ Enqueue(c)
  BY <1>1, <1>2 DEF GetConns, ReceiveClosed, Miss, Enqueue
<1>3. CASE OpenFails(c) \/ WakeUp(c) \/ PutReleased(c) \/ PutFull(c)
  BY <1>1, <1>3 DEF OpenFails, WakeUp, PutReleased, PutFull
<1>4. CASE Receive(c)
  <2>1. PICK h \in conns[pl[c]] : hand' = [hand EXCEPT ![c] = h]
    BY <1>4 DEF Receive
  <2>2. pl[c] \in Pools /\ hand[c] = None /\ UNCHANGED open
    BY <1>4 DEF Receive, Located, TypeOK, Holding
  <2>3. h \in Connected /\ h \in Handles /\ \A d \in Clients : hand[d] # h
    BY <2>2 DEF Located, TypeOK, Custody, Exclusive, Usable
  <2>4. Account(h) = Before[user[c]]
    <3>1. PICK p \in Pools : h \in open[p]
      BY <2>3, ConnectedByPool
    <3>2. owner[p] = owner[pl[c]]
      BY <2>2, <3>1 DEF Separated, UserIsolation
    <3> QED
      BY <1>0, <2>2, <3>1, <3>2, OwnersAreAccounts DEF AccountsAreOwners
  <2>5. Accounts!Grant(c, h)
    BY <2>1, <2>2, <2>3 DEF Accounts!Grant, Accounts!Free, Connected
  <2>6. UNCHANGED [k \in Handles |-> Account(k)]
    BY <1>0, <2>2, AccountsKept
  <2>7. Accounts!GrantOwn(c, h)
    BY <1>0, <2>3, <2>4, <2>5, <2>6 DEF Accounts!GrantOwn
  <2> QED
    BY <2>3, <2>7 DEF Accounts!AccountNext
<1>5. CASE Open(c)
  <2>1. PICK h \in Handles \ Connected : /\ open' = [open EXCEPT ![pl[c]] = @ \cup {h}]
                                         /\ hand' = [hand EXCEPT ![c] = h]
    BY <1>5 DEF Open
  <2>2. pl[c] \in Pools /\ hand[c] = None /\ user[c] \in Users
    <3>1. pl[c] \in Pools /\ hand[c] = None /\ stage[c] # "none"
      BY <1>5 DEF Open, Located, TypeOK, Holding, Placed
    <3> QED
      BY <3>1 DEF Located, IndInv, EntryTypes
  <2>3. open'[pl[c]] = open[pl[c]] \cup {h} /\ \A q \in Pools \ {pl[c]} : open'[q] = open[q]
    BY <2>1, <2>2 DEF Located, TypeOK
  <2>4. Connected' = Connected \cup {h}
    BY <2>2, <2>3, ConnectedByPool
  <2>5. Accounts!ConnectFor(c, h)
    BY <2>1, <2>2, <2>4 DEF Accounts!ConnectFor
  <2>6. Accounts!Assign({h}, Before[user[c]])
    BY <1>0, <2>2, <2>3, Assigned
  <2>7. Accounts!ConnectOwn(c, h)
    BY <1>0, <2>2, <2>5, <2>6 DEF Accounts!ConnectOwn
  <2> QED
    BY <2>7 DEF Accounts!AccountNext
<1>6. CASE PutHandOver(c)
  <2>1. PICK w \in Clients \ {c} :
              /\ pc[w] = "wait" /\ pl[w] = pl[c] /\ hand[w] = None
              /\ hand[c] # None /\ hand'[c] = None /\ hand'[w] = hand[c]
              /\ \A d \in Clients \ {c, w} : hand'[d] = hand[d]
    BY <1>6, HandOverReceiver DEF Located
  <2>2. pl[c] \in Pools /\ UNCHANGED open /\ \E f : hand' = [hand EXCEPT ![c] = None, ![f] = hand[c]]
    BY <1>6 DEF PutHandOver, Located, TypeOK
  <2>3. hand' = [hand EXCEPT ![c] = None, ![w] = hand[c]]
    BY <2>1, <2>2 DEF Located, TypeOK
  <2>4. Before[user[w]] = Before[user[c]]
    BY <2>1, <2>2 DEF Separated, OwnPools
  <2>5. hand[c] \in Handles /\ Account(hand[c]) = Before[user[c]]
    <3>1. hand[c] \in Handles /\ hand[c] \in Connected
      BY <2>1, HolderInPool DEF Located, Custody, Usable
    <3>2. PICK p \in Pools : hand[c] \in open[p]
      BY <3>1, ConnectedByPool
    <3>3. owner[p] = Before[user[c]]
      BY <3>2 DEF Separated, UserIsolation
    <3> QED
      BY <3>1, <3>2, <3>3, OwnersAreAccounts DEF AccountsAreOwners
  <2>6. Accounts!HandOver(c, w)
    BY <2>1, <2>2, <2>3, ZenonT(60) DEF Accounts!HandOver, Connected
  <2>7. UNCHANGED [k \in Handles |-> Account(k)]
    BY <1>0, <2>2, AccountsKept
  <2>8. Accounts!HandOverOwn(c, w)
    BY <1>0, <2>4, <2>5, <2>6, <2>7 DEF Accounts!HandOverOwn
  <2> QED
    BY <2>8 DEF Accounts!AccountNext
<1>7. CASE PutIdle(c)
  <2>1. hand[c] # None /\ hand' = [hand EXCEPT ![c] = None] /\ UNCHANGED open
    BY <1>7 DEF PutIdle, Located, TypeOK, Holding
  <2> QED
    BY <1>0, <2>1, AccountGivesBack
<1>8. CASE Close(c)
  <2>1. hand[c] # None /\ hand' = [hand EXCEPT ![c] = None]
    BY <1>8 DEF Close, Located, TypeOK, Holding
  <2>2. CASE UNCHANGED open
    BY <1>0, <2>1, <2>2, AccountGivesBack
  <2>3. CASE open' = [q \in Pools |-> open[q] \ {hand[c]}]
    <3>1. Connected' = Connected \ {hand[c]} /\ hand[c] \in Handles
      BY <2>1, <2>3, ConnectedByPool, HolderInPool DEF Located
    <3>2. Accounts!Disconnect(c)
      BY <2>1, <3>1 DEF Accounts!Disconnect
    <3>3. Accounts!Assign({hand[c]}, None)
      BY <1>0, <2>3, <3>1, Assigned
    <3>4. Accounts!DisconnectOwn(c)
      BY <1>0, <3>2, <3>3 DEF Accounts!DisconnectOwn
    <3> QED
      BY <3>4 DEF Accounts!AccountNext
  <2> QED
    BY <2>2, <2>3, <1>8 DEF Close
<1> QED
  BY <1>2, <1>3, <1>4, <1>5, <1>6, <1>7, <1>8 DEF PoolStep

\* A login that empties the pool it has replaced disconnects idle handles.
LEMMA AccountDrains ==
  ASSUME Located, Custody, Custody', NEW p \in Pools, CloseConns(p) \/ Drain(p),
         UNCHANGED handlerVars
  PROVE  [Accounts!AccountNext]_(Accounts!accountVars)
<1>0. UNCHANGED <<owner, user>>
  BY DEF handlerVars
<1>1. CASE CloseConns(p)
  BY <1>0, <1>1, AccountStutters DEF CloseConns
<1>2. CASE Drain(p)
  <2>1. PICK h \in conns[p] : open' = [q \in Pools |-> open[q] \ {h}]
    BY <1>2 DEF Drain
  <2>2. h \in Connected /\ h \in Handles /\ \A d \in Clients : hand[d] # h
    BY DEF Located, TypeOK, Custody, Exclusive, Usable
  <2>3. Connected' = Connected \ {h} /\ UNCHANGED hand
    BY <2>1, <1>2, ConnectedByPool DEF Drain
  <2>4. Accounts!DisconnectFree(h)
    BY <2>2, <2>3 DEF Accounts!DisconnectFree, Accounts!Free
  <2>5. Accounts!Assign({h}, None)
    BY <1>0, <2>1, <2>2, <2>3, Assigned
  <2>6. Accounts!DisconnectIdle(h)
    BY <1>0, <2>4, <2>5 DEF Accounts!DisconnectIdle
  <2> QED
    BY <2>2, <2>6 DEF Accounts!AccountNext
<1> QED
  BY <1>1, <1>2

LEMMA AccountStep ==
  Located /\ Custody /\ Custody' /\ Separated /\ [CacheNext]_vars =>
    [Accounts!AccountNext]_(Accounts!accountVars)
<1> SUFFICES ASSUME Located, Custody, Custody', Separated, [CacheNext]_vars
             PROVE  [Accounts!AccountNext]_(Accounts!accountVars)
  OBVIOUS
<1> USE PoolAssumption, CacheAssumption
<1>1. CASE UNCHANGED vars
  BY <1>1, AccountStutters DEF vars, poolVars, handlerVars
\* Requests that arrive, fail to authenticate, or look into the cache.
<1>2. ASSUME NEW c \in Clients, stage[c] \notin {"pool", "close", "return"}
      PROVE  hand[c] = None
  BY <1>2 DEF Located, Placed, TypeOK, Holding
<1>3. ASSUME NEW c \in Clients, hand[c] = None, UNCHANGED <<open, owner, hand>>,
             UNCHANGED user \/ user' = [user EXCEPT ![c] = None]
      PROVE  [Accounts!AccountNext]_(Accounts!accountVars)
  BY <1>3, AccountStutters, AccountServes
<1>4. ASSUME NEW c \in Clients, NEW k \in Kinds, NEW u \in Users, Arrive(c, k, u)
      PROVE  [Accounts!AccountNext]_(Accounts!accountVars)
  BY <1>2, <1>4, AccountServes DEF Arrive, At, poolVars
<1>5. ASSUME NEW c \in Clients, AuthRejects(c) \/ AuthExpires(c) \/ AuthLooksUp(c)
      PROVE  [Accounts!AccountNext]_(Accounts!accountVars)
  BY <1>2, <1>3, <1>5 DEF AuthRejects, AuthExpires, AuthLooksUp, Finish, At, poolVars
<1>6. ASSUME NEW c \in Clients, AuthCreates(c) \/ LoginReplaces(c)
      PROVE  [Accounts!AccountNext]_(Accounts!accountVars)
  <2>1. /\ hand[c] = None /\ user[c] \in Users
        /\ UNCHANGED user \/ user' = [user EXCEPT ![c] = None]
        /\ CreateFails(c) \/ \E p \in Pools : Create(c, p)
    BY <1>2, <1>6 DEF AuthCreates, LoginReplaces, CreateFails, Finish, At, Located, IndInv,
                      EntryTypes
  <2>2. CASE CreateFails(c)
    BY <1>3, <2>1, <2>2 DEF CreateFails, poolVars
  <2> QED
    BY <2>1, <2>2, AccountCreates
<1>7. ASSUME NEW c \in Clients, LoginRemembers(c) \/ LoginReleases(c) \/ LoginEnds(c)
      PROVE  [Accounts!AccountNext]_(Accounts!accountVars)
  <2>1. /\ hand[c] = None /\ UNCHANGED <<open, owner, hand>>
        /\ UNCHANGED user \/ user' = [user EXCEPT ![c] = None]
    BY <1>2, <1>7 DEF LoginRemembers, LoginReleases, LoginEnds, Release, Finish, At, poolVars
  <2> QED
    BY <1>3, <2>1
<1>8. ASSUME NEW c \in Clients, LoginDrains(c)
      PROVE  [Accounts!AccountNext]_(Accounts!accountVars)
  <2>1. old[c] \in Pools
    BY <1>8 DEF LoginDrains, At, Located, IndInv, EntryInv
  <2> QED
    BY <1>8, <2>1, AccountDrains DEF LoginDrains
<1>9. ASSUME NEW c \in Clients, GetHandle(c) \/ NodeFails(c) \/ StreamEnds(c)
      PROVE  [Accounts!AccountNext]_(Accounts!accountVars)
  BY <1>9, AccountStutters DEF GetHandle, NodeFails, StreamEnds, poolVars
<1>10. ASSUME NEW c \in Clients, GetHandleFails(c) \/ Respond(c)
       PROVE  [Accounts!AccountNext]_(Accounts!accountVars)
  <2>1. pc[c] \in {"out", "failed"}
    BY <1>10 DEF GetHandleFails, Respond, At, Located, Placed
  <2>2. hand[c] = None
    BY <2>1 DEF Located, TypeOK, Holding
  <2> QED
    BY <1>3, <1>10, <2>2 DEF GetHandleFails, Respond, Finish
\* Requests that turn to a pool with their handle, or find none and drop it.
<1>11. ASSUME NEW c \in Clients,
              OperationSucceeds(c) \/ OperationFails(c) \/ NodeCloses(c) \/ NodeMissing(c)
       PROVE  [Accounts!AccountNext]_(Accounts!accountVars)
  <2>1. /\ UNCHANGED <<open, owner, user>>
        /\ UNCHANGED hand \/ hand' = [hand EXCEPT ![c] = None]
    BY <1>11 DEF OperationSucceeds, OperationFails, NodeCloses, NodeMissing, PutHandle,
                 CloseHandle, GiveHandleTo
  <2>2. hand[c] # None
    BY <1>11 DEF OperationSucceeds, OperationFails, NodeCloses, NodeMissing, HasHandle, At,
                 Located, Placed, TypeOK, Holding
  <2> QED
    BY <2>1, <2>2, AccountStutters, AccountGivesBack
<1>12. ASSUME NEW c \in Clients, InPool(c)
       PROVE  [Accounts!AccountNext]_(Accounts!accountVars)
  BY <1>12, AccountInPool DEF InPool
<1> QED
  BY <1>1, <1>4, <1>5, <1>6, <1>7, <1>8, <1>9, <1>10, <1>11, <1>12
     DEF CacheNext, LoginStep, RequestStep

\* The handlers and their pools implement AccountLeases: through every pool it is
\* put into, every hand-over and every replacement of a pool, a connection stays
\* with the user whose credentials opened it until it is closed, and only requests
\* whose user's name begins with that user's, up to the first colon, work with it.
THEOREM CacheImplementsAccounts == CacheSpec => ImplementsAccounts
<1>1. CacheInit => Accounts!AccountInit
  BY DEF CacheInit, Init, Accounts!AccountInit, Accounts!Init, Connected, Account
<1> QED
  BY <1>1, LocatedCorrect, CustodyCorrect, SeparatedCorrect, AccountStep, PTL
     DEF CacheSpec, ImplementsAccounts, Accounts!AccountSpec

\* What the handlers and their pools promise together: a request that holds a
\* connection is the only one to hold it, the connection is open, and the
\* credentials that opened it are those of the user whose name the request's own
\* user name has before the first colon.
THEOREM HandlersKeepAccountsApart == CacheSpec => []Accounts!KeptApart
BY CacheImplementsAccounts, AccountsPromise, PTL

-----------------------------------------------------------------------------
(* How pools become orphans and connections get lost.                      *)

\* A pool does not become an orphan as long as the cache still has it and every
\* login that is to release it still is.
LEMMA OrphanKept ==
  ASSUME NEW p \in Pools, Orphan(p)',
         state'[p] = "live" => state[p] = "live",
         \A u \in Users : cache[u] = p => cache'[u] = p,
         \A c \in Clients : old[c] = p /\ stage[c] \in {"replace", "release"} =>
             old'[c] = p /\ stage'[c] \in {"replace", "release"}
  PROVE  Orphan(p)
BY DEF Orphan

\* So it does not by the step of a request that is neither, unless that takes it
\* out of the cache.
LEMMA OrphanedByEntry ==
  ASSUME Located, NEW p \in Pools, ~Orphan(p), Orphan(p)', NEW key \in Users,
         NEW c \in Clients, stage[c] \notin {"none", "replace", "release"},
         state'[p] = "live" => state[p] = "live",
         \/ UNCHANGED cache
         \/ \E e : cache' = [cache EXCEPT ![key] = e],
         \A d \in Clients \ {c} : old'[d] = old[d] /\ stage'[d] = stage[d]
  PROVE  cache[key] = p /\ cache'[key] # p
<1>1. cache \in [Users -> Pools \cup {NoEntry, Nil}]
  BY DEF Located, IndInv, EntryTypes
<1>2. PICK u \in Users : cache[u] = p /\ cache'[u] # p
  BY OrphanKept
<1>3. u = key
  BY <1>1, <1>2
<1> QED
  BY <1>2, <1>3

LEMMA OrphansStep ==
  ASSUME Located, [CacheNext]_vars, NEW p \in Pools, ~Orphan(p), Orphan(p)'
  PROVE  \E c \in Clients : Orphans(c, p)
<1> USE PoolAssumption, CacheAssumption
<1>1. CASE UNCHANGED <<state, cache, old, stage>>
  BY <1>1, OrphanKept
<1>2. ASSUME NEW c \in Clients, NEW k \in Kinds, NEW u \in Users, Arrive(c, k, u)
      PROVE  FALSE
  <2>1. /\ stage[c] = "none" /\ UNCHANGED <<state, cache, old>>
        /\ \A d \in Clients \ {c} : stage'[d] = stage[d]
    BY <1>2 DEF Arrive, At, Proceed, poolVars, Located, IndInv, EntryTypes
  <2> QED
    BY <2>1, OrphanKept
<1>3. ASSUME NEW c \in Clients, AuthRejects(c) \/ AuthExpires(c) \/ AuthLooksUp(c)
      PROVE  \E d \in Clients : Orphans(d, p)
  <2>1. /\ stage[c] = "auth" /\ UNCHANGED state /\ user[c] \in Users
        /\ UNCHANGED cache \/ \E e : cache' = [cache EXCEPT ![user[c]] = e]
        /\ \A d \in Clients \ {c} : old'[d] = old[d] /\ stage'[d] = stage[d]
    BY <1>3 DEF AuthRejects, AuthExpires, AuthLooksUp, SetEntry, Finish, Proceed, At, poolVars,
                Located, IndInv, EntryTypes
  <2>2. cache[user[c]] = p /\ cache'[user[c]] # p
    BY <2>1, OrphanedByEntry
  <2> QED
    BY <2>1, <2>2 DEF Orphans, Entry
<1>4. ASSUME NEW c \in Clients, NEW q \in Pools, Create(c, q), stage[c] # "none"
      PROVE  /\ p # q /\ state'[p] = state[p] /\ user[c] \in Users
             /\ cache'[user[c]] = q /\ cache' = [cache EXCEPT ![user[c]] = q]
  <2>1. /\ cache' = [cache EXCEPT ![user[c]] = q] /\ state' = [state EXCEPT ![q] = "live"]
        /\ user[c] \in Users /\ cache'[user[c]] = q
    BY <1>4 DEF Create, SetEntry, NewChannelPool, Located, IndInv, EntryTypes
  <2>2. p # q
    BY <2>1 DEF Orphan
  <2> QED
    BY <2>1, <2>2 DEF Located, IndInv, EntryTypes
<1>5. ASSUME NEW c \in Clients, AuthCreates(c)
      PROVE  \E d \in Clients : Orphans(d, p)
  <2>1. /\ stage[c] = "create" /\ UNCHANGED old
        /\ \A d \in Clients \ {c} : stage'[d] = stage[d]
    BY <1>5 DEF AuthCreates, CreateFails, Proceed, At, Located, IndInv, EntryTypes
  <2>2. CASE \E q \in Pools : Create(c, q)
    <3>1. /\ state'[p] = state[p] /\ user[c] \in Users
          /\ \E e : cache' = [cache EXCEPT ![user[c]] = e]
      BY <1>4, <2>1, <2>2
    <3>2. /\ state'[p] = "live" => state[p] = "live"
          /\ \A d \in Clients \ {c} : old'[d] = old[d] /\ stage'[d] = stage[d]
      BY <2>1, <3>1
    <3>3. cache[user[c]] = p /\ cache'[user[c]] # p
      BY <2>1, <3>1, <3>2, OrphanedByEntry, ZenonT(60)
    <3> QED
      BY <2>1, <3>3 DEF Orphans, Entry
  <2>3. CASE CreateFails(c)
    BY <2>1, <2>3, OrphanKept DEF CreateFails, poolVars
  <2> QED
    BY <1>5, <2>2, <2>3 DEF AuthCreates
<1>6. ASSUME NEW c \in Clients, LoginReplaces(c)
      PROVE  \E d \in Clients : Orphans(d, p)
  <2>1. /\ stage[c] = "replace"
        /\ \A d \in Clients \ {c} : old'[d] = old[d] /\ stage'[d] = stage[d]
    BY <1>6 DEF LoginReplaces, CreateFails, Finish, Proceed, At, Located, IndInv, EntryTypes
  <2>2. CASE \E q \in Pools : Create(c, q)
    <3>1. old[c] = p => old'[c] = p /\ stage'[c] = "release"
      BY <1>6, <2>1, <2>2 DEF LoginReplaces, Create, CreateFails, NewChannelPool, Proceed,
                              Located, IndInv, EntryTypes, poolVars
    <3>2. old[c] # p
      BY <3>1 DEF Orphan
    <3>3. PICK q \in Pools : /\ p # q /\ state'[p] = state[p] /\ user[c] \in Users
                             /\ cache'[user[c]] = q /\ cache' = [cache EXCEPT ![user[c]] = q]
      BY <1>4, <2>1, <2>2
    <3>4. PICK u \in Users : cache[u] = p /\ cache'[u] # p
      BY <2>1, <3>2, <3>3, OrphanKept
    <3>5. u = user[c]
      BY <3>3, <3>4 DEF Located, IndInv, EntryTypes
    <3> QED
      BY <2>1, <3>2, <3>4, <3>5 DEF Orphans, Entry
  <2>3. CASE CreateFails(c)
    <3>1. UNCHANGED <<state, cache, old>> /\ c \in panicked'
      BY <2>3 DEF CreateFails, poolVars
    <3>2. old[c] = p
      BY <2>1, <3>1, OrphanKept
    <3>3. user[c] \in Users
      BY <2>1 DEF Located, IndInv, EntryTypes
    <3>4. Entry(c) # p
      BY <3>1, <3>3 DEF Orphan, Entry
    <3> QED
      BY <2>1, <3>1, <3>2, <3>4 DEF Orphans
  <2> QED
    BY <1>6, <2>2, <2>3 DEF LoginReplaces
<1>7. ASSUME NEW c \in Clients, LoginRemembers(c) \/ LoginEnds(c)
      PROVE  FALSE
  <2>1. /\ stage[c] \in {"login", "drain"} /\ UNCHANGED <<state, cache>>
        /\ \A d \in Clients \ {c} : old'[d] = old[d] /\ stage'[d] = stage[d]
    BY <1>7 DEF LoginRemembers, LoginEnds, Finish, Proceed, At, poolVars,
                Located, IndInv, EntryTypes
  <2> QED
    BY <2>1, OrphanKept
<1>8. ASSUME NEW c \in Clients, LoginReleases(c)
      PROVE  FALSE
  <2>1. /\ UNCHANGED cache
        /\ \A d \in Clients \ {c} : old'[d] = old[d] /\ stage'[d] = stage[d]
        /\ \A q \in Pools : state'[q] = "live" => state[q] = "live" /\ q # old[c]
    BY <1>8 DEF LoginReleases, Release, Finish, Proceed, poolVars, Located, IndInv, EntryTypes
  <2>2. state'[p] = "live"
    BY DEF Orphan
  <2> QED
    BY <2>1, <2>2, OrphanKept
<1>9. ASSUME NEW c \in Clients, LoginDrains(c)
      PROVE  FALSE
  <2>1. /\ UNCHANGED <<cache, old, stage>>
        /\ \A q \in Pools : state'[q] = "live" => state[q] = "live"
    BY <1>9 DEF LoginDrains, CloseConns, Drain, handlerVars, Located, IndInv, EntryTypes
  <2> QED
    BY <2>1, OrphanKept
<1>10. ASSUME NEW c \in Clients,
              \/ GetHandle(c) \/ GetHandleFails(c) \/ Respond(c)
              \/ OperationSucceeds(c) \/ OperationFails(c) \/ NodeCloses(c) \/ NodeMissing(c)
       PROVE  FALSE
  <2>1. /\ stage[c] \notin {"replace", "release"} /\ UNCHANGED <<state, cache>>
        /\ \A d \in Clients \ {c} : old'[d] = old[d] /\ stage'[d] = stage[d]
    BY <1>10 DEF GetHandle, GetHandleFails, Respond, OperationSucceeds, OperationFails,
                 NodeCloses, NodeMissing, HasHandle, PutHandle, CloseHandle, GiveHandleTo,
                 Finish, Proceed, At, Located, IndInv, EntryTypes
  <2> QED
    BY <2>1, OrphanKept
<1>11. ASSUME NEW c \in Clients, NodeFails(c)
       PROVE  \E d \in Clients : Orphans(d, p)
  <2>1. /\ stage[c] = "pool" /\ kind[c] = "node" /\ UNCHANGED state
        /\ cache' = [cache EXCEPT ![Before[user[c]]] = Nil] /\ Before[user[c]] \in Users
        /\ \A d \in Clients \ {c} : old'[d] = old[d] /\ stage'[d] = stage[d]
    BY <1>11 DEF NodeFails, HasHandle, Proceed, At, poolVars,
                 Located, IndInv, EntryTypes
  <2>2. cache[Before[user[c]]] = p /\ cache'[Before[user[c]]] # p
    BY <2>1, OrphanedByEntry, ZenonT(60)
  <2> QED
    BY <2>1, <2>2 DEF Orphans, Found
<1>12. ASSUME NEW c \in Clients, StreamEnds(c) \/ InPool(c)
       PROVE  UNCHANGED <<state, cache, old, stage>>
  BY <1>12, PoolStepKeepsState DEF StreamEnds, InPool, handlerVars, poolVars
<1>13. CASE UNCHANGED vars
  BY <1>1, <1>13 DEF vars, poolVars, handlerVars
<1> QED
  BY <1>1, <1>2, <1>3, <1>5, <1>6, <1>7, <1>8, <1>9, <1>10, <1>11, <1>12, <1>13
     DEF CacheNext, LoginStep, RequestStep

\* A pool is orphaned in the ways that Orphans lists, and in no other: not by a
\* login that nothing interferes with, and not by a request that succeeds.
THEOREM OrphansHaveCausesCorrect == CacheSpec => OrphansHaveCauses
<1>1. Located /\ [CacheNext]_vars =>
        [\A p \in Pools : ~Orphan(p) /\ Orphan(p)' => \E c \in Clients : Orphans(c, p)]_vars
  BY OrphansStep
<1> QED
  BY <1>1, LocatedCorrect, PTL DEF CacheSpec, OrphansHaveCauses

\* A pool that has not been created has no idle connections.
NoneUnused == \A p \in Pools : state[p] = "none" => conns[p] = {}

LEMMA NoneUnusedNext == Located /\ NoneUnused /\ [CacheNext]_vars => NoneUnused'
<1> SUFFICES ASSUME Located, NoneUnused, [CacheNext]_vars PROVE NoneUnused'
  OBVIOUS
<1> USE PoolAssumption
<1>1. CASE UNCHANGED <<state, conns>>
  BY <1>1 DEF NoneUnused
<1>2. ASSUME NEW p \in Pools, NewChannelPool(p) PROVE NoneUnused'
  BY <1>2 DEF NewChannelPool, NoneUnused, Located, TypeOK
<1>3. ASSUME NEW p \in Pools, Release(p) \/ ReleaseStep(p) PROVE NoneUnused'
  BY <1>3 DEF Release, ReleaseStep, CloseConns, Drain, NoneUnused, Located, TypeOK
<1>4. ASSUME NEW c \in Clients, PoolStep(c) PROVE NoneUnused'
  <2>1. UNCHANGED state /\ \A p \in Pools : state[p] = "none" => conns'[p] \subseteq conns[p]
    <3>1. CASE PutIdle(c)
      BY <3>1 DEF PutIdle, Located, TypeOK
    <3>2. CASE Receive(c)
      BY <3>2 DEF Receive, Located, TypeOK
    <3> QED
      BY <1>4, <3>1, <3>2 DEF PoolStep, GetConns, ReceiveClosed, Miss, Enqueue, Open, OpenFails,
         WakeUp, PutReleased, PutHandOver, PutFull, Close
  <2> QED
    BY <2>1 DEF NoneUnused
<1>5. ASSUME NEW c \in Clients, ClientStep(c) \/ \E p \in Pools : CallGet(c, p) PROVE NoneUnused'
  BY <1>1, <1>5 DEF ClientStep, GiveUp, CallPut, CallClose, CallGet
<1>6. ASSUME NEW c \in Clients, HandlerMove(c) PROVE NoneUnused'
  BY <1>1, <1>6 DEF HandlerMove
<1> QED
  BY <1>1, <1>2, <1>3, <1>4, <1>5, <1>6, CacheStepOnPools DEF AnyNext, Next, poolVars

\* The step leaves h open, but takes it out of everybody's reach.
Leaks(h) == h \in Connected /\ InReach(h) /\ h \in Connected' /\ ~InReach(h)'

LEMMA LeaksInPool ==
  ASSUME Located, Custody, NEW c \in Clients, PoolStep(c), NEW h \in Handles, Leaks(h)
  PROVE  hand[c] = h /\ pc[c] \in {"close", "expired"} /\ state[pl[c]] # "live"
<1> USE PoolAssumption DEF Leaks
<1>1. CASE UNCHANGED <<conns, hand>>
  BY <1>1 DEF InReach
<1>2. CASE GetConns(c) \/ ReceiveClosed(c) \/ Miss(c) \/ Enqueue(c)
  BY <1>1, <1>2 DEF GetConns, ReceiveClosed, Miss, Enqueue
<1>3. CASE OpenFails(c) \/ WakeUp(c) \/ PutReleased(c) \/ PutFull(c)
  BY <1>1, <1>3 DEF OpenFails, WakeUp, PutReleased, PutFull
<1>4. CASE Receive(c)
  <2>1. PICK k \in conns[pl[c]] : /\ conns' = [conns EXCEPT ![pl[c]] = @ \ {k}]
                                  /\ hand' = [hand EXCEPT ![c] = k]
    BY <1>4 DEF Receive
  <2>2. pl[c] \in Pools /\ hand[c] = None
    BY <1>4 DEF Receive, Located, TypeOK, Holding
  <2>3. /\ \A q \in Pools : conns[q] \ {k} \subseteq conns'[q]
        /\ hand'[c] = k /\ \A d \in Clients \ {c} : hand'[d] = hand[d]
    BY <2>1, <2>2 DEF Located, TypeOK
  <2> QED
    BY <2>2, <2>3 DEF InReach
<1>5. CASE Open(c)
  <2>1. /\ UNCHANGED conns /\ hand[c] = None
        /\ \A d \in Clients \ {c} : hand'[d] = hand[d]
    BY <1>5 DEF Open, Located, TypeOK, Holding
  <2> QED
    BY <2>1 DEF InReach
<1>6. CASE PutHandOver(c)
  <2>1. PICK w \in Clients \ {c} :
              /\ pc[w] = "wait" /\ pl[w] = pl[c] /\ hand[w] = None
              /\ hand[c] # None /\ hand'[c] = None /\ hand'[w] = hand[c]
              /\ \A d \in Clients \ {c, w} : hand'[d] = hand[d]
    BY <1>6, HandOverReceiver DEF Located
  <2>2. UNCHANGED conns
    BY <1>6 DEF PutHandOver
  <2> QED
    BY <2>1, <2>2 DEF InReach
<1>7. CASE PutIdle(c)
  <2>1. /\ pl[c] \in Pools /\ conns'[pl[c]] = conns[pl[c]] \cup {hand[c]}
        /\ \A q \in Pools \ {pl[c]} : conns'[q] = conns[q]
        /\ \A d \in Clients \ {c} : hand'[d] = hand[d]
    BY <1>7 DEF PutIdle, Located, TypeOK
  <2> QED
    BY <2>1 DEF InReach
<1>8. CASE Close(c)
  <2>1. UNCHANGED conns /\ \A d \in Clients \ {c} : hand'[d] = hand[d]
    BY <1>8 DEF Close, Located, TypeOK
  <2>2. hand[c] = h
    BY <2>1 DEF InReach
  <2>3. CASE state[pl[c]] = "live"
    <3>1. open' = [q \in Pools |-> open[q] \ {hand[c]}]
      BY <1>8, <2>3 DEF Close
    <3> QED
      BY <2>2, <3>1, ConnectedByPool
  <2> QED
    BY <1>8, <2>2, <2>3 DEF Close
<1> QED
  BY <1>2, <1>3, <1>4, <1>5, <1>6, <1>7, <1>8 DEF PoolStep

LEMMA LeaksStep ==
  ASSUME Located, Custody, NoneUnused, [CacheNext]_vars, NEW h \in Handles, Leaks(h)
  PROVE  \E c \in Clients : /\ hand[c] = h
                            /\ \/ pc[c] \in {"close", "expired"} /\ state[pl[c]] # "live"
                               \/ pc[c] = "got" /\ Found(c) \notin Pools
<1> USE PoolAssumption DEF Leaks
<1>1. CASE UNCHANGED <<conns, hand>>
  BY <1>1 DEF InReach
<1>2. CASE UNCHANGED poolVars
  BY <1>1, <1>2 DEF poolVars
<1>3. ASSUME NEW c \in Clients,
             \/ \E k \in Kinds, u \in Users : Arrive(c, k, u)
             \/ AuthRejects(c) \/ AuthExpires(c) \/ AuthLooksUp(c)
             \/ LoginRemembers(c) \/ LoginEnds(c) \/ NodeFails(c) \/ StreamEnds(c)
      PROVE  UNCHANGED poolVars
  BY <1>3 DEF Arrive, AuthRejects, AuthExpires, AuthLooksUp, LoginRemembers, LoginEnds,
              NodeFails, StreamEnds
<1>4. ASSUME NEW c \in Clients, AuthCreates(c) \/ LoginReplaces(c) PROVE FALSE
  <2>1. CASE CreateFails(c)
    BY <1>1, <2>1 DEF CreateFails, poolVars, InReach
  <2>2. ASSUME NEW p \in Pools, Create(c, p) PROVE FALSE
    <3>1. /\ conns[p] = {} /\ UNCHANGED hand
          /\ \A q \in Pools \ {p} : conns'[q] = conns[q]
      BY <2>2 DEF Create, NewChannelPool, NoneUnused, Located, TypeOK
    <3> QED
      BY <3>1 DEF InReach
  <2> QED
    BY <1>4, <2>1, <2>2 DEF AuthCreates, LoginReplaces
<1>5. ASSUME NEW c \in Clients, LoginReleases(c) \/ GetHandle(c) \/ GetHandleFails(c) \/ Respond(c)
      PROVE  UNCHANGED <<conns, hand>>
  BY <1>5 DEF LoginReleases, Release, GetHandle, GetHandleFails, Respond, poolVars
<1>6. ASSUME NEW c \in Clients, LoginDrains(c) PROVE FALSE
  <2>1. CASE CloseConns(old[c])
    BY <2>1 DEF CloseConns, InReach
  <2>2. CASE Drain(old[c])
    <3>1. PICK k \in conns[old[c]] :
              /\ conns' = [conns EXCEPT ![old[c]] = @ \ {k}]
              /\ open' = [q \in Pools |-> open[q] \ {k}]
      BY <2>2 DEF Drain
    <3>2. UNCHANGED hand /\ \A q \in Pools : conns[q] \ {k} \subseteq conns'[q]
      BY <2>2, <3>1 DEF Drain, Located, TypeOK
    <3>3. k # h
      BY <3>1, ConnectedByPool
    <3> QED
      BY <3>2, <3>3 DEF InReach
  <2> QED
    BY <1>6, <2>1, <2>2 DEF LoginDrains
<1>7. ASSUME NEW c \in Clients,
             OperationSucceeds(c) \/ OperationFails(c) \/ NodeCloses(c) \/ NodeMissing(c)
      PROVE  hand[c] = h /\ pc[c] = "got" /\ Found(c) \notin Pools
  <2>1. /\ \E place \in {"put", "close"} : GiveHandleTo(c, place)
        /\ pc[c] = "got"
    BY <1>7 DEF OperationSucceeds, OperationFails, NodeCloses, NodeMissing, HasHandle, At,
                PutHandle, CloseHandle, Located, Placed
  <2>2. /\ UNCHANGED conns /\ \A d \in Clients \ {c} : hand'[d] = hand[d]
        /\ Found(c) \in Pools => UNCHANGED hand
    BY <2>1 DEF GiveHandleTo, Located, TypeOK
  <2> QED
    BY <2>1, <2>2 DEF InReach
<1>8. ASSUME NEW c \in Clients, InPool(c)
      PROVE  hand[c] = h /\ pc[c] \in {"close", "expired"} /\ state[pl[c]] # "live"
  BY <1>8, LeaksInPool DEF InPool
<1>9. CASE UNCHANGED vars
  BY <1>2, <1>9 DEF vars
<1> QED
  BY <1>1, <1>2, <1>3, <1>4, <1>5, <1>6, <1>7, <1>8, <1>9 DEF CacheNext, LoginStep, RequestStep

\* A connection is lost, open but within nobody's reach, only where the code
\* gives up: closed through a pool that has been released, or to be returned when
\* the user's pool is gone.  Everything else that the handlers and the pools do,
\* the release of a pool in use included, keeps every connection within reach.
THEOREM LeaksHaveCausesCorrect == CacheSpec => LeaksHaveCauses
<1>1. CacheInit => NoneUnused
  BY DEF CacheInit, Init, NoneUnused
<1>2. Located /\ Custody /\ NoneUnused /\ [CacheNext]_vars =>
        [ \A h \in Handles :
            h \in Connected /\ InReach(h) /\ h \in Connected' /\ ~InReach(h)' =>
              \E c \in Clients : /\ hand[c] = h
                                /\ \/ pc[c] \in {"close", "expired"} /\ state[pl[c]] # "live"
                                   \/ pc[c] = "got" /\ Found(c) \notin Pools ]_vars
  BY LeaksStep DEF Leaks
<1> QED
  BY <1>1, <1>2, LocatedCorrect, CustodyCorrect, NoneUnusedNext, PTL
     DEF CacheSpec, LeaksHaveCauses

-----------------------------------------------------------------------------
(* Pools that have been released.                                          *)

LEMMA CacheShrinks ==
  ASSUME Located, [CacheNext]_vars, NEW p \in Pools, state[p] \in {"released", "closed"}
  PROVE  Shrinks(p)
<1>1. CASE [AnyNext]_poolVars
  BY <1>1, ReleasedShrinks DEF Located
<1>2. CASE \E c \in Clients : HandlerMove(c)
  BY <1>2 DEF HandlerMove, Shrinks
<1> QED
  BY <1>1, <1>2, CacheStepOnPools

LEMMA CacheStaysParked ==
  ASSUME Located, [CacheNext]_vars, NEW c \in Clients, pc[c] = "wait",
         state[pl[c]] \in {"released", "closed"}
  PROVE  StaysParked(c)
<1>1. CASE [AnyNext]_poolVars
  BY <1>1, OnlyHandOverWakes DEF Located
<1>2. ASSUME NEW d \in Clients, HandlerMove(d) PROVE StaysParked(c)
  <2>1. /\ \E place : pc' = [pc EXCEPT ![d] = place]
        /\ \E p : pl' = [pl EXCEPT ![d] = p]
        /\ d # c
    BY <1>2 DEF HandlerMove
  <2> QED
    BY <2>1 DEF StaysParked, Located, TypeOK
<1> QED
  BY <1>1, <1>2, CacheStepOnPools

\* The handlers do not revive a pool that a login has released: requests that
\* still hold its connections, or find them through a pool looked up before the
\* login, only empty it.
THEOREM CacheReleasedOnlyShrinks == CacheSpec => ReleasedOnlyShrinks
<1>1. Located /\ [CacheNext]_vars =>
        [ \A p \in Pools : state[p] \in {"released", "closed"} =>
            /\ state'[p] = "closed" \/ state'[p] = state[p]
            /\ conns'[p] \subseteq conns[p]
            /\ open'[p] \subseteq open[p] ]_poolVars
  BY CacheShrinks DEF Shrinks
<1> QED
  BY <1>1, LocatedCorrect, PTL DEF CacheSpec, ReleasedOnlyShrinks

\* A request that waits for a connection of the pool that a login replaces never
\* gets an answer.
THEOREM CacheStrandedForGood == CacheSpec => StrandedForGood
<1>1. ASSUME Located, [CacheNext]_vars, NEW c \in Clients, pc[c] = "wait",
             state[pl[c]] \in {"released", "closed"}
      PROVE  pc'[c] = "wait" /\ pl'[c] = pl[c] /\ state'[pl[c]] \in {"released", "closed"}
  <2>1. pl[c] \in Pools
    BY <1>1 DEF Located, TypeOK
  <2> QED
    BY <1>1, <2>1, CacheStaysParked, CacheShrinks DEF StaysParked, Shrinks
<1>2. Located /\ [CacheNext]_vars =>
        [ \A c \in Clients : pc[c] = "wait" /\ state[pl[c]] \in {"released", "closed"} =>
            /\ pc'[c] = "wait"
            /\ pl'[c] = pl[c]
            /\ state'[pl[c]] \in {"released", "closed"} ]_poolVars
  BY <1>1
<1> QED
  BY <1>2, LocatedCorrect, PTL DEF CacheSpec, StrandedForGood
=============================================================================
