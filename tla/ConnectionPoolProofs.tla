------------------------ MODULE ConnectionPoolProofs ------------------------
(***************************************************************************)
(* What TLAPS proves of ConnectionPool, for any number of clients, pools   *)
(* and connections, any pool size and any set of faults.                   *)
(***************************************************************************)
EXTENDS ConnectionPool, TLAPS, FiniteSetTheorems, SequenceTheorems

\* The steps that the invariants below are proved for: those of Next, and the
\* release of a pool in use whether "release" is among the faults or not.
\* HandleCache takes them too, with logins that release pools.
AnyNext == Next \/ \E p \in Pools : Release(p)

LEMMA NextIsAny == [Next]_poolVars => [AnyNext]_poolVars
BY DEF AnyNext

-----------------------------------------------------------------------------
(* Types.                                                                  *)

\* Every variable keeps its type, and a client holds a connection exactly at
\* the places of Get, Put and Close at which the code has one.
LEMMA TypeNext == TypeOK /\ QueueIsExact /\ [AnyNext]_poolVars => TypeOK'
<1> SUFFICES ASSUME TypeOK, QueueIsExact, [AnyNext]_poolVars PROVE TypeOK'
  OBVIOUS
<1> USE PoolAssumption
<1>1. CASE UNCHANGED poolVars
  BY <1>1 DEF TypeOK, poolVars
<1>2. ASSUME NEW p \in Pools, NewChannelPool(p) PROVE TypeOK'
  BY <1>2, SMTT(30) DEF TypeOK, NewChannelPool, States
<1>3. ASSUME NEW p \in Pools, Release(p) PROVE TypeOK'
  BY <1>3 DEF TypeOK, Release, States
<1>4. ASSUME NEW p \in Pools, CloseConns(p) PROVE TypeOK'
  BY <1>4 DEF TypeOK, CloseConns, States
<1>5. ASSUME NEW p \in Pools, Drain(p) PROVE TypeOK'
  BY <1>5 DEF TypeOK, Drain
<1>6. ASSUME NEW c \in Clients, NEW p \in Pools, CallGet(c, p) PROVE TypeOK'
  BY <1>6 DEF TypeOK, CallGet, Goto, Places, Holding
<1>7. ASSUME NEW c \in Clients, GetConns(c) PROVE TypeOK'
  BY <1>7 DEF TypeOK, GetConns, Goto, Places, Holding
<1>8. ASSUME NEW c \in Clients, Receive(c) PROVE TypeOK'
  <2>1. PICK h \in conns[pl[c]] :
              /\ conns' = [conns EXCEPT ![pl[c]] = @ \ {h}]
              /\ hand' = [hand EXCEPT ![c] = h]
    BY <1>8 DEF Receive
  <2>2. pl[c] \in Pools /\ h \in Handles
    BY <1>8 DEF TypeOK, Receive
  <2>3. PICK place \in {"got", "expired"} : pc' = [pc EXCEPT ![c] = place]
    BY <1>8 DEF Receive, Goto
  <2>4. UNCHANGED <<state, openingConns, connReqs, open, pl>>
    BY <1>8 DEF Receive
  <2> QED
    BY <2>1, <2>2, <2>3, <2>4, <1>8 DEF TypeOK, Places, Holding, Receive
<1>9. ASSUME NEW c \in Clients, ReceiveClosed(c) PROVE TypeOK'
  BY <1>9 DEF TypeOK, ReceiveClosed, Goto, Places, Holding
<1>10. ASSUME NEW c \in Clients, Miss(c) PROVE TypeOK'
  BY <1>10 DEF TypeOK, Miss, Goto, Places, Holding
<1>11. ASSUME NEW c \in Clients, Enqueue(c) PROVE TypeOK'
  BY <1>11 DEF TypeOK, Enqueue, Goto, Places, Holding
<1>12. ASSUME NEW c \in Clients, Open(c) PROVE TypeOK'
  BY <1>12 DEF TypeOK, Open, Goto, Places, Holding
<1>13. ASSUME NEW c \in Clients, OpenFails(c) PROVE TypeOK'
  BY <1>13 DEF TypeOK, OpenFails, Goto, Places, Holding
<1>14. ASSUME NEW c \in Clients, WakeUp(c) PROVE TypeOK'
  BY <1>14 DEF TypeOK, WakeUp, Goto, Places, Holding
<1>15. ASSUME NEW c \in Clients, PutReleased(c) PROVE TypeOK'
  BY <1>15 DEF TypeOK, PutReleased, Goto, Places, Holding
<1>16. ASSUME NEW c \in Clients, PutHandOver(c) PROVE TypeOK'
  <2> DEFINE w == Head(connReqs[pl[c]])
  <2>1. pl[c] \in Pools /\ connReqs[pl[c]] \in Seq(Clients) /\ connReqs[pl[c]] # <<>>
    BY <1>16 DEF TypeOK, PutHandOver
  <2>2. w \in Clients /\ Tail(connReqs[pl[c]]) \in Seq(Clients)
    BY <2>1, HeadTailProperties
  <2>3. hand[c] \in Handles /\ pl[w] \in Pools
    <3>1. connReqs[pl[c]][1] = w /\ 1 \in DOMAIN connReqs[pl[c]]
      BY <2>1
    <3>2. pc[w] = "wait"
      BY <3>1, <2>1, <2>2 DEF QueueIsExact
    <3> HIDE DEF w
    <3> QED
      BY <3>2, <2>2, <1>16 DEF TypeOK, PutHandOver, Holding
  <2>4. /\ hand' = [hand EXCEPT ![c] = None, ![w] = hand[c]]
        /\ pc' = [pc EXCEPT ![c] = "out", ![w] = "handed"]
        /\ connReqs' = [connReqs EXCEPT ![pl[c]] = Tail(@)]
        /\ UNCHANGED <<state, conns, openingConns, open, pl>>
    BY <1>16 DEF PutHandOver
  <2> HIDE DEF w
  <2> QED
    BY <2>1, <2>2, <2>3, <2>4 DEF TypeOK, Places, Holding
<1>17. ASSUME NEW c \in Clients, PutIdle(c) PROVE TypeOK'
  BY <1>17 DEF TypeOK, PutIdle, Goto, Places, Holding
<1>18. ASSUME NEW c \in Clients, PutFull(c) PROVE TypeOK'
  BY <1>18 DEF TypeOK, PutFull, Goto, Places, Holding
<1>19. ASSUME NEW c \in Clients, Close(c) PROVE TypeOK'
  BY <1>19 DEF TypeOK, Close, Goto, Places, Holding
<1>20. ASSUME NEW c \in Clients, GiveUp(c) PROVE TypeOK'
  BY <1>20 DEF TypeOK, GiveUp, Goto, Places, Holding
<1>21. ASSUME NEW c \in Clients, CallPut(c) PROVE TypeOK'
  BY <1>21 DEF TypeOK, CallPut, Goto, Places, Holding
<1>22. ASSUME NEW c \in Clients, CallClose(c) PROVE TypeOK'
  BY <1>22 DEF TypeOK, CallClose, Goto, Places, Holding
<1> QED
  BY <1>1, <1>2, <1>3, <1>4, <1>5, <1>6, <1>7, <1>8, <1>9, <1>10, <1>11, <1>12,
     <1>13, <1>14, <1>15, <1>16, <1>17, <1>18, <1>19, <1>20, <1>21, <1>22
     DEF AnyNext, Next, PoolStep, ClientStep, ReleaseStep

-----------------------------------------------------------------------------
(* The queue of parked clients.                                            *)

\* What each action does to the queue and to the places that matter to it.
LEMMA QueueKept ==
  ASSUME TypeOK, QueueIsExact, UNCHANGED connReqs,
         \A c \in Clients : /\ (pc'[c] = "wait") <=> (pc[c] = "wait")
                            /\ pc[c] = "wait" => pl'[c] = pl[c]
  PROVE  QueueIsExact'
BY DEF QueueIsExact

LEMMA QueueNext == TypeOK /\ QueueIsExact /\ [AnyNext]_poolVars => QueueIsExact'
<1> SUFFICES ASSUME TypeOK, QueueIsExact, [AnyNext]_poolVars PROVE QueueIsExact'
  OBVIOUS
<1>1. CASE UNCHANGED poolVars
  BY <1>1, QueueKept DEF poolVars
<1>2. ASSUME NEW p \in Pools, NewChannelPool(p) \/ Release(p) \/ ReleaseStep(p)
      PROVE  QueueIsExact'
  BY <1>2, QueueKept DEF NewChannelPool, Release, ReleaseStep, CloseConns, Drain
<1>3. ASSUME NEW c \in Clients, NEW p \in Pools, CallGet(c, p) PROVE QueueIsExact'
  BY <1>3, QueueKept DEF TypeOK, CallGet, Goto
<1>4. ASSUME NEW c \in Clients, ClientStep(c) PROVE QueueIsExact'
  BY <1>4, QueueKept DEF TypeOK, ClientStep, GiveUp, CallPut, CallClose, Goto
<1>5. ASSUME NEW c \in Clients, GetConns(c) \/ Receive(c) \/ ReceiveClosed(c) \/ Miss(c)
      PROVE  QueueIsExact'
  BY <1>5, QueueKept DEF TypeOK, GetConns, Receive, ReceiveClosed, Miss, Goto
<1>6. ASSUME NEW c \in Clients, Open(c) \/ OpenFails(c) \/ WakeUp(c)
      PROVE  QueueIsExact'
  BY <1>6, QueueKept DEF TypeOK, Open, OpenFails, WakeUp, Goto
<1>7. ASSUME NEW c \in Clients, PutReleased(c) \/ PutIdle(c) \/ PutFull(c) \/ Close(c)
      PROVE  QueueIsExact'
  BY <1>7, QueueKept DEF TypeOK, PutReleased, PutIdle, PutFull, Close, Goto
<1>8. ASSUME NEW c \in Clients, Enqueue(c) PROVE QueueIsExact'
  <2> DEFINE p == pl[c]
             q == connReqs[p]
  <2>1. p \in Pools /\ q \in Seq(Clients) /\ pc[c] = "miss"
    BY <1>8 DEF Enqueue, TypeOK
  <2>2. /\ connReqs' = [connReqs EXCEPT ![p] = Append(q, c)]
        /\ pc' = [pc EXCEPT ![c] = "wait"]
        /\ pl' = pl
    BY <1>8 DEF Enqueue, Goto
  <2>3. /\ Len(Append(q, c)) = Len(q) + 1
        /\ \A i \in 1 .. Len(q) : Append(q, c)[i] = q[i]
        /\ Append(q, c)[Len(q) + 1] = c
        /\ Len(q) \in Nat /\ DOMAIN q = 1 .. Len(q)
        /\ DOMAIN Append(q, c) = 1 .. Len(q) + 1
    BY <2>1, AppendProperties
  <2>4. \A i \in DOMAIN q : q[i] # c
    BY <2>1 DEF QueueIsExact
  <2>5. connReqs'[p] = Append(q, c) /\ \A r \in Pools \ {p} : connReqs'[r] = connReqs[r]
    BY <2>1, <2>2 DEF TypeOK
  <2>6. pc'[c] = "wait" /\ \A d \in Clients \ {c} : pc'[d] = pc[d]
    BY <2>2 DEF TypeOK
  <2>7. \A i, j \in DOMAIN connReqs'[p] : connReqs'[p][i] = connReqs'[p][j] => i = j
    BY <2>1, <2>3, <2>4, <2>5 DEF QueueIsExact
  <2>8. \A d \in Clients :
          (pc'[d] = "wait" /\ pl'[d] = p) <=> \E i \in DOMAIN connReqs'[p] : connReqs'[p][i] = d
    <3> TAKE d \in Clients
    <3>1. (pc[d] = "wait" /\ pl[d] = p) <=> \E i \in DOMAIN q : q[i] = d
      BY <2>1 DEF QueueIsExact
    <3>2. CASE d = c
      BY <3>2, <2>2, <2>3, <2>5, <2>6
    <3>3. CASE d # c
      <4>1. (\E i \in DOMAIN q : q[i] = d) <=> \E i \in DOMAIN Append(q, c) : Append(q, c)[i] = d
        BY <3>3, <2>3
      <4> QED
        BY <4>1, <3>1, <3>3, <2>2, <2>5, <2>6
    <3> QED
      BY <3>2, <3>3
  <2>9. \A r \in Pools \ {p}, d \in Clients :
          (pc'[d] = "wait" /\ pl'[d] = r) <=> (pc[d] = "wait" /\ pl[d] = r)
    BY <2>1, <2>2, <2>6
  <2> HIDE DEF p
  <2> SUFFICES ASSUME NEW r \in Pools
               PROVE  /\ \A i, j \in DOMAIN connReqs'[r] : connReqs'[r][i] = connReqs'[r][j] => i = j
                      /\ \A d \in Clients : (pc'[d] = "wait" /\ pl'[d] = r)
                                             <=> \E i \in DOMAIN connReqs'[r] : connReqs'[r][i] = d
    BY DEF QueueIsExact
  <2>20. CASE r = p
    BY <2>20, <2>7, <2>8
  <2>21. CASE r # p
    <3>1. connReqs'[r] = connReqs[r]
      BY <2>21, <2>5
    <3>2. /\ \A i, j \in DOMAIN connReqs[r] : connReqs[r][i] = connReqs[r][j] => i = j
          /\ \A d \in Clients : (pc[d] = "wait" /\ pl[d] = r)
                                 <=> \E i \in DOMAIN connReqs[r] : connReqs[r][i] = d
      BY DEF QueueIsExact
    <3> QED
      BY <2>21, <3>1, <3>2, <2>9
  <2> QED
    BY <2>20, <2>21
<1>9. ASSUME NEW c \in Clients, PutHandOver(c) PROVE QueueIsExact'
  <2> DEFINE p == pl[c]
             q == connReqs[p]
             w == Head(q)
  <2>1. p \in Pools /\ q \in Seq(Clients) /\ q # <<>> /\ pc[c] = "put"
    BY <1>9 DEF PutHandOver, TypeOK
  <2>2. /\ connReqs' = [connReqs EXCEPT ![p] = Tail(q)]
        /\ pc' = [pc EXCEPT ![c] = "out", ![w] = "handed"]
        /\ pl' = pl
    BY <1>9 DEF PutHandOver
  <2>3. /\ w = q[1] /\ w \in Clients
        /\ Len(q) \in Nat \ {0} /\ DOMAIN q = 1 .. Len(q)
        /\ DOMAIN Tail(q) = 1 .. Len(q) - 1
        /\ \A i \in 1 .. Len(q) - 1 : Tail(q)[i] = q[i + 1]
    BY <2>1, HeadTailProperties
  <2>4. pc[w] = "wait" /\ pl[w] = p /\ w # c
    BY <2>1, <2>3 DEF QueueIsExact
  <2>5. connReqs'[p] = Tail(q) /\ \A r \in Pools \ {p} : connReqs'[r] = connReqs[r]
    BY <2>1, <2>2 DEF TypeOK
  <2>6. \A d \in Clients : (pc'[d] = "wait") <=> (pc[d] = "wait" /\ d # w)
    BY <2>1, <2>2, <2>3, <2>4 DEF TypeOK
  <2>7. \A i, j \in DOMAIN q : q[i] = q[j] => i = j
    BY <2>1 DEF QueueIsExact
  <2>8. \A i, j \in DOMAIN connReqs'[p] : connReqs'[p][i] = connReqs'[p][j] => i = j
    <3>1. ASSUME NEW i \in 1 .. Len(q) - 1, NEW j \in 1 .. Len(q) - 1, q[i + 1] = q[j + 1]
          PROVE  i = j
      <4>1. i + 1 \in DOMAIN q /\ j + 1 \in DOMAIN q
        BY <2>3
      <4>2. i + 1 = j + 1
        BY <2>7, <3>1, <4>1
      <4> QED
        BY <2>3, <4>2
    <3> QED
      BY <2>3, <2>5, <3>1
  <2>9. \A d \in Clients :
          (pc'[d] = "wait" /\ pl'[d] = p) <=> \E i \in DOMAIN connReqs'[p] : connReqs'[p][i] = d
    <3> TAKE d \in Clients
    <3>1. (pc[d] = "wait" /\ pl[d] = p) <=> \E i \in DOMAIN q : q[i] = d
      BY <2>1 DEF QueueIsExact
    <3>2. (\E i \in DOMAIN q : q[i] = d /\ d # w) <=> \E i \in DOMAIN Tail(q) : Tail(q)[i] = d
      <4>1. ASSUME NEW i \in DOMAIN q, q[i] = d, d # w
            PROVE  \E j \in DOMAIN Tail(q) : Tail(q)[j] = d
        <5>1. i # 1
          BY <4>1, <2>3
        <5>2. i - 1 \in DOMAIN Tail(q)
          BY <4>1, <5>1, <2>3
        <5>3. Tail(q)[i - 1] = q[i]
          BY <4>1, <5>1, <5>2, <2>3
        <5> QED
          BY <5>2, <5>3, <4>1
      <4>2. ASSUME NEW j \in DOMAIN Tail(q), Tail(q)[j] = d
            PROVE  \E i \in DOMAIN q : q[i] = d /\ d # w
        <5>1. j + 1 \in DOMAIN q /\ q[j + 1] = d /\ j + 1 # 1 /\ 1 \in DOMAIN q
          BY <4>2, <2>3
        <5> QED
          BY <5>1, <2>3, <2>7
      <4> QED
        BY <4>1, <4>2
    <3> QED
      BY <3>1, <3>2, <2>2, <2>5, <2>6
  <2>10. \A r \in Pools \ {p}, d \in Clients :
           (pc'[d] = "wait" /\ pl'[d] = r) <=> (pc[d] = "wait" /\ pl[d] = r)
    BY <2>2, <2>4, <2>6
  <2> HIDE DEF p, q, w
  <2> SUFFICES ASSUME NEW r \in Pools
               PROVE  /\ \A i, j \in DOMAIN connReqs'[r] : connReqs'[r][i] = connReqs'[r][j] => i = j
                      /\ \A d \in Clients : (pc'[d] = "wait" /\ pl'[d] = r)
                                             <=> \E i \in DOMAIN connReqs'[r] : connReqs'[r][i] = d
    BY DEF QueueIsExact
  <2>20. CASE r = p
    BY <2>20, <2>8, <2>9
  <2>21. CASE r # p
    <3>1. connReqs'[r] = connReqs[r]
      BY <2>21, <2>5
    <3>2. /\ \A i, j \in DOMAIN connReqs[r] : connReqs[r][i] = connReqs[r][j] => i = j
          /\ \A d \in Clients : (pc[d] = "wait" /\ pl[d] = r)
                                 <=> \E i \in DOMAIN connReqs[r] : connReqs[r][i] = d
      BY DEF QueueIsExact
    <3> QED
      BY <2>21, <3>1, <3>2, <2>10
  <2> QED
    BY <2>20, <2>21
<1> QED
  BY <1>1, <1>2, <1>3, <1>4, <1>5, <1>6, <1>7, <1>8, <1>9
     DEF AnyNext, Next, PoolStep, ClientStep, ReleaseStep

\* Type correctness of the pool, together with the exactness of its queue: the
\* two are inductive only together, because a hand-over moves the client at the
\* head of the queue.
LEMMA TypeAndQueue == Spec => [](TypeOK /\ QueueIsExact)
<1>1. Init => TypeOK /\ QueueIsExact
  BY PoolAssumption DEF Init, TypeOK, QueueIsExact, States, Places, Holding
<1> QED
  BY <1>1, TypeNext, QueueNext, NextIsAny, PTL DEF Spec

\* Type correctness.
THEOREM TypeCorrect == Spec => []TypeOK
BY TypeAndQueue, PTL

\* The queue of a pool holds exactly the clients parked in Get on it.
THEOREM QueueCorrect == Spec => []QueueIsExact
BY TypeAndQueue, PTL

-----------------------------------------------------------------------------
(* Ownership.                                                              *)

\* Exclusive and Usable are not inductive: a connection stays usable because
\* only the pool that opened it, or its holder, closes it.  So the invariant
\* adds that pools own disjoint sets of connections, that what is idle in a
\* pool is its own, and that a client holds a connection of the pool it is
\* calling.
Ownership ==
    /\ Exclusive
    /\ \A p \in Pools : conns[p] \subseteq open[p]
    /\ \A c \in Clients : hand[c] # None => hand[c] \in open[pl[c]]
    /\ \A p, q \in Pools : p # q => open[p] \cap open[q] = {}
    /\ \A p \in Pools : state[p] = "none" => open[p] = {}

\* The weaker part of it that does not say which pool a connection is of: it
\* stays true where a connection may be put into another pool than its own.
Custody ==
    /\ Exclusive
    /\ Usable
    /\ \A p, q \in Pools : p # q => open[p] \cap open[q] = {}
    /\ \A p \in Pools : state[p] = "none" => open[p] = {}

\* Facts about types that the steps below share.
LEMMA HolderInPool ==
  ASSUME TypeOK
  PROVE  /\ \A c \in Clients : hand[c] # None => pl[c] \in Pools /\ hand[c] \in Handles
         /\ \A p \in Pools : None \notin conns[p] /\ None \notin open[p]
BY PoolAssumption DEF TypeOK, Holding

\* Most steps move no connection.
LEMMA OwnershipKept ==
  ASSUME TypeOK, Ownership, UNCHANGED <<conns, open, hand>>,
         \A p \in Pools : state'[p] = "none" => state[p] = "none",
         \A c \in Clients : hand[c] # None => pl'[c] = pl[c]
  PROVE  Ownership'
BY DEF Ownership, Exclusive

LEMMA OwnershipNext ==
  TypeOK /\ QueueIsExact /\ Ownership /\ [Next]_poolVars => Ownership'
<1> SUFFICES ASSUME TypeOK, QueueIsExact, Ownership, [Next]_poolVars PROVE Ownership'
  OBVIOUS
<1> USE PoolAssumption
<1>1. CASE UNCHANGED poolVars
  BY <1>1, OwnershipKept DEF poolVars
<1>2. ASSUME NEW p \in Pools, Release(p) \/ CloseConns(p) PROVE Ownership'
  BY <1>2, OwnershipKept DEF TypeOK, Release, CloseConns
<1>3. ASSUME NEW c \in Clients, NEW p \in Pools, CallGet(c, p) PROVE Ownership'
  BY <1>3, OwnershipKept DEF TypeOK, CallGet, Holding
<1>4. ASSUME NEW c \in Clients, ClientStep(c) PROVE Ownership'
  BY <1>4, OwnershipKept DEF ClientStep, GiveUp, CallPut, CallClose
<1>5. ASSUME NEW c \in Clients, GetConns(c) \/ ReceiveClosed(c) \/ Miss(c) \/ Enqueue(c)
      PROVE  Ownership'
  BY <1>5, OwnershipKept DEF GetConns, ReceiveClosed, Miss, Enqueue
<1>6. ASSUME NEW c \in Clients, OpenFails(c) \/ WakeUp(c) \/ PutReleased(c) \/ PutFull(c)
      PROVE  Ownership'
  BY <1>6, OwnershipKept DEF OpenFails, WakeUp, PutReleased, PutFull
<1>7. ASSUME NEW p \in Pools, NewChannelPool(p) PROVE Ownership'
  <2>1. PICK S \in SUBSET (Handles \ Connected) :
              /\ conns' = [conns EXCEPT ![p] = S]
              /\ open' = [open EXCEPT ![p] = S]
    BY <1>7 DEF NewChannelPool
  <2>2. /\ \A q \in Pools : S \cap open[q] = {}
        /\ \A q \in Pools : S \cap conns[q] = {}
        /\ \A c \in Clients : hand[c] \notin S
        /\ open[p] = {}
    <3>1. \A q \in Pools : S \cap open[q] = {}
      BY DEF Connected
    <3>2. \A c \in Clients : hand[c] # None => pl[c] \in Pools
      BY DEF TypeOK, Holding
    <3> QED
      BY <3>1, <3>2, <1>7 DEF Ownership, NewChannelPool
  <2>3. /\ conns'[p] = S /\ open'[p] = S
        /\ \A q \in Pools \ {p} : conns'[q] = conns[q] /\ open'[q] = open[q]
        /\ UNCHANGED <<pl, hand>>
        /\ state'[p] = "live" /\ \A q \in Pools \ {p} : state'[q] = state[q]
    BY <2>1, <1>7 DEF TypeOK, NewChannelPool
  <2>4. \A c \in Clients : hand[c] # None => hand[c] \in open'[pl[c]]
    BY <2>2, <2>3, HolderInPool DEF Ownership
  <2> QED
    BY <2>2, <2>3, <2>4 DEF Ownership, Exclusive
<1>8. ASSUME NEW p \in Pools, Drain(p) PROVE Ownership'
  <2>1. PICK h \in conns[p] :
              /\ conns' = [conns EXCEPT ![p] = @ \ {h}]
              /\ open' = [q \in Pools |-> open[q] \ {h}]
    BY <1>8 DEF Drain
  <2>2. /\ UNCHANGED <<state, pl, hand>>
        /\ \A c \in Clients : hand[c] # h
        /\ \A q \in Pools \ {p} : h \notin conns[q]
    BY <1>8 DEF Drain, Ownership, Exclusive
  <2>3. /\ conns'[p] = conns[p] \ {h} /\ \A q \in Pools \ {p} : conns'[q] = conns[q]
        /\ \A q \in Pools : open'[q] = open[q] \ {h}
    BY <2>1 DEF TypeOK
  <2>4. \A c \in Clients : hand[c] # None => hand[c] \in open'[pl[c]]
    BY <2>2, <2>3, HolderInPool DEF Ownership
  <2> QED
    BY <2>2, <2>3, <2>4 DEF Ownership, Exclusive
<1>9. ASSUME NEW c \in Clients, Receive(c) PROVE Ownership'
  <2> DEFINE p == pl[c]
  <2>1. PICK h \in conns[p] :
              /\ conns' = [conns EXCEPT ![p] = @ \ {h}]
              /\ hand' = [hand EXCEPT ![c] = h]
    BY <1>9 DEF Receive
  <2>2. p \in Pools /\ hand[c] = None /\ UNCHANGED <<state, open, pl>>
    BY <1>9 DEF TypeOK, Receive, Holding
  <2>3. /\ conns'[p] = conns[p] \ {h} /\ \A q \in Pools \ {p} : conns'[q] = conns[q]
        /\ hand'[c] = h /\ \A d \in Clients \ {c} : hand'[d] = hand[d]
        /\ h \in open[p] /\ \A d \in Clients : hand[d] # h
        /\ \A q \in Pools \ {p} : h \notin conns[q]
    BY <2>1, <2>2 DEF TypeOK, Ownership, Exclusive
  <2>4. Exclusive'
    BY <2>2, <2>3 DEF Ownership, Exclusive
  <2> HIDE DEF p
  <2>5. /\ \A q \in Pools : conns'[q] \subseteq open'[q]
        /\ \A d \in Clients : hand'[d] # None => hand'[d] \in open'[pl'[d]]
    BY <2>2, <2>3 DEF Ownership, p
  <2> QED
    BY <2>2, <2>4, <2>5 DEF Ownership
<1>10. ASSUME NEW c \in Clients, Open(c) PROVE Ownership'
  <2> DEFINE p == pl[c]
  <2>1. PICK h \in Handles \ Connected :
              /\ open' = [open EXCEPT ![p] = @ \cup {h}]
              /\ hand' = [hand EXCEPT ![c] = h]
    BY <1>10 DEF Open
  <2>2. p \in Pools /\ hand[c] = None /\ state[p] = "live" /\ UNCHANGED <<state, conns, pl>>
    BY <1>10 DEF TypeOK, Open, Holding
  <2>3. /\ \A q \in Pools : h \notin open[q] /\ h \notin conns[q]
        /\ \A d \in Clients : hand[d] # h
    <3>1. \A q \in Pools : h \notin open[q]
      BY DEF Connected
    <3> QED
      BY <3>1, HolderInPool DEF Ownership
  <2>4. /\ open'[p] = open[p] \cup {h} /\ \A q \in Pools \ {p} : open'[q] = open[q]
        /\ hand'[c] = h /\ \A d \in Clients \ {c} : hand'[d] = hand[d]
    BY <2>1, <2>2 DEF TypeOK
  <2>5. Exclusive'
    BY <2>2, <2>3, <2>4 DEF Ownership, Exclusive
  <2>6. \A d \in Clients : hand'[d] # None => hand'[d] \in open'[pl'[d]]
    BY <2>2, <2>4, HolderInPool DEF Ownership
  <2> QED
    BY <2>2, <2>3, <2>4, <2>5, <2>6 DEF Ownership
<1>11. ASSUME NEW c \in Clients, PutHandOver(c) PROVE Ownership'
  <2> DEFINE w == Head(connReqs[pl[c]])
  <2>1. w \in Clients /\ pc[w] = "wait" /\ pl[w] = pl[c] /\ pl[c] \in Pools
    <3>1. pl[c] \in Pools /\ connReqs[pl[c]] \in Seq(Clients) /\ connReqs[pl[c]] # <<>>
      BY <1>11 DEF PutHandOver, TypeOK
    <3>2. w = connReqs[pl[c]][1] /\ w \in Clients /\ 1 \in DOMAIN connReqs[pl[c]]
      BY <3>1, HeadTailProperties
    <3> QED
      BY <3>1, <3>2 DEF QueueIsExact
  <2>2. /\ hand' = [hand EXCEPT ![c] = None, ![w] = hand[c]]
        /\ UNCHANGED <<state, conns, open, pl>>
    BY <1>11 DEF PutHandOver
  <2>3. hand[w] = None /\ hand[c] # None /\ w # c
    BY <2>1, <1>11 DEF PutHandOver, TypeOK, Holding
  <2> HIDE DEF w
  <2>4. /\ hand'[c] = None /\ hand'[w] = hand[c]
        /\ \A d \in Clients \ {c, w} : hand'[d] = hand[d]
    BY <2>1, <2>2, <2>3 DEF TypeOK
  <2>5. Exclusive'
    <3>1. \A d, e \in Clients : hand'[d] = hand'[e] /\ hand'[d] # None => d = e
      BY <2>3, <2>4 DEF Ownership, Exclusive
    <3>2. \A d \in Clients, q \in Pools : hand'[d] \notin conns'[q]
      <4>1. \A d \in Clients : hand'[d] = None \/ \E e \in Clients : hand'[d] = hand[e]
        BY <2>4
      <4> QED
        <5>1. conns' = conns /\ \A q \in Pools : None \notin conns[q]
          BY <2>2, HolderInPool
        <5>2. \A e \in Clients, q \in Pools : hand[e] \notin conns[q]
          BY DEF Ownership, Exclusive
        <5> QED
          BY <4>1, <5>1, <5>2
    <3> QED
      BY <3>1, <3>2, <2>2 DEF Ownership, Exclusive
  <2> QED
    BY <2>1, <2>2, <2>3, <2>4, <2>5 DEF Ownership
<1>12. ASSUME NEW c \in Clients, PutIdle(c) PROVE Ownership'
  <2> DEFINE p == pl[c]
             h == hand[c]
  <2>1. p \in Pools /\ h # None /\ UNCHANGED <<state, open, pl>>
    BY <1>12 DEF PutIdle, TypeOK, Holding
  <2>2. /\ conns'[p] = conns[p] \cup {h} /\ \A q \in Pools \ {p} : conns'[q] = conns[q]
        /\ hand'[c] = None /\ \A d \in Clients \ {c} : hand'[d] = hand[d]
    BY <1>12, <2>1 DEF PutIdle, TypeOK
  <2>3. /\ h \in open[p] /\ \A d \in Clients \ {c} : hand[d] # h
        /\ \A q \in Pools \ {p} : h \notin open[q] /\ h \notin conns[q]
    BY <2>1 DEF Ownership, Exclusive
  <2>4. None \notin conns[p] /\ \A q \in Pools : None \notin conns[q]
    BY <2>1 DEF TypeOK
  <2> HIDE DEF p, h
  <2>5. Exclusive'
    <3>1. \A d, e \in Clients : hand'[d] = hand'[e] /\ hand'[d] # None => d = e
      BY <2>2 DEF Ownership, Exclusive
    <3>2. \A q, r \in Pools : q # r => conns'[q] \cap conns'[r] = {}
      BY <2>1, <2>2, <2>3 DEF Ownership, Exclusive
    <3>3. \A d \in Clients, q \in Pools : hand'[d] \notin conns'[q]
      BY <2>1, <2>2, <2>3, <2>4 DEF Ownership, Exclusive
    <3> QED
      BY <3>1, <3>2, <3>3 DEF Exclusive
  <2>6. \A q \in Pools : conns'[q] \subseteq open'[q]
    BY <2>1, <2>2, <2>3 DEF Ownership
  <2> QED
    BY <2>1, <2>2, <2>5, <2>6 DEF Ownership
<1>13. ASSUME NEW c \in Clients, Close(c) PROVE Ownership'
  <2>1. hand[c] # None /\ hand'[c] = None /\ \A d \in Clients \ {c} : hand'[d] = hand[d]
    BY <1>13 DEF Close, TypeOK, Holding
  <2>2. UNCHANGED <<state, conns, pl>>
    BY <1>13 DEF Close
  <2>3. \A q \in Pools : hand[c] \notin conns[q]
    BY DEF Ownership, Exclusive
  <2>4. Exclusive'
    BY <2>1, <2>2, HolderInPool DEF Ownership, Exclusive
  <2>5. CASE UNCHANGED open
    BY <2>1, <2>2, <2>4, <2>5 DEF Ownership
  <2>6. CASE open' = [q \in Pools |-> open[q] \ {hand[c]}]
    <3>1. \A q \in Pools : open'[q] = open[q] \ {hand[c]}
      BY <2>6
    <3>2. \A d \in Clients \ {c} : hand[d] # hand[c]
      BY <2>1 DEF Ownership, Exclusive
    <3>3. \A d \in Clients : hand'[d] # None => hand'[d] \in open'[pl'[d]]
      BY <2>1, <2>2, <3>1, <3>2, HolderInPool DEF Ownership
    <3> QED
      BY <2>2, <2>3, <2>4, <3>1, <3>3 DEF Ownership
  <2> QED
    BY <2>5, <2>6, <1>13 DEF Close
<1> QED
  BY <1>1, <1>2, <1>3, <1>4, <1>5, <1>6, <1>7, <1>8, <1>9, <1>10, <1>11, <1>12, <1>13
     DEF Next, PoolStep, ClientStep, ReleaseStep

LEMMA OwnershipCorrect == Spec => []Ownership
<1>1. Init => Ownership
  BY PoolAssumption DEF Init, Ownership, Exclusive
<1> QED
  BY <1>1, TypeAndQueue, OwnershipNext, PTL DEF Spec

\* No connection has two owners, for any number of clients and pools.
THEOREM ExclusiveCorrect == Spec => []Exclusive
<1>1. Ownership => Exclusive
  BY DEF Ownership
<1> QED
  BY <1>1, OwnershipCorrect, PTL

LEMMA OwnershipIsCustody == TypeOK /\ Ownership => Custody
BY HolderInPool DEF Ownership, Custody, Usable, Connected

\* Every connection that is idle or held is still connected.
THEOREM UsableCorrect == Spec => []Usable
<1>1. Custody => Usable
  BY DEF Custody
<1> QED
  BY <1>1, OwnershipIsCustody, OwnershipCorrect, TypeCorrect, PTL

-----------------------------------------------------------------------------
(* Counting.                                                               *)

Counts == CountIsExact /\ WithinMaxActive

LEMMA OpenIsFinite ==
  ASSUME TypeOK
  PROVE  \A p \in Pools : IsFiniteSet(open[p]) /\ Cardinality(open[p]) \in Nat
<1> SUFFICES ASSUME NEW p \in Pools
             PROVE  IsFiniteSet(open[p]) /\ Cardinality(open[p]) \in Nat
  OBVIOUS
<1>1. open[p] \subseteq Handles
  BY DEF TypeOK
<1> QED
  BY <1>1, PoolAssumption, FS_Subset, FS_CardinalityType

\* Most steps neither open nor close a connection.
LEMMA CountsKept ==
  ASSUME Counts, UNCHANGED <<openingConns, open>>,
         \A p \in Pools : state'[p] = "live" => state[p] = "live"
  PROVE  Counts'
BY DEF Counts, CountIsExact, WithinMaxActive, maxActive

LEMMA CountsNext ==
  TypeOK /\ TypeOK' /\ Ownership /\ Counts /\ [Next]_poolVars => Counts'
<1> SUFFICES ASSUME TypeOK, TypeOK', Ownership, Counts, [Next]_poolVars PROVE Counts'
  OBVIOUS
<1> USE PoolAssumption
<1>1. CASE UNCHANGED poolVars
  BY <1>1, CountsKept DEF poolVars
<1>2. ASSUME NEW p \in Pools, Release(p) \/ CloseConns(p) PROVE Counts'
  BY <1>2, CountsKept DEF TypeOK, Release, CloseConns
<1>3. ASSUME NEW c \in Clients, NEW p \in Pools, CallGet(c, p) PROVE Counts'
  BY <1>3, CountsKept DEF CallGet
<1>4. ASSUME NEW c \in Clients, ClientStep(c) PROVE Counts'
  BY <1>4, CountsKept DEF ClientStep, GiveUp, CallPut, CallClose
<1>5. ASSUME NEW c \in Clients, GetConns(c) \/ Receive(c) \/ ReceiveClosed(c) \/ Miss(c)
      PROVE  Counts'
  BY <1>5, CountsKept DEF GetConns, Receive, ReceiveClosed, Miss
<1>6. ASSUME NEW c \in Clients, Enqueue(c) \/ OpenFails(c) \/ WakeUp(c) PROVE Counts'
  BY <1>6, CountsKept DEF Enqueue, OpenFails, WakeUp
<1>7. ASSUME NEW c \in Clients,
             PutReleased(c) \/ PutHandOver(c) \/ PutIdle(c) \/ PutFull(c)
      PROVE  Counts'
  BY <1>7, CountsKept DEF PutReleased, PutHandOver, PutIdle, PutFull
<1>8. ASSUME NEW p \in Pools, NewChannelPool(p) PROVE Counts'
  <2>1. /\ Cardinality(open'[p]) = PoolSize /\ openingConns'[p] = PoolSize
        /\ \A q \in Pools \ {p} : /\ open'[q] = open[q] /\ state'[q] = state[q]
                                  /\ openingConns'[q] = openingConns[q]
    BY <1>8 DEF NewChannelPool, TypeOK
  <2>2. PoolSize <= maxActive
    BY DEF maxActive
  <2> QED
    BY <2>1, <2>2 DEF Counts, CountIsExact, WithinMaxActive, maxActive
<1>9. ASSUME NEW p \in Pools, Drain(p) PROVE Counts'
  <2>1. PICK h \in conns[p] : open' = [q \in Pools |-> open[q] \ {h}]
    BY <1>9 DEF Drain
  <2>2. UNCHANGED <<state, openingConns>> /\ state[p] = "closed"
    BY <1>9 DEF Drain
  <2>3. h \in open[p] /\ \A q \in Pools \ {p} : open'[q] = open[q]
    BY <2>1 DEF Ownership
  <2>4. open'[p] \subseteq open[p] /\ Cardinality(open'[p]) <= Cardinality(open[p])
    BY <2>1, OpenIsFinite, FS_Subset
  <2>5. Cardinality(open'[p]) \in Nat /\ Cardinality(open[p]) \in Nat /\ maxActive \in Nat
    <3>1. IsFiniteSet(open'[p])
      BY <2>4, OpenIsFinite, FS_Subset
    <3> QED
      BY <3>1, OpenIsFinite, FS_CardinalityType DEF maxActive
  <2> QED
    BY <2>2, <2>3, <2>4, <2>5 DEF Counts, CountIsExact, WithinMaxActive
<1>10. ASSUME NEW c \in Clients, Open(c) PROVE Counts'
  <2> DEFINE p == pl[c]
  <2>1. PICK h \in Handles \ Connected : open' = [open EXCEPT ![p] = @ \cup {h}]
    BY <1>10 DEF Open
  <2>2. /\ p \in Pools /\ state[p] = "live" /\ openingConns[p] < maxActive
        /\ openingConns' = [openingConns EXCEPT ![p] = @ + 1]
        /\ UNCHANGED state
    BY <1>10 DEF Open, TypeOK
  <2>3. h \notin open[p]
    BY <2>2 DEF Connected
  <2>4. Cardinality(open[p] \cup {h}) = Cardinality(open[p]) + 1
    BY <2>2, <2>3, OpenIsFinite, FS_AddElement
  <2>5. /\ open'[p] = open[p] \cup {h} /\ openingConns'[p] = openingConns[p] + 1
        /\ \A q \in Pools \ {p} : open'[q] = open[q] /\ openingConns'[q] = openingConns[q]
    BY <2>1, <2>2 DEF TypeOK
  <2>6. openingConns[p] = Cardinality(open[p]) /\ Cardinality(open[p]) \in Nat /\ maxActive \in Nat
    BY <2>2, OpenIsFinite DEF Counts, CountIsExact, maxActive
  <2> HIDE DEF p
  <2>7. CountIsExact'
    BY <2>2, <2>4, <2>5, <2>6 DEF Counts, CountIsExact
  <2>8. WithinMaxActive'
    <3>1. maxActive' = maxActive
      BY DEF maxActive
    <3>2. Cardinality(open'[p]) <= maxActive
      BY <2>2, <2>4, <2>5, <2>6
    <3> QED
      BY <2>2, <2>5, <3>1, <3>2 DEF Counts, WithinMaxActive
  <2> QED
    BY <2>7, <2>8 DEF Counts
<1>11. ASSUME NEW c \in Clients, Close(c) PROVE Counts'
  <2>1. CASE UNCHANGED <<openingConns, open>>
    BY <1>11, <2>1, CountsKept DEF Close
  <2>2. CASE /\ state[pl[c]] = "live"
             /\ openingConns' = [openingConns EXCEPT ![pl[c]] = @ - 1]
             /\ open' = [q \in Pools |-> open[q] \ {hand[c]}]
    <3> DEFINE p == pl[c]
               h == hand[c]
    <3>1. p \in Pools /\ h # None /\ h \in open[p] /\ UNCHANGED state
      BY <1>11 DEF Close, TypeOK, Holding, Ownership
    <3>2. /\ open'[p] = open[p] \ {h} /\ openingConns'[p] = openingConns[p] - 1
          /\ \A q \in Pools \ {p} : open'[q] = open[q] /\ openingConns'[q] = openingConns[q]
      BY <2>2, <3>1 DEF TypeOK, Ownership
    <3>3. Cardinality(open[p] \ {h}) = Cardinality(open[p]) - 1
      BY <3>1, OpenIsFinite, FS_RemoveElement
    <3>4. openingConns[p] = Cardinality(open[p]) /\ Cardinality(open[p]) \in Nat /\ maxActive \in Nat
      BY <2>2, <3>1, OpenIsFinite DEF Counts, CountIsExact, maxActive
    <3> HIDE DEF p, h
    <3>5. CountIsExact'
      BY <3>1, <3>2, <3>3, <3>4 DEF Counts, CountIsExact
    <3>6. WithinMaxActive'
      <4>1. maxActive' = maxActive
        BY DEF maxActive
      <4>2. Cardinality(open[p]) <= maxActive
        BY <3>1 DEF Counts, WithinMaxActive
      <4>3. Cardinality(open'[p]) <= maxActive
        BY <3>2, <3>3, <3>4, <4>2
      <4> QED
        BY <3>1, <3>2, <4>1, <4>3 DEF Counts, WithinMaxActive
    <3> QED
      BY <3>5, <3>6 DEF Counts
  <2> QED
    BY <2>1, <2>2, <1>11 DEF Close
<1> QED
  BY <1>1, <1>2, <1>3, <1>4, <1>5, <1>6, <1>7, <1>8, <1>9, <1>10, <1>11
     DEF Next, PoolStep, ClientStep, ReleaseStep

\* openingConns is exact and a pool never exceeds maxActive connections, for
\* any pool size: the argument needs Ownership, because Close counts down the
\* pool it is called on and closes whatever it is given.
THEOREM CountsCorrect == Spec => [](CountIsExact /\ WithinMaxActive)
<1>1. Init => Counts
  BY PoolAssumption, FS_EmptySet DEF Init, Counts, CountIsExact, WithinMaxActive, maxActive
<1>2. Spec => []Counts
  BY <1>1, TypeCorrect, OwnershipCorrect, CountsNext, PTL DEF Spec
<1>3. Counts <=> CountIsExact /\ WithinMaxActive
  BY DEF Counts
<1> QED
  BY <1>2, <1>3, PTL

\* The pool's count of its connections is exact.
THEOREM CountIsExactCorrect == Spec => []CountIsExact
BY CountsCorrect, PTL

-----------------------------------------------------------------------------
(* Nothing is lost.                                                        *)

LEMMA NothingLostKept ==
  ASSUME TypeOK, NothingLost, UNCHANGED <<conns, open, hand>>,
         \A p \in Pools : state'[p] = "live" => state[p] = "live",
         \A c \in Clients : hand[c] # None => pl'[c] = pl[c]
  PROVE  NothingLost'
BY HolderInPool DEF NothingLost

LEMMA NothingLostNext ==
  TypeOK /\ QueueIsExact /\ Ownership /\ NothingLost /\ [Next]_poolVars => NothingLost'
<1> SUFFICES ASSUME TypeOK, QueueIsExact, Ownership, NothingLost, [Next]_poolVars
             PROVE  NothingLost'
  OBVIOUS
<1> USE PoolAssumption
<1>1. CASE UNCHANGED poolVars
  BY <1>1, NothingLostKept DEF poolVars
<1>2. ASSUME NEW p \in Pools, Release(p) \/ CloseConns(p) PROVE NothingLost'
  BY <1>2, NothingLostKept DEF TypeOK, Release, CloseConns
<1>3. ASSUME NEW c \in Clients, NEW p \in Pools, CallGet(c, p) PROVE NothingLost'
  BY <1>3, NothingLostKept DEF TypeOK, CallGet, Holding
<1>4. ASSUME NEW c \in Clients, ClientStep(c) PROVE NothingLost'
  BY <1>4, NothingLostKept DEF ClientStep, GiveUp, CallPut, CallClose
<1>5. ASSUME NEW c \in Clients, GetConns(c) \/ ReceiveClosed(c) \/ Miss(c) \/ Enqueue(c)
      PROVE  NothingLost'
  BY <1>5, NothingLostKept DEF GetConns, ReceiveClosed, Miss, Enqueue
<1>6. ASSUME NEW c \in Clients, OpenFails(c) \/ WakeUp(c) \/ PutReleased(c) \/ PutFull(c)
      PROVE  NothingLost'
  BY <1>6, NothingLostKept DEF OpenFails, WakeUp, PutReleased, PutFull
<1>7. ASSUME NEW p \in Pools, NewChannelPool(p) PROVE NothingLost'
  <2>1. /\ conns'[p] = open'[p] /\ UNCHANGED <<pl, hand>>
        /\ \A q \in Pools \ {p} : /\ conns'[q] = conns[q] /\ open'[q] = open[q]
                                  /\ state'[q] = state[q]
    BY <1>7 DEF NewChannelPool, TypeOK
  <2> QED
    BY <2>1 DEF NothingLost
<1>8. ASSUME NEW p \in Pools, Drain(p) PROVE NothingLost'
  <2>1. PICK h \in conns[p] : /\ conns' = [conns EXCEPT ![p] = @ \ {h}]
                              /\ open' = [q \in Pools |-> open[q] \ {h}]
    BY <1>8 DEF Drain
  <2>2. /\ state[p] = "closed" /\ UNCHANGED <<state, pl, hand>>
        /\ \A q \in Pools \ {p} : conns'[q] = conns[q]
        /\ \A q \in Pools : open'[q] \subseteq open[q]
    BY <2>1, <1>8 DEF Drain, TypeOK
  <2> QED
    BY <2>2 DEF NothingLost
<1>9. ASSUME NEW c \in Clients, Receive(c) PROVE NothingLost'
  <2>1. PICK h \in conns[pl[c]] : /\ conns' = [conns EXCEPT ![pl[c]] = @ \ {h}]
                                  /\ hand' = [hand EXCEPT ![c] = h]
    BY <1>9 DEF Receive
  <2>2. pl[c] \in Pools /\ hand[c] = None /\ UNCHANGED <<state, open, pl>>
    BY <1>9 DEF Receive, TypeOK, Holding
  <2>3. /\ conns'[pl[c]] = conns[pl[c]] \ {h} /\ hand'[c] = h
        /\ \A q \in Pools \ {pl[c]} : conns'[q] = conns[q]
        /\ \A d \in Clients \ {c} : hand'[d] = hand[d]
    BY <2>1, <2>2 DEF TypeOK
  <2> QED
    BY <2>2, <2>3, HolderInPool DEF NothingLost
<1>10. ASSUME NEW c \in Clients, Open(c) PROVE NothingLost'
  <2>1. PICK h \in Handles \ Connected : /\ open' = [open EXCEPT ![pl[c]] = @ \cup {h}]
                                         /\ hand' = [hand EXCEPT ![c] = h]
    BY <1>10 DEF Open
  <2>2. pl[c] \in Pools /\ hand[c] = None /\ UNCHANGED <<state, conns, pl>>
    BY <1>10 DEF Open, TypeOK, Holding
  <2>3. /\ open'[pl[c]] = open[pl[c]] \cup {h} /\ hand'[c] = h
        /\ \A q \in Pools \ {pl[c]} : open'[q] = open[q]
        /\ \A d \in Clients \ {c} : hand'[d] = hand[d]
    BY <2>1, <2>2 DEF TypeOK
  <2> QED
    BY <2>2, <2>3, HolderInPool DEF NothingLost
<1>11. ASSUME NEW c \in Clients, PutHandOver(c) PROVE NothingLost'
  <2> DEFINE w == Head(connReqs[pl[c]])
  <2>1. w \in Clients /\ pc[w] = "wait" /\ pl[w] = pl[c] /\ pl[c] \in Pools
    <3>1. pl[c] \in Pools /\ connReqs[pl[c]] \in Seq(Clients) /\ connReqs[pl[c]] # <<>>
      BY <1>11 DEF PutHandOver, TypeOK
    <3>2. w = connReqs[pl[c]][1] /\ w \in Clients /\ 1 \in DOMAIN connReqs[pl[c]]
      BY <3>1, HeadTailProperties
    <3> QED
      BY <3>1, <3>2 DEF QueueIsExact
  <2>2. /\ hand' = [hand EXCEPT ![c] = None, ![w] = hand[c]]
        /\ UNCHANGED <<state, conns, open, pl>>
    BY <1>11 DEF PutHandOver
  <2>3. hand[w] = None /\ w # c
    BY <2>1, <1>11 DEF PutHandOver, TypeOK, Holding
  <2> HIDE DEF w
  <2>4. hand'[w] = hand[c] /\ \A d \in Clients \ {c, w} : hand'[d] = hand[d]
    BY <2>1, <2>2, <2>3 DEF TypeOK
  <2> SUFFICES ASSUME NEW p \in Pools, state'[p] = "live", NEW h \in open'[p], h \notin conns'[p]
               PROVE  \E e \in Clients : hand'[e] = h /\ pl'[e] = p
    BY DEF NothingLost
  <2>10. PICK d \in Clients : hand[d] = h /\ pl[d] = p
    BY <2>2 DEF NothingLost
  <2>5. CASE d = c
    BY <2>1, <2>2, <2>4, <2>5, <2>10
  <2>6. CASE d # c
    BY <2>2, <2>3, <2>4, <2>6, <2>10, HolderInPool
  <2> QED
    BY <2>5, <2>6
<1>12. ASSUME NEW c \in Clients, PutIdle(c) PROVE NothingLost'
  <2>1. pl[c] \in Pools /\ UNCHANGED <<state, open, pl>>
    BY <1>12 DEF PutIdle, TypeOK
  <2>2. /\ conns'[pl[c]] = conns[pl[c]] \cup {hand[c]}
        /\ \A q \in Pools \ {pl[c]} : conns'[q] = conns[q]
        /\ \A d \in Clients \ {c} : hand'[d] = hand[d]
    BY <1>12, <2>1 DEF PutIdle, TypeOK
  <2> QED
    BY <2>1, <2>2 DEF NothingLost
<1>13. ASSUME NEW c \in Clients, Close(c) PROVE NothingLost'
  <2>1. /\ pl[c] \in Pools /\ hand[c] # None /\ UNCHANGED <<state, conns, pl>>
        /\ \A d \in Clients \ {c} : hand'[d] = hand[d]
    BY <1>13 DEF Close, TypeOK, Holding
  <2>2. state[pl[c]] = "live" => \A q \in Pools : open'[q] = open[q] \ {hand[c]}
    BY <1>13 DEF Close
  <2>3. state[pl[c]] # "live" => UNCHANGED open
    BY <1>13 DEF Close
  <2> QED
    BY <2>1, <2>2, <2>3 DEF NothingLost, Ownership
<1> QED
  BY <1>1, <1>2, <1>3, <1>4, <1>5, <1>6, <1>7, <1>8, <1>9, <1>10, <1>11, <1>12, <1>13
     DEF Next, PoolStep, ClientStep, ReleaseStep

\* No pool in use loses a connection it has opened.
THEOREM NothingLostCorrect == Spec => []NothingLost
<1>1. Init => NothingLost
  BY DEF Init, NothingLost
<1> QED
  BY <1>1, TypeAndQueue, OwnershipCorrect, NothingLostNext, PTL DEF Spec

-----------------------------------------------------------------------------
(* Not everybody parks.                                                    *)

\* The channel has room for PoolSize connections.
ChannelFits == \A p \in Pools : Cardinality(conns[p]) <= PoolSize

LEMMA ConnsAreFinite ==
  ASSUME TypeOK
  PROVE  \A p \in Pools : IsFiniteSet(conns[p]) /\ Cardinality(conns[p]) \in Nat
<1> SUFFICES ASSUME NEW p \in Pools
             PROVE  IsFiniteSet(conns[p]) /\ Cardinality(conns[p]) \in Nat
  OBVIOUS
<1>1. conns[p] \subseteq Handles
  BY DEF TypeOK
<1> QED
  BY <1>1, PoolAssumption, FS_Subset, FS_CardinalityType

LEMMA ChannelFitsNext == TypeOK /\ ChannelFits /\ [Next]_poolVars => ChannelFits'
<1> SUFFICES ASSUME TypeOK, ChannelFits, [Next]_poolVars PROVE ChannelFits'
  OBVIOUS
<1> USE PoolAssumption
<1>1. CASE UNCHANGED conns
  BY <1>1 DEF ChannelFits
<1>2. ASSUME NEW p \in Pools, NewChannelPool(p) PROVE ChannelFits'
  <2>1. Cardinality(conns'[p]) = PoolSize /\ \A q \in Pools \ {p} : conns'[q] = conns[q]
    BY <1>2 DEF NewChannelPool, TypeOK
  <2> QED
    BY <2>1 DEF ChannelFits
<1>3. ASSUME NEW p \in Pools, NEW h, conns' = [conns EXCEPT ![p] = @ \ {h}]
      PROVE  ChannelFits'
  <2>1. conns'[p] = conns[p] \ {h} /\ \A q \in Pools \ {p} : conns'[q] = conns[q]
    BY <1>3 DEF TypeOK
  <2>2. Cardinality(conns'[p]) <= Cardinality(conns[p])
    BY <2>1, ConnsAreFinite, FS_Subset
  <2>3. Cardinality(conns'[p]) \in Nat /\ Cardinality(conns[p]) \in Nat
    BY <2>1, ConnsAreFinite, FS_Subset, FS_CardinalityType
  <2> QED
    BY <2>1, <2>2, <2>3 DEF ChannelFits
<1>4. ASSUME NEW c \in Clients, PutIdle(c) PROVE ChannelFits'
  <2> DEFINE p == pl[c]
  <2>1. p \in Pools /\ Cardinality(conns[p]) < PoolSize
    BY <1>4 DEF PutIdle, TypeOK
  <2>2. /\ conns'[p] = conns[p] \cup {hand[c]}
        /\ \A q \in Pools \ {p} : conns'[q] = conns[q]
    BY <1>4, <2>1 DEF PutIdle, TypeOK
  <2>3. Cardinality(conns[p] \cup {hand[c]}) <= Cardinality(conns[p]) + 1
    <3>1. CASE hand[c] \in conns[p]
      <4>1. conns[p] \cup {hand[c]} = conns[p]
        BY <3>1
      <4> QED
        BY <4>1, <2>1, ConnsAreFinite
    <3>2. CASE hand[c] \notin conns[p]
      <4>1. IsFiniteSet(conns[p]) /\ Cardinality(conns[p]) \in Nat
        BY <2>1, ConnsAreFinite
      <4>2. Cardinality(conns[p] \cup {hand[c]}) = Cardinality(conns[p]) + 1
        BY <3>2, <4>1, FS_AddElement
      <4> QED
        BY <4>1, <4>2
    <3> QED
      BY <3>1, <3>2
  <2>4. Cardinality(conns'[p]) \in Nat /\ Cardinality(conns[p]) \in Nat
    BY <2>1, <2>2, ConnsAreFinite, FS_AddElement, FS_CardinalityType
  <2>5. Cardinality(conns'[p]) <= PoolSize
    <3>1. Cardinality(conns'[p]) <= Cardinality(conns[p]) + 1
      BY <2>2, <2>3
    <3> QED
      BY <2>1, <2>4, <3>1
  <2> HIDE DEF p
  <2> QED
    BY <2>2, <2>5 DEF ChannelFits
<1>5. ASSUME NEW p \in Pools, Drain(p) PROVE ChannelFits'
  BY <1>3, <1>5 DEF Drain
<1>6. ASSUME NEW c \in Clients, Receive(c) PROVE ChannelFits'
  BY <1>3, <1>6 DEF Receive, TypeOK
<1>7. ASSUME NEW p \in Pools, Release(p) \/ CloseConns(p) PROVE UNCHANGED conns
  BY <1>7 DEF Release, CloseConns
<1>8. ASSUME NEW c \in Clients, ClientStep(c) \/ \E p \in Pools : CallGet(c, p)
      PROVE  UNCHANGED conns
  BY <1>8 DEF ClientStep, GiveUp, CallPut, CallClose, CallGet
<1>9. ASSUME NEW c \in Clients, PoolStep(c), ~Receive(c), ~PutIdle(c) PROVE UNCHANGED conns
  BY <1>9 DEF PoolStep, GetConns, ReceiveClosed, Miss, Enqueue, Open, OpenFails, WakeUp,
              PutReleased, PutHandOver, PutFull, Close
<1> QED
  BY <1>1, <1>2, <1>4, <1>5, <1>6, <1>7, <1>8, <1>9 DEF Next, ReleaseStep, poolVars

\* If everybody is parked on a pool in use, its connections are all idle, but a
\* client only parks when more connections are open than the channel can hold.
AllParkedIsFew ==
    \A p \in Pools :
        /\ state[p] = "live"
        /\ \A c \in Clients : hand[c] # None => pl[c] # p
        => openingConns[p] <= PoolSize

LEMMA IdleOnlyIsFew ==
  ASSUME TypeOK, CountIsExact, NothingLost, ChannelFits
  PROVE  AllParkedIsFew
<1> SUFFICES ASSUME NEW p \in Pools, state[p] = "live",
                    \A c \in Clients : hand[c] # None => pl[c] # p
             PROVE  openingConns[p] <= PoolSize
  BY DEF AllParkedIsFew
<1>1. open[p] \subseteq conns[p]
  BY HolderInPool DEF NothingLost
<1>2. Cardinality(open[p]) <= Cardinality(conns[p])
  BY <1>1, ConnsAreFinite, FS_Subset
<1>3. openingConns[p] = Cardinality(open[p]) /\ Cardinality(open[p]) \in Nat
  BY OpenIsFinite DEF CountIsExact
<1> QED
  BY <1>2, <1>3, ConnsAreFinite, PoolAssumption DEF ChannelFits

\* A client only calls pools that exist.
CalledPoolsExist == \A c \in Clients : pc[c] # "out" => state[pl[c]] # "none"

LEMMA CalledNext == TypeOK /\ QueueIsExact /\ CalledPoolsExist /\ [Next]_poolVars => CalledPoolsExist'
<1> SUFFICES ASSUME TypeOK, QueueIsExact, CalledPoolsExist, [Next]_poolVars
             PROVE  CalledPoolsExist'
  OBVIOUS
<1>1. ASSUME UNCHANGED <<pc, pl>>, \A p \in Pools : state'[p] = "none" => state[p] = "none"
      PROVE  CalledPoolsExist'
  BY <1>1 DEF CalledPoolsExist, TypeOK
<1>2. ASSUME UNCHANGED <<state, pl>>, NEW c \in Clients, pc[c] # "out",
             \A d \in Clients \ {c} : pc'[d] # "out" => pc[d] # "out"
      PROVE  CalledPoolsExist'
  BY <1>2 DEF CalledPoolsExist
<1>3. CASE UNCHANGED poolVars
  BY <1>1, <1>3 DEF poolVars
<1>4. ASSUME NEW p \in Pools, NewChannelPool(p) \/ Release(p) \/ ReleaseStep(p)
      PROVE  CalledPoolsExist'
  BY <1>1, <1>4 DEF NewChannelPool, Release, ReleaseStep, CloseConns, Drain, TypeOK
<1>5. ASSUME NEW c \in Clients, NEW p \in Pools, CallGet(c, p) PROVE CalledPoolsExist'
  BY <1>5 DEF CallGet, Goto, TypeOK, CalledPoolsExist
<1>6. ASSUME NEW c \in Clients, ClientStep(c) PROVE CalledPoolsExist'
  BY <1>2, <1>6 DEF ClientStep, GiveUp, CallPut, CallClose, Goto, TypeOK
<1>7. ASSUME NEW c \in Clients, PutHandOver(c) PROVE CalledPoolsExist'
  <2> DEFINE w == Head(connReqs[pl[c]])
  <2>1. w \in Clients /\ pc[w] = "wait"
    <3>1. pl[c] \in Pools /\ connReqs[pl[c]] \in Seq(Clients) /\ connReqs[pl[c]] # <<>>
      BY <1>7 DEF PutHandOver, TypeOK
    <3>2. w = connReqs[pl[c]][1] /\ w \in Clients /\ 1 \in DOMAIN connReqs[pl[c]]
      BY <3>1, HeadTailProperties
    <3> QED
      BY <3>1, <3>2 DEF QueueIsExact
  <2>2. /\ pc' = [pc EXCEPT ![c] = "out", ![w] = "handed"] /\ UNCHANGED <<state, pl>>
        /\ pc[c] = "put"
    BY <1>7 DEF PutHandOver
  <2> HIDE DEF w
  <2> QED
    BY <2>1, <2>2 DEF TypeOK, CalledPoolsExist
<1>8. ASSUME NEW c \in Clients, PoolStep(c), ~PutHandOver(c) PROVE CalledPoolsExist'
  BY <1>2, <1>8 DEF PoolStep, GetConns, Receive, ReceiveClosed, Miss, Enqueue, Open, OpenFails,
     WakeUp, PutReleased, PutIdle, PutFull, Close, Goto, TypeOK
<1> QED
  BY <1>3, <1>4, <1>5, <1>6, <1>7, <1>8 DEF Next

LEMMA ParkedNext ==
  ASSUME PoolSize > 0, Clients # {}, TypeOK, CalledPoolsExist, AllParkedIsFew, NeverAllParked,
         [Next]_poolVars
  PROVE  NeverAllParked'
<1> USE PoolAssumption
<1> SUFFICES ASSUME NEW p \in Pools, state'[p] = "live",
                    \A c \in Clients : pc'[c] = "wait" /\ pl'[c] = p
             PROVE  FALSE
  BY DEF NeverAllParked
<1>1. ASSUME UNCHANGED <<pc, pl>>, state[p] = "live" PROVE FALSE
  BY <1>1 DEF NeverAllParked
<1>2. ASSUME NEW c \in Clients, pc'[c] # "wait" PROVE FALSE
  BY <1>2
<1>3. CASE UNCHANGED poolVars
  BY <1>1, <1>3 DEF poolVars
<1>4. ASSUME NEW q \in Pools, Release(q) \/ ReleaseStep(q) PROVE FALSE
  BY <1>1, <1>4 DEF Release, ReleaseStep, CloseConns, Drain, TypeOK
<1>5. ASSUME NEW q \in Pools, NewChannelPool(q) PROVE FALSE
  <2>1. CASE q = p
    <3>1. \A c \in Clients : pc[c] = "wait" /\ pl[c] = p
      BY <1>5 DEF NewChannelPool
    <3>2. state[p] = "none"
      BY <1>5, <2>1 DEF NewChannelPool
    <3> QED
      BY <3>1, <3>2 DEF CalledPoolsExist
  <2>2. CASE q # p
    BY <1>1, <1>5, <2>2 DEF NewChannelPool, TypeOK
  <2> QED
    BY <2>1, <2>2
<1>6. ASSUME NEW c \in Clients, NEW q \in Pools, CallGet(c, q) PROVE FALSE
  BY <1>2, <1>6 DEF CallGet, Goto, TypeOK
<1>7. ASSUME NEW c \in Clients, ClientStep(c) PROVE FALSE
  BY <1>2, <1>7 DEF ClientStep, GiveUp, CallPut, CallClose, Goto, TypeOK
<1>8. ASSUME NEW c \in Clients, Enqueue(c) PROVE FALSE
  <2>1. /\ pc[c] = "miss" /\ pc' = [pc EXCEPT ![c] = "wait"]
        /\ UNCHANGED <<state, pl>> /\ openingConns[pl[c]] >= maxActive
    BY <1>8 DEF Enqueue, Goto
  <2>2. \A d \in Clients : pl[d] = p /\ hand[d] = None
    BY <2>1 DEF TypeOK, Holding
  <2>3. openingConns[p] <= PoolSize
    BY <2>1, <2>2 DEF AllParkedIsFew
  <2>4. openingConns[p] >= 2 * PoolSize /\ openingConns[p] \in Int
    BY <2>1, <2>2 DEF maxActive, TypeOK
  <2> QED
    BY <2>3, <2>4
<1>9. ASSUME NEW c \in Clients, PutHandOver(c) PROVE FALSE
  BY <1>2, <1>9 DEF PutHandOver, TypeOK
<1>10. ASSUME NEW c \in Clients, PoolStep(c), ~PutHandOver(c), ~Enqueue(c) PROVE FALSE
  BY <1>2, <1>10 DEF PoolStep, GetConns, Receive, ReceiveClosed, Miss, Open, OpenFails,
     WakeUp, PutReleased, PutIdle, PutFull, Close, Goto, TypeOK
<1> QED
  BY <1>3, <1>4, <1>5, <1>6, <1>7, <1>8, <1>9, <1>10 DEF Next

\* If --pool-size is positive, the clients never all park on a pool in use.  With
\* a size of zero the first one to call Get does, and for ever.
THEOREM NeverAllParkedCorrect ==
  ASSUME PoolSize > 0, Clients # {}
  PROVE  Spec => []NeverAllParked
<1>1. Init => ChannelFits /\ CalledPoolsExist /\ NeverAllParked
  BY PoolAssumption, FS_EmptySet DEF Init, ChannelFits, CalledPoolsExist, NeverAllParked
<1>2. Spec => []ChannelFits
  BY <1>1, TypeAndQueue, ChannelFitsNext, PTL DEF Spec
<1>3. Spec => []CalledPoolsExist
  BY <1>1, TypeAndQueue, CalledNext, PTL DEF Spec
<1>4. Spec => []AllParkedIsFew
  BY <1>2, TypeCorrect, CountsCorrect, NothingLostCorrect, IdleOnlyIsFew, PTL
<1>5. TypeOK /\ CalledPoolsExist /\ AllParkedIsFew /\ NeverAllParked /\ [Next]_poolVars
        => NeverAllParked'
  BY ParkedNext
<1> QED
  BY <1>1, <1>3, <1>4, <1>5, TypeCorrect, PTL DEF Spec

-----------------------------------------------------------------------------
(* The pools implement HandleLeases.                                       *)

LEMMA ConnectedByPool ==
  /\ \A h : h \in Connected <=> \E p \in Pools : h \in open[p]
  /\ \A h : h \in Connected' <=> \E p \in Pools : h \in open'[p]
BY DEF Connected

LEMMA LeaseStutters ==
  ASSUME UNCHANGED <<open, hand>>
  PROVE  UNCHANGED Leases!leaseVars
BY DEF Leases!leaseVars, Connected

LEMMA LeaseStep ==
  TypeOK /\ QueueIsExact /\ Custody /\ [AnyNext]_poolVars => [Leases!Next]_(Leases!leaseVars)
<1> SUFFICES ASSUME TypeOK, QueueIsExact, Custody, [AnyNext]_poolVars
             PROVE  Leases!Next \/ UNCHANGED Leases!leaseVars
  OBVIOUS
<1> USE PoolAssumption
<1>1. CASE UNCHANGED poolVars
  BY <1>1, LeaseStutters DEF poolVars
<1>2. ASSUME NEW p \in Pools, Release(p) \/ CloseConns(p) PROVE UNCHANGED Leases!leaseVars
  BY <1>2, LeaseStutters DEF Release, CloseConns
<1>3. ASSUME NEW c \in Clients, NEW p \in Pools, CallGet(c, p) PROVE UNCHANGED Leases!leaseVars
  BY <1>3, LeaseStutters DEF CallGet
<1>4. ASSUME NEW c \in Clients, ClientStep(c) PROVE UNCHANGED Leases!leaseVars
  BY <1>4, LeaseStutters DEF ClientStep, GiveUp, CallPut, CallClose
<1>5. ASSUME NEW c \in Clients, GetConns(c) \/ ReceiveClosed(c) \/ Miss(c) \/ Enqueue(c)
      PROVE  UNCHANGED Leases!leaseVars
  BY <1>5, LeaseStutters DEF GetConns, ReceiveClosed, Miss, Enqueue
<1>6. ASSUME NEW c \in Clients, OpenFails(c) \/ WakeUp(c) \/ PutReleased(c) \/ PutFull(c)
      PROVE  UNCHANGED Leases!leaseVars
  BY <1>6, LeaseStutters DEF OpenFails, WakeUp, PutReleased, PutFull
<1>7. ASSUME NEW p \in Pools, NewChannelPool(p) PROVE Leases!Next
  <2>1. PICK S \in SUBSET (Handles \ Connected) : open' = [open EXCEPT ![p] = S]
    BY <1>7 DEF NewChannelPool
  <2>2. open[p] = {} /\ open'[p] = S /\ \A q \in Pools \ {p} : open'[q] = open[q]
    BY <2>1, <1>7 DEF NewChannelPool, Custody, TypeOK
  <2>3. Connected' = Connected \cup S
    BY <2>2, ConnectedByPool
  <2>4. \A h \in S : Leases!Free(h)
    BY HolderInPool DEF Leases!Free, Custody, Usable
  <2>5. Leases!Connect(S)
    BY <2>3, <2>4, <1>7 DEF Leases!Connect, NewChannelPool
  <2> QED
    BY <2>5 DEF Leases!Next
<1>8. ASSUME NEW p \in Pools, Drain(p) PROVE Leases!Next
  <2>1. PICK h \in conns[p] : open' = [q \in Pools |-> open[q] \ {h}]
    BY <1>8 DEF Drain
  <2>2. h \in Connected /\ h \in Handles /\ Leases!Free(h)
    BY DEF TypeOK, Custody, Exclusive, Usable, Leases!Free
  <2>3. Connected' = Connected \ {h}
    BY <2>1, ConnectedByPool
  <2>4. Leases!DisconnectFree(h)
    BY <2>2, <2>3, <1>8 DEF Leases!DisconnectFree, Drain
  <2> QED
    BY <2>2, <2>4 DEF Leases!Next
<1>9. ASSUME NEW c \in Clients, Receive(c) PROVE Leases!Next
  <2>1. PICK h \in conns[pl[c]] : hand' = [hand EXCEPT ![c] = h]
    BY <1>9 DEF Receive
  <2>2. pl[c] \in Pools /\ hand[c] = None /\ UNCHANGED open
    BY <1>9 DEF Receive, TypeOK, Holding
  <2>3. h \in Connected /\ h \in Handles /\ Leases!Free(h)
    BY <2>2 DEF TypeOK, Custody, Exclusive, Usable, Leases!Free
  <2>4. Leases!Grant(c, h)
    BY <2>1, <2>2, <2>3 DEF Leases!Grant, Connected
  <2> QED
    BY <2>3, <2>4 DEF Leases!Next
<1>10. ASSUME NEW c \in Clients, Open(c) PROVE Leases!Next
  <2>1. PICK h \in Handles \ Connected : /\ open' = [open EXCEPT ![pl[c]] = @ \cup {h}]
                                         /\ hand' = [hand EXCEPT ![c] = h]
    BY <1>10 DEF Open
  <2>2. pl[c] \in Pools /\ hand[c] = None
    BY <1>10 DEF Open, TypeOK, Holding
  <2>3. open'[pl[c]] = open[pl[c]] \cup {h} /\ \A q \in Pools \ {pl[c]} : open'[q] = open[q]
    BY <2>1, <2>2 DEF TypeOK
  <2>4. Connected' = Connected \cup {h}
    BY <2>2, <2>3, ConnectedByPool
  <2>5. Leases!ConnectFor(c, h)
    BY <2>1, <2>2, <2>4 DEF Leases!ConnectFor
  <2> QED
    BY <2>5 DEF Leases!Next
<1>11. ASSUME NEW c \in Clients, PutHandOver(c) PROVE Leases!Next
  <2> DEFINE w == Head(connReqs[pl[c]])
  <2>1. w \in Clients /\ pc[w] = "wait"
    <3>1. pl[c] \in Pools /\ connReqs[pl[c]] \in Seq(Clients) /\ connReqs[pl[c]] # <<>>
      BY <1>11 DEF PutHandOver, TypeOK
    <3>2. w = connReqs[pl[c]][1] /\ w \in Clients /\ 1 \in DOMAIN connReqs[pl[c]]
      BY <3>1, HeadTailProperties
    <3> QED
      BY <3>1, <3>2 DEF QueueIsExact
  <2>2. hand' = [hand EXCEPT ![c] = None, ![w] = hand[c]] /\ UNCHANGED open
    BY <1>11 DEF PutHandOver
  <2>3. hand[c] # None /\ hand[w] = None
    BY <2>1, <1>11 DEF PutHandOver, TypeOK, Holding
  <2> HIDE DEF w
  <2>4. Leases!HandOver(c, w)
    BY <2>2, <2>3 DEF Leases!HandOver, Connected
  <2> QED
    BY <2>1, <2>4 DEF Leases!Next
<1>12. ASSUME NEW c \in Clients, PutIdle(c) PROVE Leases!Next
  <2>1. hand[c] # None
    BY <1>12 DEF PutIdle, TypeOK, Holding
  <2>2. Leases!GiveBack(c)
    BY <2>1, <1>12 DEF Leases!GiveBack, PutIdle, Connected
  <2> QED
    BY <2>2 DEF Leases!Next
<1>13. ASSUME NEW c \in Clients, Close(c) PROVE Leases!Next
  <2>1. hand[c] # None /\ hand' = [hand EXCEPT ![c] = None]
    BY <1>13 DEF Close, TypeOK, Holding
  <2>2. CASE UNCHANGED open
    <3>1. Leases!GiveBack(c)
      BY <2>1, <2>2 DEF Leases!GiveBack, Connected
    <3> QED
      BY <3>1 DEF Leases!Next
  <2>3. CASE open' = [q \in Pools |-> open[q] \ {hand[c]}]
    <3>1. Connected' = Connected \ {hand[c]}
      BY <2>3, ConnectedByPool
    <3>2. Leases!Disconnect(c)
      BY <2>1, <3>1 DEF Leases!Disconnect
    <3> QED
      BY <3>2 DEF Leases!Next
  <2> QED
    BY <2>2, <2>3, <1>13 DEF Close
<1> QED
  BY <1>1, <1>2, <1>3, <1>4, <1>5, <1>6, <1>7, <1>8, <1>9, <1>10, <1>11, <1>12, <1>13
     DEF AnyNext, Next, PoolStep, ClientStep, ReleaseStep

\* Every behaviour of the pools is a behaviour of HandleLeases.
THEOREM PoolImplementsLeases == Spec => ImplementsLeases
<1>1. Init => Leases!Init
  BY DEF Init, Leases!Init, Connected
<1> QED
  BY <1>1, TypeAndQueue, OwnershipCorrect, OwnershipIsCustody, NextIsAny, LeaseStep, PTL
     DEF Spec, ImplementsLeases, Leases!Spec

-----------------------------------------------------------------------------
(* Pools that have been released.                                          *)

\* What a pool may do that is not in use: no connection enters it and none is
\* opened for it.
Shrinks(p) == /\ state'[p] = "closed" \/ state'[p] = state[p]
              /\ conns'[p] \subseteq conns[p]
              /\ open'[p] \subseteq open[p]

LEMMA ReleasedShrinks ==
  ASSUME TypeOK, [AnyNext]_poolVars, NEW p \in Pools, state[p] \in {"released", "closed"}
  PROVE  Shrinks(p)
<1> USE DEF Shrinks
<1>1. CASE UNCHANGED poolVars
  BY <1>1 DEF poolVars
<1>2. ASSUME NEW q \in Pools, NewChannelPool(q) PROVE Shrinks(p)
  <2>1. q # p
    BY <1>2 DEF NewChannelPool
  <2> QED
    BY <1>2, <2>1 DEF NewChannelPool, TypeOK
<1>3. ASSUME NEW q \in Pools, Release(q) \/ CloseConns(q) PROVE Shrinks(p)
  BY <1>3 DEF Release, CloseConns, TypeOK
<1>4. ASSUME NEW q \in Pools, Drain(q) PROVE Shrinks(p)
  BY <1>4 DEF Drain, TypeOK
<1>5. ASSUME NEW c \in Clients, ClientStep(c) \/ \E q \in Pools : CallGet(c, q) PROVE Shrinks(p)
  BY <1>5 DEF ClientStep, GiveUp, CallPut, CallClose, CallGet
<1>6. ASSUME NEW c \in Clients, GetConns(c) \/ ReceiveClosed(c) \/ Miss(c) \/ Enqueue(c)
      PROVE  Shrinks(p)
  BY <1>6 DEF GetConns, ReceiveClosed, Miss, Enqueue
<1>7. ASSUME NEW c \in Clients, OpenFails(c) \/ WakeUp(c) \/ PutReleased(c) \/ PutFull(c)
      PROVE  Shrinks(p)
  BY <1>7 DEF OpenFails, WakeUp, PutReleased, PutFull
<1>8. ASSUME NEW c \in Clients, Receive(c) PROVE Shrinks(p)
  BY <1>8 DEF Receive, TypeOK
<1>9. ASSUME NEW c \in Clients, Open(c) PROVE Shrinks(p)
  <2>1. pl[c] # p
    BY <1>9 DEF Open
  <2> QED
    BY <1>9, <2>1 DEF Open, TypeOK
<1>10. ASSUME NEW c \in Clients, PutHandOver(c) PROVE Shrinks(p)
  BY <1>10 DEF PutHandOver
<1>11. ASSUME NEW c \in Clients, PutIdle(c) PROVE Shrinks(p)
  <2>1. pl[c] # p
    BY <1>11 DEF PutIdle
  <2> QED
    BY <1>11, <2>1 DEF PutIdle, TypeOK
<1>12. ASSUME NEW c \in Clients, Close(c) PROVE Shrinks(p)
  BY <1>12 DEF Close
<1> QED
  BY <1>1, <1>2, <1>3, <1>4, <1>5, <1>6, <1>7, <1>8, <1>9, <1>10, <1>11, <1>12
     DEF AnyNext, Next, PoolStep, ClientStep, ReleaseStep

\* A Put that was under way when Release ran does not refill the pool, and a Get
\* opens nothing for it: what is left to empty a released pool is to drain it.
THEOREM ReleasedOnlyShrinksCorrect == Spec => ReleasedOnlyShrinks
<1>1. TypeOK /\ [Next]_poolVars =>
        [ \A p \in Pools : state[p] \in {"released", "closed"} =>
            /\ state'[p] = "closed" \/ state'[p] = state[p]
            /\ conns'[p] \subseteq conns[p]
            /\ open'[p] \subseteq open[p] ]_poolVars
  BY ReleasedShrinks, NextIsAny DEF Shrinks
<1> QED
  BY <1>1, TypeCorrect, PTL DEF Spec, ReleasedOnlyShrinks

\* A parked client leaves only when it is handed a connection.
StaysParked(c) == pc'[c] = "wait" /\ pl'[c] = pl[c]

LEMMA OnlyHandOverWakes ==
  ASSUME TypeOK, QueueIsExact, [AnyNext]_poolVars, NEW c \in Clients, pc[c] = "wait",
         state[pl[c]] \in {"released", "closed"}
  PROVE  StaysParked(c)
<1> USE DEF StaysParked
<1>1. CASE UNCHANGED poolVars
  BY <1>1 DEF poolVars
<1>2. ASSUME NEW p \in Pools, NewChannelPool(p) \/ Release(p) \/ ReleaseStep(p)
      PROVE  StaysParked(c)
  BY <1>2 DEF NewChannelPool, Release, ReleaseStep, CloseConns, Drain
<1>3. ASSUME NEW d \in Clients, ClientStep(d) \/ \E p \in Pools : CallGet(d, p)
      PROVE  StaysParked(c)
  BY <1>3 DEF ClientStep, GiveUp, CallPut, CallClose, CallGet, Goto, TypeOK
<1>4. ASSUME NEW d \in Clients, PutHandOver(d) PROVE StaysParked(c)
  <2> DEFINE w == Head(connReqs[pl[d]])
  <2>1. /\ pl[d] \in Pools /\ connReqs[pl[d]] \in Seq(Clients) /\ connReqs[pl[d]] # <<>>
        /\ state[pl[d]] = "live" /\ pc[d] = "put"
    BY <1>4 DEF PutHandOver, TypeOK
  <2>2. w = connReqs[pl[d]][1] /\ w \in Clients /\ 1 \in DOMAIN connReqs[pl[d]]
    BY <2>1, HeadTailProperties
  <2>3. pl[w] = pl[d]
    BY <2>1, <2>2 DEF QueueIsExact
  <2>4. /\ pc' = [pc EXCEPT ![d] = "out", ![w] = "handed"] /\ pl' = pl /\ w # c /\ d # c
    BY <1>4, <2>1, <2>3 DEF PutHandOver
  <2> HIDE DEF w
  <2> QED
    BY <2>2, <2>4 DEF TypeOK
<1>5. ASSUME NEW d \in Clients, PoolStep(d), ~PutHandOver(d) PROVE StaysParked(c)
  BY <1>5 DEF PoolStep, GetConns, Receive, ReceiveClosed, Miss, Enqueue, Open, OpenFails,
     WakeUp, PutReleased, PutIdle, PutFull, Close, Goto, TypeOK
<1> QED
  BY <1>1, <1>2, <1>3, <1>4, <1>5 DEF AnyNext, Next

\* Release gives up the clients that wait for a connection of the pool: none of
\* them ever leaves Get again.
THEOREM StrandedForGoodCorrect == Spec => StrandedForGood
<1>1. ASSUME TypeOK, QueueIsExact, [Next]_poolVars, NEW c \in Clients, pc[c] = "wait",
             state[pl[c]] \in {"released", "closed"}
      PROVE  pc'[c] = "wait" /\ pl'[c] = pl[c] /\ state'[pl[c]] \in {"released", "closed"}
  <2>1. StaysParked(c)
    BY <1>1, OnlyHandOverWakes, NextIsAny
  <2>2. pl[c] \in Pools
    BY <1>1 DEF TypeOK
  <2>3. Shrinks(pl[c])
    BY <1>1, <2>2, ReleasedShrinks, NextIsAny
  <2> QED
    BY <1>1, <2>1, <2>3 DEF StaysParked, Shrinks
<1>2. TypeOK /\ QueueIsExact /\ [Next]_poolVars =>
        [ \A c \in Clients : pc[c] = "wait" /\ state[pl[c]] \in {"released", "closed"} =>
            /\ pc'[c] = "wait"
            /\ pl'[c] = pl[c]
            /\ state'[pl[c]] \in {"released", "closed"} ]_poolVars
  BY <1>1
<1> QED
  BY <1>2, TypeAndQueue, PTL DEF Spec, StrandedForGood
=============================================================================
