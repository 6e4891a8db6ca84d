-------------------------- MODULE HandleCacheProofs --------------------------
(***************************************************************************)
(* What TLAPS proves of HandleCache, for any number of users, request      *)
(* slots, pools and connections.                                           *)
(***************************************************************************)
EXTENDS HandleCache, TLAPS

\* The part of CacheTypeOK that the argument needs.
EntryTypes ==
    /\ state \in [Pools -> States]
    /\ cache \in [Users -> Pools \cup {NoEntry, Nil}]
    /\ owner \in [Pools -> Users \cup {None}]
    /\ stage \in [Clients -> Stages]
    /\ user \in [Clients -> Users \cup {None}]
    /\ old \in [Clients -> Pools \cup {NoEntry, Nil}]
    /\ \A c \in Clients : stage[c] # "none" => user[c] \in Users

\* Why a cached pool stays live: it belongs to the user it is cached for, and
\* the pool a login is about to release has left the cache for good, because
\* only newly created pools enter it.
EntryInv ==
    /\ CachedPoolIsLive
    /\ \A u \in Users : cache[u] \in Pools => owner[cache[u]] = u
    /\ \A c \in Clients : old[c] \in Pools => /\ stage[c] # "none"
                                              /\ state[old[c]] # "none"
                                              /\ owner[old[c]] = user[c]
    /\ \A c \in Clients : stage[c] \in {"release", "drain"} =>
           /\ old[c] \in Pools
           /\ \A u \in Users : cache[u] # old[c]

IndInv == EntryTypes /\ EntryInv

\* Steps that touch neither the cache nor the life of a pool nor a login.
LEMMA EntryKept ==
  ASSUME IndInv, UNCHANGED <<state, cache, owner, stage, user, old>>
  PROVE  IndInv'
BY DEF IndInv, EntryTypes, EntryInv, CachedPoolIsLive

\* Steps of a request that is no login and goes on.
LEMMA EntryProceeds ==
  ASSUME IndInv, NEW c \in Clients, NEW s \in Stages \ {"none", "release", "drain"},
         stage[c] # "none", Proceed(c, s), UNCHANGED <<state, cache, owner, user, old>>
  PROVE  IndInv'
BY DEF IndInv, EntryTypes, EntryInv, CachedPoolIsLive, Proceed

\* Steps that end a request and leave the cache alone.
LEMMA EntryFinishes ==
  ASSUME IndInv, NEW c \in Clients, Finish(c), UNCHANGED <<state, cache, owner>>
  PROVE  IndInv'
BY CacheAssumption DEF IndInv, EntryTypes, EntryInv, CachedPoolIsLive, Finish, Proceed, Stages

\* The steps inside a pool neither release a pool nor touch the handlers.
LEMMA PoolStepKeepsState ==
  ASSUME NEW c \in Clients, PoolStep(c)
  PROVE  UNCHANGED state
BY DEF PoolStep, GetConns, Receive, ReceiveClosed, Miss, Enqueue, Open, OpenFails, WakeUp,
       PutReleased, PutHandOver, PutIdle, PutFull, Close

LEMMA IndInvNext == IndInv /\ [CacheNext]_vars => IndInv'
<1> SUFFICES ASSUME IndInv, [CacheNext]_vars PROVE IndInv'
  OBVIOUS
<1> USE PoolAssumption, CacheAssumption
<1>1. CASE UNCHANGED vars
  BY <1>1, EntryKept DEF vars, poolVars, handlerVars
<1>2. ASSUME NEW c \in Clients, NEW k \in Kinds, NEW u \in Users, Arrive(c, k, u)
      PROVE  IndInv'
  BY <1>2 DEF Arrive, At, Proceed, IndInv, EntryTypes, EntryInv, CachedPoolIsLive,
              Stages, poolVars
<1>3. ASSUME NEW c \in Clients, AuthRejects(c) PROVE IndInv'
  BY <1>3, EntryFinishes DEF AuthRejects, poolVars
<1>4. ASSUME NEW c \in Clients, AuthExpires(c) PROVE IndInv'
  BY <1>4 DEF AuthExpires, At, Finish, Proceed, SetEntry, IndInv, EntryTypes, EntryInv,
              CachedPoolIsLive, Stages, poolVars
<1>5. ASSUME NEW c \in Clients, AuthLooksUp(c) PROVE IndInv'
  BY <1>5, EntryProceeds DEF AuthLooksUp, At, Stages, poolVars
<1>6. ASSUME NEW c \in Clients, At(c, "create") \/ At(c, "replace"), CreateFails(c)
      PROVE  IndInv'
  BY <1>6, EntryProceeds DEF CreateFails, At, Stages, poolVars
<1>7. ASSUME NEW c \in Clients, AuthCreates(c) PROVE IndInv'
  <2>1. ASSUME NEW p \in Pools, Create(c, p), Proceed(c, "lookup"),
               UNCHANGED <<kind, user, old>>, At(c, "create")
        PROVE  IndInv'
    BY <2>1 DEF Create, NewChannelPool, At, Proceed, SetEntry, IndInv, EntryTypes, EntryInv,
                CachedPoolIsLive, Stages, States
  <2> QED
    BY <1>7, <1>6, <2>1 DEF AuthCreates
<1>8. ASSUME NEW c \in Clients, LoginRemembers(c) PROVE IndInv'
  <2>1. /\ stage[c] = "login" /\ stage' = [stage EXCEPT ![c] = "replace"]
        /\ old' = [old EXCEPT ![c] = cache[user[c]]]
        /\ UNCHANGED <<state, cache, owner, user>>
    BY <1>8 DEF LoginRemembers, At, Proceed, Entry, poolVars
  <2>2. user[c] \in Users /\ cache[user[c]] \in Pools \cup {NoEntry, Nil}
    BY <2>1 DEF IndInv, EntryTypes
  <2>3. cache[user[c]] \in Pools => /\ state[cache[user[c]]] = "live"
                                    /\ owner[cache[user[c]]] = user[c]
    BY <2>2 DEF IndInv, EntryInv, CachedPoolIsLive
  <2> QED
    BY <2>1, <2>2, <2>3 DEF IndInv, EntryTypes, EntryInv, CachedPoolIsLive, Stages
<1>9. ASSUME NEW c \in Clients, LoginReplaces(c) PROVE IndInv'
  <2>1. ASSUME NEW p \in Pools, Create(c, p), At(c, "replace"), old[c] \in Pools,
               Proceed(c, "release"), UNCHANGED <<kind, user, old>>
        PROVE  IndInv'
    <3>1. /\ state[p] = "none" /\ state' = [state EXCEPT ![p] = "live"]
          /\ owner' = [owner EXCEPT ![p] = user[c]]
          /\ cache' = [cache EXCEPT ![user[c]] = p]
          /\ stage' = [stage EXCEPT ![c] = "release"]
          /\ user[c] \in Users
      BY <2>1 DEF Create, NewChannelPool, SetEntry, Proceed, At, IndInv, EntryTypes
    <3>2. /\ \A u \in Users : cache[u] # p
          /\ \A d \in Clients : old[d] # p
      BY <3>1, <2>1 DEF IndInv, EntryInv, CachedPoolIsLive
    <3>3. \A u \in Users : cache'[u] # old[c]
      BY <3>1, <3>2, <2>1 DEF IndInv, EntryTypes, EntryInv
    <3>4. EntryTypes'
      BY <2>1, <3>1 DEF IndInv, EntryTypes, Stages, States
    <3>5. /\ CachedPoolIsLive'
          /\ \A u \in Users : cache'[u] \in Pools => owner'[cache'[u]] = u
      BY <3>1, <3>2 DEF IndInv, EntryTypes, EntryInv, CachedPoolIsLive
    <3>6. \A d \in Clients : old'[d] \in Pools => /\ stage'[d] # "none"
                                                  /\ state'[old'[d]] # "none"
                                                  /\ owner'[old'[d]] = user'[d]
      BY <2>1, <3>1, <3>2 DEF IndInv, EntryTypes, EntryInv
    <3>7. \A d \in Clients : stage'[d] \in {"release", "drain"} =>
              old'[d] \in Pools /\ \A u \in Users : cache'[u] # old'[d]
      BY <2>1, <3>1, <3>2, <3>3 DEF IndInv, EntryTypes, EntryInv
    <3> QED
      BY <3>4, <3>5, <3>6, <3>7 DEF IndInv, EntryInv
  <2>2. ASSUME NEW p \in Pools, Create(c, p), At(c, "replace"), old[c] \notin Pools, Finish(c)
        PROVE  IndInv'
    BY <2>2 DEF Create, NewChannelPool, At, Proceed, Finish, SetEntry, IndInv, EntryTypes,
                EntryInv, CachedPoolIsLive, Stages, States
  <2> QED
    BY <1>9, <1>6, <2>1, <2>2 DEF LoginReplaces
<1>10. ASSUME NEW c \in Clients, LoginReleases(c) PROVE IndInv'
  <2>1. CASE Release(old[c]) /\ Proceed(c, "drain") /\ UNCHANGED <<kind, user, old>>
    BY <2>1, <1>10 DEF LoginReleases, Release, At, Proceed, IndInv, EntryTypes, EntryInv,
                       CachedPoolIsLive, Stages, States
  <2>2. CASE state[old[c]] # "live" /\ Finish(c) /\ UNCHANGED poolVars
    BY <2>2, <1>10, EntryFinishes DEF LoginReleases, poolVars
  <2> QED
    BY <1>10, <2>1, <2>2 DEF LoginReleases
<1>11. ASSUME NEW c \in Clients, LoginDrains(c) PROVE IndInv'
  <2>1. CASE CloseConns(old[c])
    BY <2>1, <1>11 DEF LoginDrains, CloseConns, At, handlerVars, IndInv, EntryTypes, EntryInv,
                       CachedPoolIsLive, States
  <2>2. CASE Drain(old[c])
    BY <2>2, <1>11, EntryKept DEF LoginDrains, Drain, handlerVars
  <2> QED
    BY <1>11, <2>1, <2>2 DEF LoginDrains
<1>12. ASSUME NEW c \in Clients, LoginEnds(c) PROVE IndInv'
  BY <1>12, EntryFinishes DEF LoginEnds, poolVars
<1>13. ASSUME NEW c \in Clients, GetHandle(c) PROVE IndInv'
  BY <1>13, EntryProceeds DEF GetHandle, At, Stages
<1>14. ASSUME NEW c \in Clients, GetHandleFails(c) \/ Respond(c) PROVE IndInv'
  BY <1>14, EntryFinishes DEF GetHandleFails, Respond
<1>15. ASSUME NEW c \in Clients,
              OperationSucceeds(c) \/ OperationFails(c) \/ NodeCloses(c) \/ NodeMissing(c)
       PROVE  IndInv'
  <2>1. stage[c] # "none" /\ Proceed(c, "return") /\ UNCHANGED <<state, cache, owner, user, old>>
    BY <1>15 DEF OperationSucceeds, OperationFails, NodeCloses, NodeMissing, HasHandle, At,
                 PutHandle, CloseHandle, GiveHandleTo
  <2> QED
    BY <2>1, EntryProceeds DEF Stages
<1>16. ASSUME NEW c \in Clients, NodeFails(c) PROVE IndInv'
  BY <1>16 DEF NodeFails, HasHandle, At, Proceed, SetEntry, IndInv, EntryTypes, EntryInv,
               CachedPoolIsLive, Stages, poolVars
<1>17. ASSUME NEW c \in Clients, StreamEnds(c) PROVE IndInv'
  BY <1>17, EntryKept DEF StreamEnds, poolVars
<1>18. ASSUME NEW c \in Clients, InPool(c) PROVE IndInv'
  BY <1>18, EntryKept, PoolStepKeepsState DEF InPool, handlerVars
<1> QED
  BY <1>1, <1>2, <1>3, <1>4, <1>5, <1>7, <1>8, <1>9, <1>10, <1>11, <1>12, <1>13, <1>14,
     <1>15, <1>16, <1>17, <1>18 DEF CacheNext, LoginStep, RequestStep

\* The cache never offers a released pool, whatever logins, expiries and
\* failures interleave.
THEOREM CachedPoolIsLiveCorrect == CacheSpec => []CachedPoolIsLive
<1>1. CacheInit => IndInv
  BY CacheAssumption DEF CacheInit, Init, IndInv, EntryTypes, EntryInv, CachedPoolIsLive,
                         States, Stages
<1>2. IndInv => CachedPoolIsLive
  BY DEF IndInv, EntryInv
<1> QED
  BY <1>1, <1>2, IndInvNext, PTL DEF CacheSpec
=============================================================================
