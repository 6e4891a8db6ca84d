---------------------------- MODULE HandleCache -----------------------------
(***************************************************************************)
(* The handlers of restapi/configure_qdb_api_rest.go around the connection *)
(* pools: handleCache maps a user name to the user's pool; Login replaces  *)
(* it, the authenticators create it when it is missing and drop it when a  *)
(* token has expired, and every handler looks it up once to get a handle   *)
(* and once more to give the handle back.                                  *)
(*                                                                         *)
(* The two sides do not use the same key.  LoginHandler and the            *)
(* authenticators use the user name; the handlers take the principal, the  *)
(* user name and the secret key with a colon between them, apart at its    *)
(* colons and use the first part.  For a user name that contains a colon   *)
(* that is the name of another user: Before.                               *)
(*                                                                         *)
(* A client is a request slot: one goroutine of net/http, which serves     *)
(* requests one after another.  Every access to the concurrent map and     *)
(* every critical section of a pool is an action.                          *)
(***************************************************************************)
EXTENDS ConnectionPool

CONSTANTS
    Users,      \* user names
    Before,     \* a user name up to its first colon: the name itself if it has none
    Kinds,      \* the requests that arrive: a subset of RequestKinds
    NoEntry,    \* the key is not in the cache
    Nil         \* the key is in the cache, with a nil value

\* "query" stands for the handlers of queries, tags, options and the cluster,
\* which handle their connection in the same way.
RequestKinds == {"login", "query", "node", "csv"}

\* What may go wrong besides FaultKinds.
HandlerFaults == {"rejected",   \* a request carries no valid token
                  "expired",    \* a request carries an expired token
                  "missing"}    \* GetNode is asked for a node that is not there

ASSUME CacheAssumption ==
    /\ PoolSize > 0
    /\ NoEntry # Nil
    /\ {NoEntry, Nil} \cap Pools = {}
    /\ None \notin Users \cup RequestKinds
    /\ Before \in [Users -> Users]
    /\ \A u \in Users : Before[Before[u]] = Before[u]
    /\ Kinds \subseteq RequestKinds

VARIABLES
    cache,      \* handleCache
    owner,      \* the user whose credentials a pool connects with
    stage,      \* how far a request has got
    kind,       \* its kind
    user,       \* its user
    old,        \* LoginHandler's oldPool
    panicked,   \* the slots whose request is ending in a panic
    stream      \* the handle that the goroutine of a CSV export uses

handlerVars == <<cache, owner, stage, kind, user, old, panicked, stream>>
vars == <<poolVars, handlerVars>>

Stages == {"none",                                  \* no request
           "auth", "create", "lookup", "pool",      \* up to the handle
           "close", "return",                       \* giving it back
           "login", "replace", "release", "drain"}  \* LoginHandler

CacheTypeOK ==
    /\ TypeOK
    /\ cache \in [Users -> Pools \cup {NoEntry, Nil}]
    /\ owner \in [Pools -> Users \cup {None}]
    /\ stage \in [Clients -> Stages]
    /\ kind \in [Clients -> RequestKinds \cup {None}]
    /\ user \in [Clients -> Users \cup {None}]
    /\ old \in [Clients -> Pools \cup {NoEntry, Nil}]
    /\ panicked \in SUBSET Clients
    /\ stream \in [Clients -> Handles \cup {None}]
    \* a request is inside a call of a pool only where its handler is
    /\ \A c \in Clients : stage[c] \notin {"pool", "close", "return"} => pc[c] = "out"

CacheInit ==
    /\ Init
    /\ cache = [u \in Users |-> NoEntry]
    /\ owner = [p \in Pools |-> None]
    /\ stage = [c \in Clients |-> "none"]
    /\ kind = [c \in Clients |-> None]
    /\ user = [c \in Clients |-> None]
    /\ old = [c \in Clients |-> NoEntry]
    /\ panicked = {}
    /\ stream = [c \in Clients |-> None]

At(c, s) == stage[c] = s
Proceed(c, s) == stage' = [stage EXCEPT ![c] = s]

\* The request is answered: the variables of its handler are gone.
Finish(c) == /\ Proceed(c, "none")
             /\ kind' = [kind EXCEPT ![c] = None]
             /\ user' = [user EXCEPT ![c] = None]
             /\ old' = [old EXCEPT ![c] = NoEntry]

\* The cache entry of the request's user, for LoginHandler and the authenticators.
Entry(c) == cache[user[c]]

\* What the handlers find, with the first part of the principal for a key.
Found(c) == cache[Before[user[c]]]

\* Mutated SetEntry: the cache is not keyed by the user.
SetEntry_Shared(c, e) == cache' = [u \in Users |-> e]

SetEntry(c, e) == cache' = [cache EXCEPT ![user[c]] = e]

-----------------------------------------------------------------------------
(* Arrival and authentication.                                             *)

Arrive(c, k, u) ==
    /\ At(c, "none")
    /\ stream[c] = None
    /\ Proceed(c, IF k = "login" THEN "login" ELSE "auth")
    /\ kind' = [kind EXCEPT ![c] = k]
    /\ user' = [user EXCEPT ![c] = u]
    /\ UNCHANGED <<poolVars, cache, owner, old, panicked, stream>>

\* BearerAuth and URLParamAuth: the token does not parse or is not valid yet.
AuthRejects(c) ==
    /\ At(c, "auth")
    /\ "rejected" \in Faults
    /\ Finish(c)
    /\ UNCHANGED <<poolVars, cache, owner, panicked, stream>>

\* The token has expired: RemoveFromCache pops the entry.  The popped value is
\* a pool, not the handle that the type assertion expects: nothing is closed.
AuthExpires(c) ==
    /\ At(c, "auth")
    /\ "expired" \in Faults
    /\ SetEntry(c, NoEntry)
    /\ Finish(c)
    /\ UNCHANGED <<poolVars, owner, panicked, stream>>

\* The token is valid: the authenticator asks whether the user has an entry.
AuthLooksUp(c) ==
    /\ At(c, "auth")
    /\ Proceed(c, IF Entry(c) = NoEntry THEN "create" ELSE "lookup")
    /\ UNCHANGED <<poolVars, cache, owner, kind, user, old, panicked, stream>>

\* CreatePool succeeds and its pool is cached.  Its Get and Put find one of the
\* PoolSize connections of a pool nobody else sees yet and leave it there.
Create(c, p) ==
    /\ NewChannelPool(p)
    /\ owner' = [owner EXCEPT ![p] = user[c]]
    /\ SetEntry(c, p)
    /\ UNCHANGED panicked

\* CreatePool fails, perhaps because the cluster has no connection left:
\* NewChannelPool's error is only logged, and the Get that follows is called on a
\* nil Pool.
CreateFails(c) ==
    /\ \/ "connect" \in Faults
       \/ Cardinality(Handles \ Connected) < PoolSize
    /\ Proceed(c, "return")
    /\ panicked' = panicked \cup {c}
    /\ UNCHANGED <<poolVars, cache, owner, kind, user, old>>

AuthCreates(c) ==
    /\ At(c, "create")
    /\ \/ /\ \E p \in Pools : Create(c, p)
          /\ Proceed(c, "lookup")
          /\ UNCHANGED <<kind, user, old>>
       \/ CreateFails(c)
    /\ UNCHANGED stream

-----------------------------------------------------------------------------
(* LoginHandler.                                                           *)

\* The pool the user has so far is remembered.
LoginRemembers(c) ==
    /\ At(c, "login")
    /\ old' = [old EXCEPT ![c] = Entry(c)]
    /\ Proceed(c, "replace")
    /\ UNCHANGED <<poolVars, cache, owner, kind, user, panicked, stream>>

\* Mutated LoginReplaces: the login ends without releasing the old pool.
LoginReplaces_Forgets(c) ==
    /\ At(c, "replace")
    /\ \/ \E p \in Pools : Create(c, p) /\ Finish(c)
       \/ CreateFails(c)
    /\ UNCHANGED stream

\* A new pool takes its place.
LoginReplaces(c) ==
    /\ At(c, "replace")
    /\ \/ /\ \E p \in Pools : Create(c, p)
          /\ IF old[c] \in Pools THEN Proceed(c, "release") /\ UNCHANGED <<kind, user, old>>
                                 ELSE Finish(c)
       \/ CreateFails(c)
    /\ UNCHANGED stream

\* Mutated LoginReleases: what the cache holds now is released.
LoginReleases_Current(c) ==
    /\ At(c, "release")
    /\ Entry(c) \in Pools
    /\ Release(Entry(c)) /\ Proceed(c, "drain") /\ UNCHANGED <<kind, user, old>>
    /\ UNCHANGED <<cache, owner, panicked, stream>>

\* The old pool is released, by the first login that gets here.
LoginReleases(c) ==
    /\ At(c, "release")
    /\ \/ Release(old[c]) /\ Proceed(c, "drain") /\ UNCHANGED <<kind, user, old>>
       \/ state[old[c]] # "live" /\ Finish(c) /\ UNCHANGED poolVars
    /\ UNCHANGED <<cache, owner, panicked, stream>>

LoginDrains(c) ==
    /\ At(c, "drain")
    /\ CloseConns(old[c]) \/ Drain(old[c])
    /\ UNCHANGED handlerVars

LoginEnds(c) ==
    /\ At(c, "drain")
    /\ state[old[c]] = "closed"
    /\ conns[old[c]] = {}
    /\ Finish(c)
    /\ UNCHANGED <<poolVars, cache, owner, panicked, stream>>

-----------------------------------------------------------------------------
(* Getting a handle, using it and giving it back.                          *)

\* Mutated GetHandle: whatever the cache holds is taken for a pool.
GetHandle_NoTypeCheck(c) ==
    /\ At(c, "lookup")
    /\ Found(c) # NoEntry
    /\ Goto(c, "get")
    /\ pl' = [pl EXCEPT ![c] = Found(c)]
    /\ Proceed(c, "pool")
    /\ UNCHANGED <<state, conns, openingConns, connReqs, open, hand>>
    /\ UNCHANGED <<cache, owner, kind, user, old, panicked, stream>>

\* GetHandle finds a pool and calls Get.
GetHandle(c) ==
    /\ At(c, "lookup")
    /\ Found(c) \in Pools
    /\ Goto(c, "get")
    /\ pl' = [pl EXCEPT ![c] = Found(c)]
    /\ Proceed(c, "pool")
    /\ UNCHANGED <<state, conns, openingConns, connReqs, open, hand>>
    /\ UNCHANGED <<cache, owner, kind, user, old, panicked, stream>>

\* GetHandle finds no pool, or Get returns an error: the request fails.
GetHandleFails(c) ==
    /\ \/ At(c, "lookup") /\ Found(c) \notin Pools
       \/ At(c, "pool") /\ pc[c] = "failed"
    /\ Goto(c, "out")
    /\ pl' = [pl EXCEPT ![c] = None]
    /\ Finish(c)
    /\ UNCHANGED <<state, conns, openingConns, connReqs, open, hand>>
    /\ UNCHANGED <<cache, owner, panicked, stream>>

\* PutHandle and CloseHandle look the pool up again and call Put or Close on
\* whatever they find.  If it is not a pool, they return an error that
\* the deferred call drops, and nobody refers to the handle any more.
GiveHandleTo(c, place) ==
    /\ IF Found(c) \in Pools
         THEN /\ pl' = [pl EXCEPT ![c] = Found(c)]
              /\ Goto(c, place)
              /\ UNCHANGED hand
         ELSE /\ hand' = [hand EXCEPT ![c] = None]
              /\ Goto(c, "out")
              /\ UNCHANGED pl
    /\ Proceed(c, "return")
    /\ UNCHANGED <<state, conns, openingConns, connReqs, open, cache, owner, kind, user, old>>

PutHandle(c) == GiveHandleTo(c, "put")
CloseHandle(c) == GiveHandleTo(c, "close")

\* The request has its handle and nothing has been done with it yet.
HasHandle(c) == At(c, "pool") /\ pc[c] = "got"

\* The operation succeeds.  The CSV handler has started the goroutine that goes
\* on reading from the table, hence from the handle, after the handler returns.
OperationSucceeds(c) ==
    /\ HasHandle(c)
    /\ PutHandle(c)
    /\ stream' = [stream EXCEPT ![c] = IF kind[c] = "csv" THEN hand[c] ELSE None]
    /\ UNCHANGED panicked

\* The operation fails.
OperationFails(c) ==
    /\ HasHandle(c)
    /\ kind[c] # "node"
    /\ "error" \in Faults
    /\ CloseHandle(c)
    /\ UNCHANGED <<panicked, stream>>

\* GetNode cannot reach the cluster: RemoveHandleFromCache sets the entry to
\* nil, the one that the handlers look up, then the deferred CloseHandle runs.
NodeFails(c) ==
    /\ HasHandle(c)
    /\ kind[c] = "node"
    /\ "error" \in Faults
    /\ cache' = [cache EXCEPT ![Before[user[c]]] = Nil]
    /\ Proceed(c, "close")
    /\ UNCHANGED <<poolVars, owner, kind, user, old, panicked, stream>>

NodeCloses(c) ==
    /\ At(c, "close")
    /\ CloseHandle(c)
    /\ UNCHANGED <<panicked, stream>>

\* GetNode is asked for a node the cluster does not have: err is nil where the
\* log message reads it, and the deferred CloseHandle runs during the panic.
NodeMissing(c) ==
    /\ HasHandle(c)
    /\ kind[c] = "node"
    /\ "missing" \in Faults
    /\ CloseHandle(c)
    /\ panicked' = panicked \cup {c}
    /\ UNCHANGED stream

\* The deferred call has returned and the response is written; or net/http
\* recovers from the panic and closes the connection.
Respond(c) ==
    /\ At(c, "return")
    /\ pc[c] = "out"
    /\ pl' = [pl EXCEPT ![c] = None]
    /\ Finish(c)
    /\ panicked' = panicked \ {c}
    /\ UNCHANGED <<state, conns, openingConns, connReqs, open, pc, hand>>
    /\ UNCHANGED <<cache, owner, stream>>

\* The CSV export has been read to its end.
StreamEnds(c) ==
    /\ stream[c] # None
    /\ stream' = [stream EXCEPT ![c] = None]
    /\ UNCHANGED <<poolVars, cache, owner, stage, kind, user, old, panicked>>

-----------------------------------------------------------------------------
LoginStep(c) == LoginRemembers(c) \/ LoginReplaces(c) \/ LoginReleases(c)
                \/ LoginDrains(c) \/ LoginEnds(c)

RequestStep(c) ==
    \/ AuthRejects(c) \/ AuthExpires(c) \/ AuthLooksUp(c) \/ AuthCreates(c)
    \/ GetHandle(c) \/ GetHandleFails(c)
    \/ OperationSucceeds(c) \/ OperationFails(c)
    \/ NodeFails(c) \/ NodeCloses(c) \/ NodeMissing(c)
    \/ Respond(c) \/ StreamEnds(c)

InPool(c) == PoolStep(c) /\ UNCHANGED handlerVars

CacheNext ==
    \/ \E c \in Clients, k \in Kinds, u \in Users : Arrive(c, k, u)
    \/ \E c \in Clients : LoginStep(c) \/ RequestStep(c) \/ InPool(c)

CacheSpec == CacheInit /\ [][CacheNext]_vars

-----------------------------------------------------------------------------
(* Safety.                                                                 *)

\* The cache never offers a pool that has been released: a login releases the
\* pool it replaced, never the one that a concurrent login has just installed.
CachedPoolIsLive == \A u \in Users : cache[u] \in Pools => state[cache[u]] = "live"

\* A request works with a connection of the user whose name its own has before
\* the first colon, its own user unless the name contains one, and a pool holds
\* idle connections of its own user only, although a handle may be put into
\* another pool than it came from.
UserIsolation ==
    \A p, q \in Pools :
        /\ \A c \in Clients : hand[c] \in open[p] => owner[p] = Before[user[c]]
        /\ conns[q] \cap open[p] # {} => owner[p] = owner[q]

\* The handlers with their pools implement the leases of AccountLeases: a handle
\* belongs to the user of the pool that opened it, whatever pool it is put into,
\* and is leased to the requests that look for that user's pool.
Account(h) == IF h \in Connected THEN owner[CHOOSE p \in Pools : h \in open[p]] ELSE None

Accounts == INSTANCE AccountLeases
            WITH connected <- Connected, held <- hand,
                 account <- [h \in Handles |-> Account(h)], client <- user,
                 AccountOf <- Before
ImplementsAccounts == Accounts!AccountSpec

\* A live pool is an orphan when it is neither in the cache nor about to be
\* released by the login that replaced it: its connections stay open for ever.
Orphan(p) ==
    /\ state[p] = "live"
    /\ \A u \in Users : cache[u] # p
    /\ \A c \in Clients : old[c] # p \/ stage[c] \notin {"replace", "release"}

\* There is none.  The handlers break this: see the run cache_orphan.
NoOrphanPool == \A p \in Pools : ~Orphan(p)

\* How a request c orphans pool p: it takes p out of the cache because its token
\* has expired, because it has made a pool although another request had made p
\* meanwhile, because a node has failed, or as a login that had looked before p
\* was there; or it is a login that remembered p and fails, while another request
\* has taken p out of the cache.
Orphans(c, p) ==
    \/ /\ \/ stage[c] \in {"auth", "create"}
          \/ stage[c] = "replace" /\ old[c] # p
       /\ Entry(c) = p
       /\ cache'[user[c]] # p
    \/ /\ kind[c] = "node"
       /\ Found(c) = p
       /\ cache'[Before[user[c]]] # p
    \/ /\ stage[c] = "replace" /\ old[c] = p /\ Entry(c) # p
       /\ c \in panicked'

\* There are no other ways: a login that nothing interferes with orphans no pool,
\* nor does a request that succeeds.
OrphansHaveCauses ==
    [][\A p \in Pools : ~Orphan(p) /\ Orphan(p)' => \E c \in Clients : Orphans(c, p)]_vars

\* A connection is within reach as long as it is idle in a pool or in use.
InReach(h) == \/ \E p \in Pools : h \in conns[p]
              \/ \E c \in Clients : hand[c] = h

\* No step leaves a connection open that nobody can reach any more, except where
\* the code gives up: a request closes its connection, but its pool has been
\* released and has no close function any more; or it wants to give it back, but
\* the pool it looks for is gone.
LeaksHaveCauses ==
    [][ \A h \in Handles :
          h \in Connected /\ InReach(h) /\ h \in Connected' /\ ~InReach(h)' =>
            \E c \in Clients : /\ hand[c] = h
                              /\ \/ pc[c] \in {"close", "expired"} /\ state[pl[c]] # "live"
                                 \/ pc[c] = "got" /\ Found(c) \notin Pools ]_vars

\* While an export reads from its handle nobody else has the handle, and the
\* handle is not closed: see the run cache_csv.
StreamOwnsHandle ==
    \A c \in Clients : stream[c] # None =>
        /\ stream[c] \in Connected
        /\ \A d \in Clients \ {c} : hand[d] # stream[c]
=============================================================================
