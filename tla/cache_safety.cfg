\* Three users, one with another's name before a colon in its own, and two request
\* slots: logins, expiries and failed nodes change the cache under requests that
\* hold, await or return handles, and handles change pools, but never accounts.
\* MCOneStranger bounds the requests of the third user.
CONSTANTS
    Clients = {c1, c2}
    Pools = {p1, p2, p3}
    Handles = {h1, h2}
    Users = {"alice", "alice:x", "bob"}
    Before <- MCBefore
    PoolSize = 1
    Kinds = {"login", "csv", "node"}
    Faults = {"rejected", "error", "expired", "missing"}
    None = None
    NoEntry = NoEntry
    Nil = Nil
SPECIFICATION CacheSpec
CONSTRAINT MCOneStranger
SYMMETRY Symmetry
INVARIANTS CacheTypeOK CachedPoolIsLive UserIsolation
PROPERTIES ImplementsAccounts OrphansHaveCauses LeaksHaveCauses
CHECK_DEADLOCK FALSE
