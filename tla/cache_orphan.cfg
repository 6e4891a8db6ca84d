\* A token expires while the user's pool is cached.
CONSTANTS
    Clients = {c1}
    Pools = {p1, p2}
    Handles = {h1, h2, h3}
    Users = {"alice"}
    Before <- MCBefore
    PoolSize = 1
    Kinds = {"query", "login"}
    Faults = {"expired"}
    None = None
    NoEntry = NoEntry
    Nil = Nil
SPECIFICATION CacheSpec
INVARIANT NoOrphanPool
CHECK_DEADLOCK FALSE
