\* An export and another request of the same user.
CONSTANTS
    Clients = {c1, c2}
    Pools = {p1}
    Handles = {h1, h2}
    Users = {"alice"}
    Before <- MCBefore
    PoolSize = 1
    Kinds = {"csv", "query"}
    Faults = {}
    None = None
    NoEntry = NoEntry
    Nil = Nil
SPECIFICATION CacheSpec
INVARIANT StreamOwnsHandle
CHECK_DEADLOCK FALSE
