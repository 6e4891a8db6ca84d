\* Requests keep coming, operations and attempts to connect fail, connections go
\* stale and the pool may be released: once failures end nobody waits for ever on a
\* pool in use, and a released pool is emptied.
CONSTANTS
    Clients = {c1, c2, c3}
    Pools = {p1}
    Handles = {h1, h2}
    PoolSize = 1
    Faults = {"error", "connect", "stale", "release"}
    None = None
SPECIFICATION BusySpec
PROPERTIES WaitersServed ReleaseDrains
CHECK_DEADLOCK FALSE
