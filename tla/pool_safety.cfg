\* Two pools of size 1 (so at most 2 connections each), three clients and four
\* connections, every fault: clients wait, connections go stale, a pool is
\* released under its clients while the other one competes for connections.
CONSTANTS
    Clients = {c1, c2, c3}
    Pools = {p1, p2}
    Handles = {h1, h2, h3, h4}
    PoolSize = 1
    Faults = {"connect", "stale", "error", "release"}
    None = None
SPECIFICATION Spec
SYMMETRY Symmetry
INVARIANTS TypeOK Exclusive Usable CountIsExact WithinMaxActive NothingLost QueueIsExact NeverAllParked
PROPERTY ImplementsLeases
CHECK_DEADLOCK FALSE
