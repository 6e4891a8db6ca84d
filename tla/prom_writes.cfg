\* Three writers and two readers; every call to the cluster may fail, twice in all.
CONSTANTS
    w1 = w1
    w2 = w2
    w3 = w3
    r1 = r1
    r2 = r2
    cpu = cpu
    mem = mem
    Writers <- MCWriters
    Readers <- MCReaders2
    Batch <- MCBatch
    Queries <- MCQueries
    Metrics <- MCMetrics
    Labels <- MCLabels
    Existing <- MCExisting
    Faults = {"setup", "columns", "alter", "push", "query"}
    MaxFaults = 2
    NoMetric = NoMetric
    BadQuery = BadQuery
    NoMatchers = NoMatchers
    Free = Free
SPECIFICATION FairSpec
INVARIANTS TypeOK OneHandle AckedIsStored PushFits
PROPERTY RetriesSucceed
CHECK_DEADLOCK FALSE
