\* Two writers and a reader; one call to SetupHandle may fail.
CONSTANTS
    w1 = w1
    w2 = w2
    w3 = w3
    r1 = r1
    r2 = r2
    cpu = cpu
    mem = mem
    Writers <- MCWriters2
    Readers <- MCReaders
    Batch <- MCBatch2
    Queries <- MCQueries2
    Metrics <- MCMetrics
    Labels <- MCLabels
    Existing <- MCExisting
    Faults = {"setup"}
    MaxFaults = 1
    NoMetric = NoMetric
    BadQuery = BadQuery
    NoMatchers = NoMatchers
    Free = Free
SPECIFICATION FairSpec
PROPERTY Answered
CHECK_DEADLOCK FALSE
