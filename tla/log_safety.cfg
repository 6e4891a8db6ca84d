\* Records of one and two bytes in a file of two, at most three backups; every
\* fault but two rotations in one millisecond.
CONSTANTS
    MaxSize = 2
    MaxBackups = 1
    MaxAge = 1
    Compress = TRUE
    Lengths = {1, 2}
    Faults = {"crash", "open", "stat", "rename", "create", "short", "mill"}
    MaxTime = 2
    MaxRecords = 3
    Absent = Absent
    Partial = Partial
SPECIFICATION Spec
INVARIANTS TypeOK SizeLimit MillCaughtUp
PROPERTY RetainsNewest
CHECK_DEADLOCK FALSE
