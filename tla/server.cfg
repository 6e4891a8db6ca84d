\* Two clients and every way to start: the four combinations of keys and
\* certificates, in flags and files, on disks that lack one of them.
SPECIFICATION Spec
CONSTANTS
    Clients = {c1, c2}
    Null = Null
    NoFile = NoFile
    CommandLines <- MCCommandLines
    Files <- MCFiles
    Disks <- MCDisks
    Faults = {"listen", "certificate", "accept", "close"}
INVARIANTS
    TypeOK
    CutOnlyAfterGrace
    PlainOnlyWithoutTLS
PROPERTY ShutdownEnds
\* The process ends.
CHECK_DEADLOCK FALSE
