\* All ranges over seven instants, chunks of two, all tables of at most one row for
\* each instant, four layouts; everything may fail, and one row is inserted.
CONSTANTS
    MaxTime = 6
    Step = 2
    Layouts <- MCLayouts
    Faults = {"bulk", "row", "gone"}
    MaxInserts = 1
    Nothing = Nothing
SPECIFICATION FairSpec
INVARIANTS TypeOK InOrder Complete FieldsInPlace
PROPERTY ResponseEnds
CHECK_DEADLOCK FALSE
