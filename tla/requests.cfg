\* Two request slots and two nodes.
SPECIFICATION Spec
CONSTANTS
    r1 = r1
    r2 = r2
    Requests = {r1, r2}
    Nodes = {n1, n2}
    Null = Null
    MaxLength = 3
    Loads <- MCLoads
SYMMETRY Symmetry
INVARIANTS
    TypeOK
    AnswerIsDocumented
    
    InformationIsOneFetch
PROPERTY ImplementsContract
\* A data race may end the process.
CHECK_DEADLOCK FALSE
