\* One request after another, of all operations.
SPECIFICATION Spec
CONSTANTS
    r1 = r1
    r2 = r2
    Requests = {r1}
    Nodes = {n1, n2}
    Null = Null
    MaxLength = 3
    Loads <- MCOneByOne
INVARIANT RequestsAreAnswered
CHECK_DEADLOCK FALSE
