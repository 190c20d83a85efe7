\* Three processes: two parents and an edge they share, a vertex on all, a ghost vertex.
SPECIFICATION DGSpec
CONSTANTS
    IdLimit = 64
    Procs <- ThreeProcs
    Elems <- MCElems
    Type <- MCType
    Level <- MCLevel
    Children <- MCChildren
    FirstElems <- ThreeElems
    FirstLists <- ThreeLists
    Replaceable = {"ab"}
    MaxSessions = 2
INVARIANTS
    InterfacesMatch
    InfosAreRight
CHECK_DEADLOCK FALSE
