\* Every graph on four ranks, next to a fifth without neighbours, and three on five.
SPECIFICATION FairColSpec
CONSTANTS
    Procs = {0, 1, 2, 3, 4}
    Graphs <- SmallGraphs
INVARIANTS
    ProperColouring
    FewColours
    ListsSplitNeighbours
PROPERTIES
    ColouringTerminates
    ImplementsGreedyColouring
