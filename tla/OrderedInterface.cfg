\* The counter goes round, but insert() finds an id left.
SPECIFICATION OISpec
CONSTANTS
    IdLimit = 7
    Elems = {1, 2}
    Keys <- Orders
    InsertRound = FALSE
INVARIANTS
    IdsFollowOrder
