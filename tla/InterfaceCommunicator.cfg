\* Two-round plans of a pair, halo exchanges, and several calls per round.
SPECIFICATION FairSpec
CONSTANTS
    p1 = p1
    p2 = p2
    p3 = p3
    Procs = {p1, p2, p3}
    Plans <- ExchangePlans
    EarlyCalls = FALSE
INVARIANTS
    RoundsNeverMix
    NoTruncation
    ExtractedAsRegistered
PROPERTIES
    ImplementsNeighbourExchange
    AllRoundsFinish
