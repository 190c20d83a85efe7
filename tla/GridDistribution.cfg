\* Three processes distribute an element whose copies are in any interfaces.
SPECIFICATION GDSpec
CONSTANTS
    Procs <- MCProcs
    FirstInfos <- SomeInfos
    Selections <- OneTarget
    MaxRounds = 1
INVARIANTS
    InfosSynchronized
    SidesMatch
    OneStar
    NoCopyIsLost
CHECK_DEADLOCK FALSE
