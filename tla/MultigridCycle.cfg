\* A W-cycle on four levels where all processes have surface dofs everywhere.
SPECIFICATION FairSpec
CONSTANTS
    a = a
    b = b
    c = c
    d = d
    Procs = {a, b, c, d}
    BaseLevel = 0
    TopLevel = 3
    FullRefLevel <- SurfaceEverywhere
    VMaster <- GatheredHierarchy
    CycleType <- WCycle
    NumPreSmooth = 1
    NumPostSmooth = 1
    Overlap = TRUE
    Neighbours <- BaseInterfaces
    GatheredIfAmbiguous = TRUE
    ParallelBase = TRUE
    Observed = FALSE
INVARIANTS
    DefectsAreRight
    CorrectionsAreRight
    CycleIsComplete
PROPERTIES
    CycleEnds
