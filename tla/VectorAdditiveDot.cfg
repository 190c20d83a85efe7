\* The dot product of two vectors that are additive, but not unique.
SPECIFICATION Spec
CONSTANTS
    p = p
    q = q
    r = r
    i = i
    j = j
    Vectors = {x, y}
    Dofs = {i, j}
    Procs = {p, q}
    Master <- StarMaster
    Slaves <- PairSlaves
    AdditivePairs = TRUE
    Inputs = {0, 1}
    Samples <- Uneven
    MaxValue = 2
SYMMETRY VectorSymmetry
INVARIANT
    DotProdIsExact
