\* Two vectors on three processes, one dof with two slaves.
SPECIFICATION Spec
CONSTANTS
    p = p
    q = q
    r = r
    i = i
    j = j
    Vectors = {x, y}
    Dofs = {i, j}
    Procs = {p, q, r}
    Master <- StarMaster
    Slaves <- StarSlaves
    AdditivePairs = FALSE
    Inputs = {0, 1}
    Samples <- Uneven
    MaxValue = 2
SYMMETRY VectorSymmetry
INVARIANTS
    MaskIsTruthful
    DotProdIsExact
    NormsAreExact
