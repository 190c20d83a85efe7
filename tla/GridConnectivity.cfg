\* Three programs that build and take apart a grid of two triangles.
SPECIFICATION Spec
CONSTANTS
    Vertices = {1, 2, 3, 4}
    MaxFaces = 2
    NewFaces <- TwoTriangles
    Programs <- SmallPrograms
INVARIANTS
    ListsAreExact
    NoElementTwice
PROPERTIES
    ImplementsPlainMesh
