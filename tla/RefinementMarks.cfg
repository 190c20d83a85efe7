\* Three triangles on three processes, the refined one on a slave; all kinds of marks.
CONSTANTS
  Procs <- ProcsT
  Vertices <- VerticesT
  Edges <- EdgesT
  Faces <- FacesT
  Corners <- CornersT
  EdgesOf <- EdgesOfT
  Constraining <- ConstrainingT
  ParentOf <- ParentT
  Refined <- RefinedT
  Holds <- HoldsTurned
  UserMarks <- UserAny
  NodeDependencyOrder1 = TRUE
SPECIFICATION Spec
INVARIANTS
  JustTheClosureIsMarked
  CopiesAgree
  GridStaysRegular
PROPERTIES
  MarksOnlyGrow
  TurnsEnd
