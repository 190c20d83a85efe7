------------------------------ MODULE PlainMesh ------------------------------
(***************************************************************************)
(* What the operations of a two-dimensional grid mean, whatever the grid   *)
(* stores to carry them out: a mesh is its vertices, its edges as pairs of *)
(* vertices and its faces as cycles of corners.  No list of neighbours and *)
(* no option on such lists appears here.                                   *)
(***************************************************************************)
EXTENDS Naturals, Sequences, FiniteSetsExt, SequencesExt

CONSTANTS
  Vertices,  \* all vertices there can be
  NewFaces   \* the faces that may be created, as sequences of corners

VARIABLES
  verts,     \* the vertices
  edges,     \* the edges, each the set of its two ends
  faces,     \* the faces, each the sequence of its corners
  withSides  \* do faces create their edges?

mesh == <<verts, edges, faces, withSides>>

SidesOf(c) == {{c[i], c[(i % Len(c)) + 1]} : i \in DOMAIN c}
SidesOfAll(F) == UNION {SidesOf(c) : c \in F}

Init ==
  /\ verts = {}
  /\ edges = {}
  /\ faces = {}
  /\ withSides \in BOOLEAN

\* A vertex, an edge or a face is created.
AddVertex(v) ==
  /\ v \notin verts
  /\ verts' = verts \cup {v}
  /\ UNCHANGED <<edges, faces, withSides>>

AddEdge(s) ==
  /\ s \subseteq verts /\ s \notin edges
  /\ edges' = edges \cup {s}
  /\ UNCHANGED <<verts, faces, withSides>>

AddFace(c) ==
  /\ Range(c) \subseteq verts
  /\ faces' = faces \cup {c}
  /\ edges' = edges \cup (IF withSides THEN SidesOf(c) ELSE {})
  /\ UNCHANGED <<verts, withSides>>

\* What hangs on an erased element goes with it.  A face does not hang on
\* its edges unless it creates them.
EraseFace(c) ==
  /\ c \in faces
  /\ faces' = faces \ {c}
  /\ UNCHANGED <<verts, edges, withSides>>

EraseEdge(s) ==
  /\ s \in edges
  /\ edges' = edges \ {s}
  /\ faces' = IF withSides THEN {c \in faces : s \notin SidesOf(c)} ELSE faces
  /\ UNCHANGED <<verts, withSides>>

EraseVertex(v) ==
  /\ v \in verts
  /\ verts' = verts \ {v}
  /\ edges' = {s \in edges : v \notin s}
  /\ faces' = {c \in faces : v \notin Range(c)}
  /\ UNCHANGED withSides

\* v gives way to w, old or new; elements that become equal become one, and of
\* two faces that become one the orientation of either may survive.
Moved(x, v, w) == IF x = v THEN w ELSE x
MovedFace(c, v, w) == [i \in DOMAIN c |-> Moved(c[i], v, w)]

GiveWay(v, w) ==
  /\ v \in verts /\ w # v
  /\ \A s \in edges : ~ {v, w} \subseteq s
  /\ \A c \in faces : ~ {v, w} \subseteq Range(c)
  /\ verts' = (verts \ {v}) \cup {w}
  /\ edges' = {{Moved(x, v, w) : x \in s} : s \in edges}
  /\ faces' \subseteq {MovedFace(c, v, w) : c \in faces}
  /\ {Range(c) : c \in faces'} = {Range(MovedFace(c, v, w)) : c \in faces}
  /\ \A c, d \in faces' : Range(c) = Range(d) => c = d
  /\ UNCHANGED withSides

Flip(c) ==
  /\ c \in faces
  /\ faces' = (faces \ {c}) \cup {Reverse(c)}
  /\ UNCHANGED <<verts, edges, withSides>>

\* Faces start or stop to create their edges.
SetWithSides(b) ==
  /\ withSides' = b
  /\ edges' = edges \cup (IF b THEN SidesOfAll(faces) ELSE {})
  /\ UNCHANGED <<verts, faces>>

Next ==
  \/ \E v \in Vertices : AddVertex(v) \/ EraseVertex(v)
  \/ \E s \in kSubset(2, Vertices) : AddEdge(s)
  \/ \E c \in NewFaces : AddFace(c)
  \/ \E s \in edges : EraseEdge(s)
  \/ \E c \in faces : EraseFace(c) \/ Flip(c)
  \/ \E v, w \in Vertices : GiveWay(v, w)
  \/ \E b \in BOOLEAN : SetWithSides(b)

Spec == Init /\ [][Next]_mesh
=============================================================================
