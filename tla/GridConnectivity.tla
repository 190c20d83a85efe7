--------------------------- MODULE GridConnectivity ---------------------------
(***************************************************************************)
(* The connectivity management of Grid (grid_connection_managment.cpp) for *)
(* vertices, edges and faces.  Options say which elements store which of   *)
(* their neighbours in a list; an operation that needs a list switches its *)
(* option on, and every operation has to keep every stored list true.      *)
(*                                                                         *)
(* The lists of vertices and the face lists of edges are bags: their order *)
(* means nothing.  The edge list of a face is a sequence, since with       *)
(* FACEOPT_AUTOGENERATE_EDGES its i-th entry is taken for the i-th side.   *)
(* Faces with the same vertices are taken to have the same sides.          *)
(* Addresses are pairs of the vertices of an element and a number; between *)
(* two operations they mean nothing and are given anew.                    *)
(***************************************************************************)
EXTENDS Integers, FiniteSetsExt, SequencesExt

CONSTANTS
  Vertices,
  MaxFaces,       \* bound on the faces at one time
  NewFaces,       \* corner sequences of the faces that are created by hand
  Programs        \* the ways in which programs use a grid

Options == {"VRTOPT_STORE_ASSOCIATED_EDGES", "VRTOPT_STORE_ASSOCIATED_FACES",
            "EDGEOPT_STORE_ASSOCIATED_FACES", "FACEOPT_STORE_ASSOCIATED_EDGES",
            "FACEOPT_AUTOGENERATE_EDGES"}

\* A program constructs the grid with "options" and switches those in "toggles";
\* it creates "edges" by hand, as pairs of vertices; "replaces" tells whether it
\* calls replace_vertex.
Program == [options : SUBSET Options, toggles : SUBSET Options,
            edges : SUBSET SUBSET Vertices, replaces : BOOLEAN]

Ever(p, o) == o \in p.options \cup p.toggles
Always(p, o) == o \in p.options \ p.toggles

\* The programs for which the code keeps its lists true (section 6 of the README
\* has the others).  A vertex is replaced only where faces have all their edges, or
\* edges and faces do not store each other; and where edges store faces that create
\* their edges, faces always do, and find their edges or are found at their vertices.
Sound(p) ==
  /\ p.replaces => \/ Always(p, "FACEOPT_AUTOGENERATE_EDGES")
                   \/ /\ ~Ever(p, "EDGEOPT_STORE_ASSOCIATED_FACES")
                      /\ ~Ever(p, "FACEOPT_STORE_ASSOCIATED_EDGES")
  /\ Ever(p, "EDGEOPT_STORE_ASSOCIATED_FACES") /\ Ever(p, "FACEOPT_AUTOGENERATE_EDGES") =>
       /\ Always(p, "FACEOPT_AUTOGENERATE_EDGES")
       /\ \/ Always(p, "VRTOPT_STORE_ASSOCIATED_FACES")
          \/ Always(p, "FACEOPT_STORE_ASSOCIATED_EDGES")

ASSUME ProgramsAssumption == Programs \subseteq Program /\ \A p \in Programs : Sound(p)

VARIABLES program, grid
\* grid.opts     m_options
\* grid.verts    the registered vertices
\* grid.ends     registered edge -> its two vertices
\* grid.corners  registered face -> its vertices, in order
\* grid.ve, vf   vertex -> its m_aaEdgeContainerVERTEX, m_aaFaceContainerVERTEX
\* grid.ef       edge -> its m_aaFaceContainerEDGE
\* grid.fe       face -> its m_aaEdgeContainerFACE
\* grid.broken   an element that was erased already has been used

-----------------------------------------------------------------------------
(* Elements and their sides.                                               *)

NoEdge == <<>>
Edges(g) == DOMAIN g.ends
Faces(g) == DOMAIN g.corners

StoresVE(g) == "VRTOPT_STORE_ASSOCIATED_EDGES" \in g.opts
StoresVF(g) == "VRTOPT_STORE_ASSOCIATED_FACES" \in g.opts
StoresEF(g) == "EDGEOPT_STORE_ASSOCIATED_FACES" \in g.opts
StoresFE(g) == "FACEOPT_STORE_ASSOCIATED_EDGES" \in g.opts
Autogenerates(g) == "FACEOPT_AUTOGENERATE_EDGES" \in g.opts

Side(c, i) == {c[i], c[(i % Len(c)) + 1]}
SidesOf(c) == {Side(c, i) : i \in DOMAIN c}
First(s) == CHOOSE v \in s : TRUE   \* which end is vertex(0) does not matter

Put(b, x) == b (+) SetToBag({x})
Take(b, x) == b (-) SetToBag({x})
Swap(b, x, y) == IF BagIn(x, b) THEN Put(Take(b, x), y) ELSE b

\* An address for an element of the vertices s.
Fresh(used, s) == <<s, Min({k \in 0..Cardinality(used) : <<s, k>> \notin used})>>
\* f with x mapped to y, or without x.
With(f, x, y) == (x :> y) @@ f
Without(f, x) == [z \in DOMAIN f \ {x} |-> f[z]]

-----------------------------------------------------------------------------
(* Looking up, and the options that looking up switches on.                *)

VertexStoreAssociatedEdges(g) ==
  IF StoresVE(g) THEN g
  ELSE [g EXCEPT !.opts = @ \cup {"VRTOPT_STORE_ASSOCIATED_EDGES"},
                 !.ve = [v \in Vertices |-> SetToBag({e \in Edges(g) : v \in g.ends[e]})]]

VertexStoreAssociatedFaces(g) ==
  IF StoresVF(g) THEN g
  ELSE [g EXCEPT !.opts = @ \cup {"VRTOPT_STORE_ASSOCIATED_FACES"},
                 !.vf = [v \in Vertices |->
                           SetToBag({f \in Faces(g) : v \in Range(g.corners[f])})]]

\* The edge with the ends s among the candidates C, if there is one.
EdgeAmong(g, C, s) ==
  LET M == {e \in C \cap Edges(g) : g.ends[e] = s}
  IN  IF M = {} THEN NoEdge ELSE CHOOSE e \in M : TRUE

\* find_edge_in_associated_edges of a vertex whose list is stored.
FindEdge(g, v, s) == EdgeAmong(g, BagToSet(g.ve[v]), s)

\* get_edge(f, i); without a list of f the list of the side's first vertex
\* is searched.
GetEdge(g, f, i) ==
  LET c == g.corners[f]
  IN  CASE StoresFE(g) /\ Autogenerates(g) -> g.fe[f][i]
        [] StoresFE(g) /\ ~Autogenerates(g) -> EdgeAmong(g, Range(g.fe[f]), Side(c, i))
        [] OTHER -> FindEdge(g, c[i], Side(c, i))

\* The grid once get_edge(f, i) has been called.
Searched(g) == IF StoresFE(g) THEN g ELSE VertexStoreAssociatedEdges(g)

EdgesFound(g, f) == {GetEdge(g, f, i) : i \in DOMAIN g.corners[f]} \ {NoEdge}

\* CollectFaces of an edge: with the grid it leaves behind.
FaceSearched(g) ==
  IF Faces(g) = {} \/ StoresEF(g) THEN g ELSE VertexStoreAssociatedFaces(g)
CollectFaces(g, e) ==
  IF StoresEF(g) THEN BagToSet(g.ef[e])
  ELSE {f \in BagToSet(g.vf[First(g.ends[e])]) \cap Faces(g) :
           g.ends[e] \in SidesOf(g.corners[f])}

\* CollectEdges of a face, on a grid that has been searched.
CollectEdges(g, f) == IF StoresFE(g) THEN Range(g.fe[f]) ELSE EdgesFound(g, f)

-----------------------------------------------------------------------------
(* Registering edges and faces.                                            *)

\* An edge e with the ends s; f is the face that creates it, if one does.
RegisterEdge(g, e, s, createdByFace) ==
  LET g1 == [g EXCEPT !.ends = With(@, e, s),
                      !.ef = With(@, e, EmptyBag),
                      !.ve = IF StoresVE(g)
                             THEN [v \in Vertices |-> IF v \in s THEN Put(@[v], e) ELSE @[v]]
                             ELSE @]
      g2 == VertexStoreAssociatedFaces(g1)
      F == {f \in BagToSet(g2.vf[First(s)]) : s \in SidesOf(g2.corners[f])}
  IN  CASE createdByFace # {} ->
             IF StoresEF(g) THEN [g1 EXCEPT !.ef[e] = SetToBag(createdByFace)] ELSE g1
        [] createdByFace = {} /\ ~Autogenerates(g) /\ (StoresEF(g) \/ StoresFE(g)) ->
             [g2 EXCEPT !.ef[e] = IF StoresEF(g) THEN SetToBag(F) ELSE @,
                        !.fe = [f \in Faces(g) |-> IF StoresFE(g) /\ f \in F
                                                   THEN Append(@[f], e) ELSE @[f]]]
        [] OTHER -> g1

\* The i-th side of f looks for its edge; if there is none it may be created,
\* if there is one it may be told of f.
LinkSide(g, f, i, create, tell) ==
  LET g1 == VertexStoreAssociatedEdges(g)
      c == g.corners[f]
      found == FindEdge(g1, c[i], Side(c, i))
      e == IF found = NoEdge THEN Fresh(Edges(g), Side(c, i)) ELSE found
      g2 == IF StoresFE(g) /\ (found # NoEdge \/ create)
            THEN [g1 EXCEPT !.fe[f] = Append(@, e)] ELSE g1
  IN  CASE found = NoEdge /\ create -> RegisterEdge(g2, e, Side(c, i), {f})
        [] found # NoEdge /\ tell -> [g2 EXCEPT !.ef[e] = Put(@, f)]
        [] OTHER -> g2

RegisterFace(g, f, c) ==
  LET g1 == [g EXCEPT !.corners = With(@, f, c),
                      !.fe = With(@, f, <<>>),
                      !.vf = IF StoresVF(g)
                             THEN [v \in Vertices |-> IF v \in Range(c) THEN Put(@[v], f)
                                                      ELSE @[v]]
                             ELSE @]
      Link(h, i) == LinkSide(h, f, i, Autogenerates(g), StoresEF(g))
  IN  IF Autogenerates(g) \/ StoresEF(g) \/ StoresFE(g)
      THEN FoldLeft(Link, g1, [i \in DOMAIN c |-> i])
      ELSE g1

-----------------------------------------------------------------------------
(* Erasing.                                                                *)

\* Mutants: the face stays in the lists of its vertices, of its edges.
UnregisterFaceFromEdges(f, g) ==
  IF f \notin Faces(g) THEN [g EXCEPT !.broken = TRUE]
  ELSE [g EXCEPT !.ef = [e \in Edges(g) |-> Take(@[e], f)],
                 !.corners = Without(@, f),
                 !.fe = Without(@, f)]

UnregisterFaceFromVertices(f, g) ==
  IF f \notin Faces(g) THEN [g EXCEPT !.broken = TRUE]
  ELSE [g EXCEPT !.vf = [v \in Vertices |-> Take(@[v], f)],
                 !.corners = Without(@, f),
                 !.fe = Without(@, f)]

UnregisterFace(f, g) ==
  LET g1 == IF StoresEF(g) THEN Searched(g) ELSE g
      E == EdgesFound(g1, f)
  IN  IF f \notin Faces(g) THEN [g EXCEPT !.broken = TRUE]
      ELSE [g1 EXCEPT
              !.ef = IF StoresEF(g)
                     THEN [e \in Edges(g) |-> IF e \in E THEN Take(@[e], f) ELSE @[e]]
                     ELSE @,
              !.vf = IF StoresVF(g)
                     THEN [v \in Vertices |-> IF v \in Range(g.corners[f])
                                              THEN Take(@[v], f) ELSE @[v]]
                     ELSE @,
              !.corners = Without(@, f),
              !.fe = Without(@, f)]

\* Mutant: the faces of an edge never go with it.
UnregisterFromFacesOnly(g, e) ==
  [g EXCEPT !.fe = [f \in Faces(g) |-> RemoveFirst(@[f], e)], !.ef[e] = EmptyBag]

\* The faces of e: they go with e if they create their edges, else they
\* forget e if they store edges.
UnregisterFromFaces(g, e) ==
  LET g1 == FaceSearched(g)
      F == CollectFaces(g1, e)
  IN  CASE Faces(g) = {} \/ ~(Autogenerates(g) \/ StoresFE(g)) -> g
        [] Faces(g) # {} /\ Autogenerates(g) ->
             FoldSet(UnregisterFace, [g1 EXCEPT !.ef[e] = EmptyBag], F)
        [] OTHER -> [g1 EXCEPT !.fe = [f \in Faces(g) |-> IF f \in F THEN RemoveFirst(@[f], e)
                                                          ELSE @[f]]]

UnregisterEdge(e, g) ==
  LET g1 == UnregisterFromFaces(g, e)
  IN  IF e \notin Edges(g) THEN [g EXCEPT !.broken = TRUE]
      ELSE [g1 EXCEPT
              !.ve = IF StoresVE(g1)
                     THEN [v \in Vertices |-> IF v \in g.ends[e] THEN Take(@[v], e) ELSE @[v]]
                     ELSE @,
              !.ends = Without(@, e),
              !.ef = Without(@, e)]

\* The lists that are needed to erase a vertex are switched on; its faces and
\* then its edges are swapped out of its lists and erased, the edges in the
\* order they are stored in.
EdgesAt(g, v) == BagToSet(g.ve[v]) \cup {e \in Edges(g) : v \in g.ends[e]}
UnregisterVertex(v, g, order) ==
  LET g1 == IF Edges(g) # {} THEN VertexStoreAssociatedEdges(g) ELSE g
      g2 == IF Faces(g) # {} /\ ~(StoresEF(g) /\ Autogenerates(g))
            THEN VertexStoreAssociatedFaces(g1) ELSE g1
      g3 == IF Faces(g) # {} /\ StoresVF(g2)
            THEN FoldSet(UnregisterFace, [g2 EXCEPT !.vf[v] = EmptyBag], BagToSet(g2.vf[v]))
            ELSE g2
      g4 == IF Edges(g) # {}
            THEN FoldLeft(LAMBDA h, e : UnregisterEdge(e, h), [g3 EXCEPT !.ve[v] = EmptyBag],
                          SelectSeq(order, LAMBDA e : BagIn(e, g3.ve[v])))
            ELSE g3
  IN  [g4 EXCEPT !.verts = @ \ {v}, !.ve[v] = EmptyBag, !.vf[v] = EmptyBag]

-----------------------------------------------------------------------------
(* Switching options.                                                      *)

EdgeStoreAssociatedFaces(g) ==
  LET g1 == VertexStoreAssociatedEdges(g)
  IN  [g1 EXCEPT !.opts = @ \cup {"EDGEOPT_STORE_ASSOCIATED_FACES"},
                 !.ef = [e \in Edges(g) |-> SetToBag({f \in Faces(g1) : e \in EdgesFound(g1, f)})]]

\* With generated edges the list holds one edge per side, in order.
FaceStoreAssociatedEdges(g) ==
  LET g1 == IF Faces(g) # {} THEN VertexStoreAssociatedEdges(g) ELSE g
      InOrder(f) == [i \in DOMAIN g.corners[f] |-> GetEdge(g1, f, i)]
      StoredAt(f) == {e \in Edges(g) : BagIn(f, g.ef[e])}
      Stores(h, list(_)) ==
        [h EXCEPT !.opts = @ \cup {"FACEOPT_STORE_ASSOCIATED_EDGES"},
                  !.fe = [f \in Faces(g) |-> list(f)]]
  IN  CASE Autogenerates(g) -> Stores(g1, InOrder)
        [] ~Autogenerates(g) /\ StoresEF(g) -> Stores(g, LAMBDA f : SetToSeq(StoredAt(f)))
        [] OTHER -> Stores(g1, LAMBDA f : Remove(InOrder(f), NoEdge))

\* Missing edges are created, face by face, and the lists of the faces start
\* anew; an edge that is found does not hear of the face.
FaceAutogenerateEdges(g) ==
  LET Relink(h, f) ==
        FoldLeft(LAMBDA k, i : LinkSide(k, f, i, TRUE, FALSE),
                 [h EXCEPT !.fe[f] = <<>>], [i \in DOMAIN g.corners[f] |-> i])
  IN  [FoldLeft(Relink, g, SetToSeq(Faces(g))) EXCEPT
         !.opts = @ \cup {"FACEOPT_AUTOGENERATE_EDGES"}]

SwitchOn(g, o) ==
  CASE o \in g.opts -> g
    [] o \notin g.opts /\ o = "VRTOPT_STORE_ASSOCIATED_EDGES" -> VertexStoreAssociatedEdges(g)
    [] o \notin g.opts /\ o = "VRTOPT_STORE_ASSOCIATED_FACES" -> VertexStoreAssociatedFaces(g)
    [] o \notin g.opts /\ o = "EDGEOPT_STORE_ASSOCIATED_FACES" -> EdgeStoreAssociatedFaces(g)
    [] o \notin g.opts /\ o = "FACEOPT_STORE_ASSOCIATED_EDGES" -> FaceStoreAssociatedEdges(g)
    [] OTHER -> FaceAutogenerateEdges(g)

\* A list that is no longer stored is detached.
SwitchOff(g, o) ==
  LET h == [g EXCEPT !.opts = @ \ {o}]
  IN  CASE o = "VRTOPT_STORE_ASSOCIATED_EDGES" ->
             [h EXCEPT !.ve = [v \in Vertices |-> EmptyBag]]
        [] o = "VRTOPT_STORE_ASSOCIATED_FACES" ->
             [h EXCEPT !.vf = [v \in Vertices |-> EmptyBag]]
        [] o = "EDGEOPT_STORE_ASSOCIATED_FACES" ->
             [h EXCEPT !.ef = [e \in Edges(g) |-> EmptyBag]]
        [] o = "FACEOPT_STORE_ASSOCIATED_EDGES" ->
             [h EXCEPT !.fe = [f \in Faces(g) |-> <<>>]]
        [] OTHER -> h

\* change_options: option after option, first those of the vertices.
OptionsInOrder ==
  <<"VRTOPT_STORE_ASSOCIATED_EDGES", "VRTOPT_STORE_ASSOCIATED_FACES",
    "EDGEOPT_STORE_ASSOCIATED_FACES", "FACEOPT_STORE_ASSOCIATED_EDGES",
    "FACEOPT_AUTOGENERATE_EDGES">>

OptionsChanged(g, opts) ==
  FoldLeft(LAMBDA h, o : IF o \in opts THEN SwitchOn(h, o) ELSE SwitchOff(h, o),
           g, OptionsInOrder)

-----------------------------------------------------------------------------
(* Replacing a vertex by another one, and elements by elements of another  *)
(* type.                                                                   *)

\* An edge of old becomes an edge of new; if there is that edge already, it
\* takes the place of e in the lists of the faces of e, and e is erased.
MoveEdge(e, old, new, g) ==
  LET w == First(g.ends[e] \ {old})
      twin == FindEdge(g, w, {w, new})
      g1 == IF StoresFE(g) THEN FaceSearched(g) ELSE g
      F == IF StoresFE(g) /\ Faces(g) # {} THEN CollectFaces(g1, e) ELSE {}
  IN  IF twin = NoEdge
      THEN [g EXCEPT !.ends[e] = {w, new}, !.ve[new] = Put(@, e)]
      ELSE [g1 EXCEPT !.ve[w] = Take(@, e),
                      !.fe = [f \in Faces(g) |-> IF f \in F THEN ReplaceAll(@[f], e, twin)
                                                 ELSE @[f]],
                      !.ends = Without(@, e),
                      !.ef = Without(@, e)]

\* A face of old becomes a face of new, or is erased if there is that face.
MoveFace(f, old, new, g) ==
  LET c == g.corners[f]
      moved == ReplaceAll(c, old, new)
      twins == {t \in BagToSet(g.vf[moved[1]]) : Range(g.corners[t]) = Range(moved)}
      g1 == IF StoresEF(g) /\ Edges(g) # {} THEN Searched(g) ELSE g
      Left == IF StoresEF(g) /\ Edges(g) # {} THEN CollectEdges(g1, f) ELSE {}
      g2 == [IF StoresEF(g) THEN VertexStoreAssociatedEdges(g) ELSE g
               EXCEPT !.corners[f] = moved, !.vf[new] = Put(@, f)]
      Joined == IF StoresEF(g)
                THEN {FindEdge(g2, moved[i], Side(moved, i)) :
                        i \in {j \in DOMAIN moved : new \in Side(moved, j)}}
                ELSE {}
  IN  IF twins # {}
      THEN [g1 EXCEPT
              !.vf = [v \in Vertices |-> IF v \in Range(c) \ {old} THEN Take(@[v], f) ELSE @[v]],
              !.ef = [e \in Edges(g) |-> IF e \in Left THEN Take(@[e], f) ELSE @[e]],
              !.corners = Without(@, f),
              !.fe = Without(@, f)]
      ELSE [g2 EXCEPT
              !.ef = [e \in Edges(g) |-> IF e \in Joined /\ ~BagIn(f, @[e]) THEN Put(@[e], f)
                                         ELSE @[e]]]

ReplaceVertexIn(g, old, new) ==
  LET g1 == IF Edges(g) # {} THEN VertexStoreAssociatedEdges(g) ELSE g
      g2 == [FoldSet(LAMBDA e, h : MoveEdge(e, old, new, h), g1, BagToSet(g1.ve[old]))
               EXCEPT !.ve[old] = EmptyBag]
      g3 == IF Faces(g2) # {} THEN VertexStoreAssociatedFaces(g2) ELSE g2
      g4 == [FoldSet(LAMBDA f, h : MoveFace(f, old, new, h), g3, BagToSet(g3.vf[old]))
               EXCEPT !.vf[old] = EmptyBag]
  IN  [g4 EXCEPT !.verts = @ \ {old}]

\* register_and_replace_element: the neighbours of x get y in its place.
ReplacedVertex(g, x, y) ==
  LET g1 == IF Edges(g) # {} THEN VertexStoreAssociatedEdges(g) ELSE g
      g2 == IF Faces(g) # {} THEN VertexStoreAssociatedFaces(g1) ELSE g1
  IN  [g2 EXCEPT
         !.verts = (@ \ {x}) \cup {y},
         !.ends = [e \in Edges(g) |-> IF BagIn(e, g2.ve[x]) THEN (@[e] \ {x}) \cup {y} ELSE @[e]],
         !.corners = [f \in Faces(g) |-> IF BagIn(f, g2.vf[x]) THEN ReplaceAll(@[f], x, y)
                                         ELSE @[f]],
         !.ve = [@ EXCEPT ![y] = @ (+) g2.ve[x], ![x] = EmptyBag],
         !.vf = [@ EXCEPT ![y] = @ (+) g2.vf[x], ![x] = EmptyBag]]

ReplacedEdge(g, x, y) ==
  LET g1 == IF StoresFE(g) THEN FaceSearched(g) ELSE g
      F == IF StoresFE(g) /\ Faces(g) # {} THEN CollectFaces(g1, x) ELSE {}
  IN  [g1 EXCEPT
         !.ends = Without(With(@, y, @[x]), x),
         !.ve = [v \in Vertices |-> IF v \in g.ends[x] THEN Swap(@[v], x, y) ELSE @[v]],
         !.fe = [f \in Faces(g) |-> IF f \in F THEN ReplaceAll(@[f], x, y) ELSE @[f]],
         !.ef = Without(With(@, y, @[x]), x)]

ReplacedFace(g, x, y) ==
  LET g1 == IF StoresEF(g) /\ Edges(g) # {} THEN Searched(g) ELSE g
      E == IF StoresEF(g) /\ Edges(g) # {} THEN CollectEdges(g1, x) ELSE {}
  IN  [g1 EXCEPT
         !.corners = Without(With(@, y, @[x]), x),
         !.vf = [v \in Vertices |-> IF v \in Range(g.corners[x]) THEN Swap(@[v], x, y)
                                    ELSE @[v]],
         !.ef = [e \in Edges(g) |-> IF e \in E THEN Swap(@[e], x, y) ELSE @[e]],
         !.fe = Without(With(@, y, @[x]), x)]

\* flip_orientation of a face: its edges are looked up again.
FlippedFace(g, f) ==
  LET c == Reverse(g.corners[f])
      g1 == IF StoresFE(g) THEN VertexStoreAssociatedEdges(g) ELSE g
      list == Remove([i \in DOMAIN c |-> FindEdge(g1, c[i], Side(c, i))], NoEdge)
  IN  [g1 EXCEPT !.corners[f] = c, !.fe[f] = IF StoresFE(g) THEN list ELSE @]

-----------------------------------------------------------------------------
(* Addresses between operations.                                           *)

NoDoublesIn(g) ==
  /\ \A d, e \in Edges(g) : g.ends[d] = g.ends[e] => d = e
  /\ \A f, h \in Faces(g) : Range(g.corners[f]) = Range(g.corners[h]) => f = h

\* Every element gets the address of its vertices, in all lists; what is no
\* element any more stays none.
Gone == <<{}, 0>>
Readdressed(g) ==
  LET E(x) == IF x \in Edges(g) THEN <<g.ends[x], 0>> ELSE Gone
      F(x) == IF x \in Faces(g) THEN <<Range(g.corners[x]), 0>> ELSE Gone
      OldE(y) == CHOOSE x \in Edges(g) : E(x) = y
      OldF(y) == CHOOSE x \in Faces(g) : F(x) = y
      newE == {E(x) : x \in Edges(g)}
      newF == {F(x) : x \in Faces(g)}
  IN  IF ~NoDoublesIn(g) THEN g
      ELSE [g EXCEPT
              !.ends = [y \in newE |-> @[OldE(y)]],
              !.corners = [y \in newF |-> @[OldF(y)]],
              !.ve = [v \in Vertices |-> BagOfAll(E, @[v])],
              !.vf = [v \in Vertices |-> BagOfAll(F, @[v])],
              !.ef = [y \in newE |-> BagOfAll(F, @[OldE(y)])],
              !.fe = [y \in newF |-> LET list == @[OldF(y)]
                                      IN  [i \in DOMAIN list |-> E(list[i])]]]

-----------------------------------------------------------------------------
Init ==
  /\ program \in Programs
  /\ grid = [opts |-> program.options, verts |-> {},
             ends |-> [e \in {} |-> {}], corners |-> [f \in {} |-> <<>>],
             ve |-> [v \in Vertices |-> EmptyBag], vf |-> [v \in Vertices |-> EmptyBag],
             ef |-> [e \in {} |-> EmptyBag], fe |-> [f \in {} |-> <<>>],
             broken |-> FALSE]

\* Bound: one more face fits.
FaceFits == Cardinality(Faces(grid)) < MaxFaces

CreateVertex(v) ==
  /\ v \notin grid.verts
  /\ grid' = [grid EXCEPT !.verts = @ \cup {v}]

\* Callers look first: an edge or a face is created where there is none.
CreateEdge(s) ==
  /\ s \subseteq grid.verts /\ s \notin Range(grid.ends)
  /\ grid' = Readdressed(RegisterEdge(grid, Fresh(Edges(grid), s), s, {}))

CreateFace(c) ==
  /\ Range(c) \subseteq grid.verts
  /\ \A f \in Faces(grid) : Range(grid.corners[f]) # Range(c)
  /\ FaceFits
  /\ grid' = Readdressed(RegisterFace(grid, Fresh(Faces(grid), Range(c)), c))

EraseVertex(v) ==
  /\ v \in grid.verts
  /\ \E order \in SetToSeqs(EdgesAt(grid, v)) :
       grid' = Readdressed(UnregisterVertex(v, grid, order))
EraseEdge(e) == grid' = Readdressed(UnregisterEdge(e, grid))
EraseFace(f) == grid' = Readdressed(UnregisterFace(f, grid))

ChangeOptions(opts) == grid' = Readdressed(OptionsChanged(grid, opts))

\* Callers ask replace_vertex_is_valid: no edge or face has both vertices.
ReplaceVertex(old, new) ==
  /\ program.replaces
  /\ {old, new} \subseteq grid.verts /\ old # new
  /\ \A e \in Edges(grid) : ~ {old, new} \subseteq grid.ends[e]
  /\ \A f \in Faces(grid) : ~ {old, new} \subseteq Range(grid.corners[f])
  /\ grid' = Readdressed(ReplaceVertexIn(grid, old, new))

CreateAndReplaceVertex(x, y) ==
  /\ x \in grid.verts /\ y \notin grid.verts
  /\ grid' = Readdressed(ReplacedVertex(grid, x, y))

CreateAndReplaceEdge(x) ==
  grid' = Readdressed(ReplacedEdge(grid, x, Fresh(Edges(grid), grid.ends[x])))

CreateAndReplaceFace(x) ==
  grid' = Readdressed(ReplacedFace(grid, x, Fresh(Faces(grid), Range(grid.corners[x]))))

FlipOrientation(f) == grid' = Readdressed(FlippedFace(grid, f))

Step ==
  \/ \E v \in Vertices : CreateVertex(v) \/ EraseVertex(v)
  \/ \E s \in program.edges : CreateEdge(s)
  \/ \E c \in NewFaces : CreateFace(c)
  \/ \E e \in Edges(grid) : EraseEdge(e) \/ CreateAndReplaceEdge(e)
  \/ \E f \in Faces(grid) : EraseFace(f) \/ CreateAndReplaceFace(f) \/ FlipOrientation(f)
  \/ \E o \in program.toggles : ChangeOptions(grid.opts \cup {o}) \/ ChangeOptions(grid.opts \ {o})
  \/ \E v, w \in Vertices : ReplaceVertex(v, w) \/ CreateAndReplaceVertex(v, w)

Next == Step /\ UNCHANGED program

vars == <<program, grid>>

Spec == Init /\ [][Next]_vars

-----------------------------------------------------------------------------
(* Properties.                                                             *)

\* Every list that is stored holds exactly the neighbours of its element, each
\* of them once.
ListsHoldNeighbours ==
  /\ StoresVE(grid) => \A v \in grid.verts :
       grid.ve[v] = SetToBag({e \in Edges(grid) : v \in grid.ends[e]})
  /\ StoresVF(grid) => \A v \in grid.verts :
       grid.vf[v] = SetToBag({f \in Faces(grid) : v \in Range(grid.corners[f])})
  /\ StoresEF(grid) => \A e \in Edges(grid) :
       grid.ef[e] = SetToBag({f \in Faces(grid) : grid.ends[e] \in SidesOf(grid.corners[f])})
  /\ StoresFE(grid) => \A f \in Faces(grid) :
       /\ Range(grid.fe[f]) = {e \in Edges(grid) : grid.ends[e] \in SidesOf(grid.corners[f])}
       /\ IsInjective(grid.fe[f])

\* With generated edges the i-th entry of the list of a face is the edge of its
\* i-th side: get_edge(f, i) relies on it (grid.cpp:1080).
SidesInOrder ==
  StoresFE(grid) /\ Autogenerates(grid) =>
    \A f \in Faces(grid) : \A i \in DOMAIN grid.corners[f] :
      grid.ends[grid.fe[f][i]] = Side(grid.corners[f], i)

\* Whatever sequence of creations, erasures, replacements and option changes of a
\* Sound program led here, all that is stored about neighbours is true
\* (grid_connection_managment.cpp).
ListsAreExact == ListsHoldNeighbours /\ SidesInOrder

\* No operation erases an element twice or unregisters one that is gone.
NothingErasedTwice == ~grid.broken

\* Two edges never have the same ends, two faces never the same corners.
NoDoubles == NoDoublesIn(grid)

\* In a Sound program every element is in the grid once, and goes once.
NoElementTwice == NothingErasedTwice /\ NoDoubles

Mesh == INSTANCE PlainMesh WITH
  verts <- grid.verts,
  edges <- Range(grid.ends),
  faces <- Range(grid.corners),
  withSides <- Autogenerates(grid)

\* Whatever lists a Sound program stores and switches, the operations do to the mesh
\* what they mean: the options are for speed only.
ImplementsPlainMesh == [][Mesh!Next]_Mesh!mesh
=============================================================================
