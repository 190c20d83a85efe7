-------------------------- MODULE MCGridConnectivity --------------------------
(* Small instances of GridConnectivity. *)
EXTENDS GridConnectivity

VE == "VRTOPT_STORE_ASSOCIATED_EDGES"
VF == "VRTOPT_STORE_ASSOCIATED_FACES"
EF == "EDGEOPT_STORE_ASSOCIATED_FACES"
FE == "FACEOPT_STORE_ASSOCIATED_EDGES"
AUTO == "FACEOPT_AUTOGENERATE_EDGES"

\* What Grid() switches on.
GridoptDefault == {VE, VF, AUTO}

\* Two triangles with a common side.
TwoTriangles == {<<1, 2, 3>>, <<3, 2, 4>>}

\* The default options, with lists of edges switched and vertices replaced; faces
\* that start and stop to generate edges; a grid that is created with no options
\* and gets its edges by hand, with any list switched.
SmallPrograms ==
  {[options |-> GridoptDefault, toggles |-> {VE, EF, FE}, edges |-> {{2, 3}}, replaces |-> TRUE],
   [options |-> GridoptDefault, toggles |-> {FE, AUTO}, edges |-> {{2, 3}}, replaces |-> FALSE],
   [options |-> {}, toggles |-> {VE, VF, EF, FE}, edges |-> {{2, 3}, {1, 4}}, replaces |-> FALSE]}
==============================================================================
