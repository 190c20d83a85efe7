--------------------------- MODULE MCDistributedGrid ---------------------------
(* A small grid for DistributedGrid. *)
EXTENDS DistributedGrid

\* Three vertices and an edge between two of them, refined once: each has a vertex as
\* child; the edges the edge has as well are left out.
MCElems == {"a", "b", "ab", "d", "A", "B", "M", "D"}
MCVertices == {"a", "b", "d", "A", "B", "M", "D"}
MCType  == [e \in MCElems |-> IF e \in MCVertices THEN "vertex" ELSE "edge"]
MCLevel == [e \in MCElems |-> IF e \in {"a", "b", "ab", "d"} THEN 0 ELSE 1]
MCChildren ==
    [e \in MCElems |-> CASE e = "a"  -> <<"A">>
                         [] e = "b"  -> <<"B">>
                         [] e = "d"  -> <<"D">>
                         [] e = "ab" -> <<"M">>
                         [] OTHER    -> <<>>]

\* Processes 0 and 1 share the edge and its vertices: up to three children go to one
\* interface in a session, from two maps and in two orders.  Vertex b is on all of
\* them, and a vertical master on process 2.  Vertex d was left in vertical interfaces
\* when its child went to processes 0 and 1; it is a ghost on process 2.
ThreeProcs == {0, 1, 2}
ThreeElems == [p \in ThreeProcs |-> CASE p = 0 -> {"a", "b", "ab", "D"}
                                      [] p = 1 -> {"a", "b", "ab", "d", "D"}
                                      [] p = 2 -> {"b", "d"}]
ThreeLists ==
    {[kind |-> "H", master |-> 0, slave |-> 1, elems |-> <<"b", "a">>],
     [kind |-> "H", master |-> 0, slave |-> 1, elems |-> <<"ab">>],
     [kind |-> "H", master |-> 0, slave |-> 1, elems |-> <<"D">>],
     [kind |-> "H", master |-> 0, slave |-> 2, elems |-> <<"b">>],
     [kind |-> "V", master |-> 2, slave |-> 1, elems |-> <<"b", "d">>]}
==============================================================================
